----------------------------- MODULE AgentProfile -----------------------------
(***************************************************************************)
(* The configuration of one Agent: administrators store drafts, validate,   *)
(* publish and roll back (main.py:1001-1128), Runs take a copy of what is    *)
(* published (workspace_ops.py:159).  No row is locked.  A request reads    *)
(* the configuration and compares If-Match with it, reads the revisions in  *)
(* a later statement, and writes last: what it writes into the              *)
(* configuration comes from its first read, what it does to the revisions   *)
(* from its second.  A column is written when it differs from what was      *)
(* read, and the uniqueness of (agent_key, version_no) fails the second of  *)
(* two new revisions.                                                       *)
(***************************************************************************)
EXTENDS Naturals

CONSTANTS
    Configs,     \* configuration documents
    Normal,      \* normalize_profile_config: fills in what older ones lack
    Admins,      \* requests of administrators that may overlap
    Clients,     \* requests that make a Run
    MaxRevision, \* bound on the revisions
    MaxVersion   \* bound: commands are sent while the version is below it

\* What is stored today lacks nothing: a document is complete once normalised.
ASSUME NormalAssumption ==
    /\ Normal \in [Configs -> Configs]
    /\ \A c \in Configs : Normal[Normal[c]] = Normal[c]
ASSUME ProfileBounds == MaxRevision \in Nat \ {0} /\ MaxVersion \in Nat

VARIABLES
    item,      \* the AgentProfileConfig row
    revisions, \* AgentProfileRevision.config by version_no
    marks,     \* AgentProfileRevision.status by version_no
    went,      \* the revisions that were published, as the audit log has them
    admin,     \* what each request of an administrator has read
    client,    \* what each request for a Run has read
    snapshots  \* profile_version and profile_snapshot of the Runs

vars == <<item, revisions, marks, went, admin, client, snapshots>>

-----------------------------------------------------------------------------
Statuses == {"draft", "validated", "published"}
Item == [config : Configs, status : Statuses, published : Nat, version : Nat]
Commands == [kind : {"update"}, config : {Normal[c] : c \in Configs}]
            \cup [kind : {"validate", "publish"}]
            \cup [kind : {"rollback"}, to : 1..MaxRevision]
Idle == [at |-> "idle"]
\* A request that has read the configuration, and one that has read the number
\* of the latest revision too.
Reading == [at : {"item"}, command : Commands, item : Item]
Deciding == [at : {"latest"}, command : Commands, item : Item, latest : Nat]

Numbers == DOMAIN revisions
Latest == CHOOSE n \in Numbers : \A m \in Numbers : m <= n

\* ensure_agent_profiles: the first revision is published.
Init ==
    \E c \in Configs :
        /\ item = [config |-> c, status |-> "published", published |-> 1, version |-> 1]
        /\ revisions = [n \in {1} |-> c]
        /\ marks = [n \in {1} |-> "published"]
        /\ went = {1}
        /\ admin = [a \in Admins |-> Idle]
        /\ client = [k \in Clients |-> Idle]
        /\ snapshots = {}

-----------------------------------------------------------------------------
(* Administrators.                                                         *)

runs == <<client, snapshots>>
SetAdmin(a, to) == admin' = [admin EXCEPT ![a] = to]

\* update_agent_config and command_agent_config up to the comparison with
\* If-Match, which this administrator's client has just read.
ReadItem(a, command) ==
    /\ admin[a] = Idle /\ item.version < MaxVersion
    /\ SetAdmin(a, [at |-> "item", command |-> command, item |-> item])
    /\ UNCHANGED <<item, revisions, marks, went, runs>>

\* "Only a draft that has passed can be published"; a version to go back to
\* must exist.
Allowed(t) ==
    /\ t.command.kind = "publish" => t.item.status = "validated"
    /\ t.command.kind = "rollback" => t.command.to \in Numbers
ReadLatest(a) ==
    LET t == admin[a] IN
    /\ t.at = "item"
    /\ SetAdmin(a, IF Allowed(t)
                   THEN [at |-> "latest", command |-> t.command, item |-> t.item, latest |-> Latest]
                   ELSE Idle)
    /\ UNCHANGED <<item, revisions, marks, went, runs>>

Column(now, old, new) == IF new = old THEN now ELSE new
\* The configuration row as the request leaves it.
WriteItem(old, new) ==
    item' = [config |-> Column(item.config, old.config, new.config),
             status |-> Column(item.status, old.status, new.status),
             published |-> Column(item.published, old.published, new.published),
             version |-> old.version + 1]

Extend(f, n, x) == [m \in DOMAIN f \cup {n} |-> IF m = n THEN x ELSE f[m]]

\* Mutant of Taken: nothing makes the number unique.
NeverTaken(n) == FALSE
Taken(n) == n \in Numbers

\* A draft with the number after the latest; refused by the database if
\* another request has taken it meanwhile.
StoreDraft(a, config) ==
    LET t == admin[a]  n == t.latest + 1 IN
    /\ n <= MaxRevision
    /\ IF Taken(n) THEN UNCHANGED <<item, revisions, marks>>
       ELSE /\ WriteItem(t.item, [t.item EXCEPT !.config = config, !.status = "draft"])
            /\ revisions' = Extend(revisions, n, config)
            /\ marks' = Extend(marks, n, "draft")
    /\ SetAdmin(a, Idle)
    /\ UNCHANGED <<went, runs>>

At(a, kind) == admin[a].at = "latest" /\ admin[a].command.kind = kind

UpdateAgentConfig(a) == At(a, "update") /\ StoreDraft(a, admin[a].command.config)

\* Back to an older revision as a new draft.
Rollback(a) == At(a, "rollback") /\ StoreDraft(a, Normal[revisions[admin[a].command.to]])

Validate(a) ==
    LET t == admin[a] IN
    /\ At(a, "validate")
    /\ WriteItem(t.item, [t.item EXCEPT !.config = Normal[t.item.config], !.status = "validated"])
    /\ marks' = [marks EXCEPT ![t.latest] = "validated"]
    /\ SetAdmin(a, Idle)
    /\ UNCHANGED <<revisions, went, runs>>

\* Mutant of Publish: the version of the row is taken for that of the revision.
PublishRowVersion(a) ==
    LET t == admin[a] IN
    /\ At(a, "publish")
    /\ WriteItem(t.item, [t.item EXCEPT !.status = "published", !.published = t.item.version])
    /\ marks' = [marks EXCEPT ![t.latest] = "published"]
    /\ went' = went \cup {t.latest}
    /\ SetAdmin(a, Idle)
    /\ UNCHANGED <<revisions, runs>>
Publish(a) ==
    LET t == admin[a] IN
    /\ At(a, "publish")
    /\ WriteItem(t.item, [t.item EXCEPT !.status = "published", !.published = t.latest])
    /\ marks' = [marks EXCEPT ![t.latest] = "published"]
    /\ went' = went \cup {t.latest}
    /\ SetAdmin(a, Idle)
    /\ UNCHANGED <<revisions, runs>>

-----------------------------------------------------------------------------
(* Runs.                                                                   *)

\* published_profile_bundle reads the configuration, then the revision.
ReadPublished(k) ==
    /\ client[k] = Idle
    /\ client' = [client EXCEPT ![k] = [at |-> "item", item |-> item]]
    /\ UNCHANGED <<item, revisions, marks, went, admin, snapshots>>

\* Mutant of Source: the configuration, whatever its status.
SourceItem(row) == row.config
Source(row) == IF row.published \in Numbers THEN revisions[row.published] ELSE row.config
TakeSnapshot(k) ==
    LET row == client[k].item IN
    /\ client[k].at = "item"
    /\ row.published \in Numbers \/ row.status = "published"
    /\ snapshots' = snapshots \cup {[version |-> row.published, config |-> Normal[Source(row)]]}
    /\ client' = [client EXCEPT ![k] = Idle]
    /\ UNCHANGED <<item, revisions, marks, went, admin>>

-----------------------------------------------------------------------------
Next ==
    \/ \E a \in Admins :
           \/ \E command \in Commands : ReadItem(a, command)
           \/ ReadLatest(a)
           \/ UpdateAgentConfig(a) \/ Rollback(a) \/ Validate(a) \/ Publish(a)
    \/ \E k \in Clients : ReadPublished(k) \/ TakeSnapshot(k)

Spec == Init /\ [][Next]_vars

-----------------------------------------------------------------------------
(* Properties.                                                             *)

\* Types; the revisions are numbered without a gap, and what is published, or
\* read as the latest, exists: published_profile_bundle never fails.
TypeOK ==
    /\ item \in Item
    /\ \E n \in 1..MaxRevision : revisions \in [1..n -> Configs] /\ marks \in [1..n -> Statuses]
    /\ went \subseteq Numbers
    /\ item.published \in went
    /\ admin \in [Admins -> {Idle} \cup Reading \cup Deciding]
    /\ \A a \in Admins : admin[a].at = "latest" => admin[a].latest \in Numbers
    /\ client \in [Clients -> {Idle} \cup [at : {"item"}, item : Item]]
    /\ snapshots \subseteq [version : Nat, config : Configs]

\* What a Run works with is a revision that was published, under its number and
\* with its text, however many administrators store, validate, publish and roll
\* back meanwhile (workspace_ops.py:159).
SnapshotPublished ==
    \A s \in snapshots : s.version \in went /\ s.config = Normal[revisions[s.version]]

\* A revision is never rewritten and never disappears: the history an
\* administrator goes back to is the one that was stored.
RevisionsKept ==
    [][\A n \in Numbers : n \in DOMAIN revisions' /\ revisions'[n] = revisions[n]]_vars
=============================================================================
