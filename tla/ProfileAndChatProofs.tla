------------------------ MODULE ProfileAndChatProofs ------------------------
(***************************************************************************)
(* Proofs about the Agents people talk to: their profiles (AgentProfile,    *)
(* for any documents, administrators, clients and bounds) and the turns of  *)
(* the conversation (ChatTurn, for any turns, Workers and limit), whose     *)
(* creation is one of AgentProfile's clients (main.py:652).                 *)
(***************************************************************************)
EXTENDS AgentProfile, ChatTurn, SequenceTheorems, TLAPS

-----------------------------------------------------------------------------
(* AgentProfile: the inductive invariant.                                  *)

\* What requests have read stays true enough: a version that was published has
\* been published, and a revision that existed exists.
ReadingsHold ==
    /\ \A a \in Admins : admin[a].at # "idle" => admin[a].item.published \in went
    /\ \A a \in Admins :
           admin[a].at = "latest" /\ admin[a].command.kind = "rollback" =>
               admin[a].command.to \in Numbers
    /\ \A k \in Clients : client[k].at = "item" => client[k].item.published \in went

ProfileInv == TypeOK /\ ReadingsHold /\ SnapshotPublished

-----------------------------------------------------------------------------
(* The revisions.                                                          *)

\* Types of what the requests of administrators carry.
LEMMA Carried ==
    ASSUME TypeOK, NEW a \in Admins
    PROVE  /\ admin[a].at = "item" => admin[a] \in Reading
           /\ admin[a].at = "latest" => admin[a] \in Deciding /\ admin[a].latest \in Numbers
BY DEF TypeOK, Reading, Deciding, Idle

\* The latest revision is one.
LEMMA LatestExists == ASSUME TypeOK PROVE Latest \in Numbers /\ Numbers \subseteq Nat
<1>1. PICK n \in 1..MaxRevision : revisions \in [1..n -> Configs]
  BY DEF TypeOK
<1>2. n \in Numbers /\ \A m \in Numbers : m <= n
  BY <1>1, ProfileBounds DEF Numbers
<1>3. Latest \in Numbers
  BY <1>2 DEF Latest
<1> QED
  BY <1>1, <1>3 DEF Numbers

\* A draft is added behind the last revision, or nothing happens to them.
LEMMA DraftAdded ==
    ASSUME TypeOK, NEW a \in Admins, admin[a].at = "latest", NEW config \in Configs,
           StoreDraft(a, config)
    PROVE  /\ \E n \in 1..MaxRevision :
                  revisions' \in [1..n -> Configs] /\ marks' \in [1..n -> Statuses]
           /\ Numbers \subseteq Numbers'
           /\ \A n \in Numbers : revisions'[n] = revisions[n]
<1>1. PICK n \in 1..MaxRevision : revisions \in [1..n -> Configs] /\ marks \in [1..n -> Statuses]
  BY DEF TypeOK
<1>2. admin[a].latest \in 1..n
  BY <1>1, Carried DEF Numbers
<1> DEFINE new == admin[a].latest + 1
<1>3. CASE new \in 1..n
  BY <1>1, <1>3 DEF StoreDraft, Taken, Numbers
<1>4. CASE new \notin 1..n
  <2>1. new = n + 1 /\ new \in 1..MaxRevision
    BY <1>2, <1>4, ProfileBounds DEF StoreDraft
  <2>2. /\ revisions' = Extend(revisions, new, config)
        /\ marks' = Extend(marks, new, "draft")
    BY <1>1, <1>4 DEF StoreDraft, Taken, Numbers
  <2>3. 1..new = (1..n) \cup {new}
    BY <2>1
  <2>4. /\ revisions' \in [1..new -> Configs] /\ marks' \in [1..new -> Statuses]
        /\ \A m \in 1..n : revisions'[m] = revisions[m]
    BY <1>1, <1>4, <2>2, <2>3 DEF Extend, Statuses
  <2> QED
    BY <1>1, <2>1, <2>3, <2>4 DEF Numbers
<1> QED
  BY <1>3, <1>4

\* The row that a request leaves is a row.
LEMMA RowWritten ==
    ASSUME item \in Item, NEW old \in Item, NEW new \in Item, WriteItem(old, new)
    PROVE  /\ item' \in Item
           /\ item'.published \in {item.published, new.published}
BY DEF WriteItem, Column, Item

-----------------------------------------------------------------------------
LEMMA ProfileInit == Init => ProfileInv
<1> SUFFICES ASSUME Init PROVE ProfileInv
  OBVIOUS
<1>1. PICK c \in Configs :
          /\ item = [config |-> c, status |-> "published", published |-> 1, version |-> 1]
          /\ revisions = [n \in {1} |-> c]
          /\ marks = [n \in {1} |-> "published"]
          /\ went = {1}
          /\ admin = [a \in Admins |-> Idle]
          /\ client = [k \in Clients |-> Idle]
          /\ snapshots = {}
  BY DEF Init
<1>2. 1 \in 1..MaxRevision /\ 1..1 = {1}
  BY ProfileBounds
<1>3. \E n \in 1..MaxRevision : revisions \in [1..n -> Configs] /\ marks \in [1..n -> Statuses]
  BY <1>1, <1>2 DEF Statuses
<1>4. TypeOK
  BY <1>1, <1>3 DEF TypeOK, Item, Statuses, Numbers, Idle
<1> QED
  BY <1>1, <1>4 DEF ProfileInv, ReadingsHold, SnapshotPublished, Idle

\* Steps that leave revisions and what was published alone.
LEMMA ReadStep ==
    ASSUME ProfileInv, NEW a \in Admins,
           (\E command \in Commands : ReadItem(a, command)) \/ ReadLatest(a)
    PROVE  ProfileInv'
<1> USE DEF ProfileInv
<1>1. CASE \E command \in Commands : ReadItem(a, command)
  <2>1. PICK command \in Commands : ReadItem(a, command)
    BY <1>1
  <2>2. [at |-> "item", command |-> command, item |-> item] \in Reading
    BY DEF TypeOK, Reading
  <2>3. \A b \in Admins :
            admin'[b] = IF b = a THEN [at |-> "item", command |-> command, item |-> item]
                                 ELSE admin[b]
    BY <2>1 DEF TypeOK, ReadItem, SetAdmin
  <2>4. UNCHANGED <<item, revisions, marks, went, client, snapshots>>
    BY <2>1 DEF ReadItem, runs
  <2>5. TypeOK'
    <3>1. admin' \in [Admins -> {Idle} \cup Reading \cup Deciding]
      BY <2>1, <2>2 DEF TypeOK, ReadItem, SetAdmin
    <3>2. \A b \in Admins : admin'[b].at = "latest" => admin'[b].latest \in Numbers
      BY <2>3 DEF TypeOK
    <3> QED
      BY <2>4, <3>1, <3>2 DEF TypeOK, Numbers
  <2>6. ReadingsHold'
    BY <2>3, <2>4 DEF TypeOK, ReadingsHold, Numbers
  <2> QED
    BY <2>4, <2>5, <2>6 DEF SnapshotPublished
<1>2. CASE ReadLatest(a)
  <2>1. admin[a] \in Reading /\ Latest \in Numbers /\ Numbers \subseteq Nat
    BY <1>2, Carried, LatestExists DEF ReadLatest
  <2> DEFINE t == [at |-> "latest", command |-> admin[a].command, item |-> admin[a].item,
                   latest |-> Latest]
  <2>2. t \in Deciding
    BY <2>1 DEF Reading, Deciding
  <2>3. TypeOK'
    BY <1>2, <2>1, <2>2 DEF TypeOK, ReadLatest, SetAdmin, Numbers, runs, Idle
  <2>4. ReadingsHold'
    BY <1>2, <2>1 DEF TypeOK, ReadingsHold, ReadLatest, SetAdmin, Allowed, Reading, Numbers, runs, Idle
  <2> QED
    BY <1>2, <2>3, <2>4 DEF SnapshotPublished, ReadLatest, runs
<1> QED
  BY <1>1, <1>2

\* What all writing steps have in common.
LEMMA WriteStep ==
    ASSUME ProfileInv, NEW a \in Admins, admin[a].at = "latest",
           \E n \in 1..MaxRevision :
               revisions' \in [1..n -> Configs] /\ marks' \in [1..n -> Statuses],
           Numbers \subseteq Numbers',
           \A n \in Numbers : revisions'[n] = revisions[n],
           item' \in Item, item'.published \in went',
           went \subseteq went', went' \subseteq Numbers',
           SetAdmin(a, Idle), UNCHANGED runs
    PROVE  ProfileInv'
<1>1. TypeOK'
  <2>1. admin' \in [Admins -> {Idle} \cup Reading \cup Deciding]
    BY DEF ProfileInv, TypeOK, SetAdmin
  <2>2. \A b \in Admins : admin'[b].at = "latest" => admin'[b].latest \in Numbers'
    BY DEF ProfileInv, TypeOK, SetAdmin, Idle
  <2>3. UNCHANGED <<client, snapshots>>
    BY DEF runs
  <2> QED
    BY <2>1, <2>2, <2>3 DEF ProfileInv, TypeOK
<1>2. ReadingsHold'
  BY DEF ProfileInv, TypeOK, ReadingsHold, SetAdmin, Idle, runs
<1>3. SnapshotPublished'
  BY DEF ProfileInv, TypeOK, SnapshotPublished, runs
<1> QED
  BY <1>1, <1>2, <1>3 DEF ProfileInv

LEMMA DraftStep ==
    ASSUME ProfileInv, NEW a \in Admins, UpdateAgentConfig(a) \/ Rollback(a)
    PROVE  /\ ProfileInv'
           /\ Numbers \subseteq Numbers'
           /\ \A n \in Numbers : revisions'[n] = revisions[n]
<1>1. admin[a].at = "latest" /\ admin[a] \in Deciding
  BY Carried DEF ProfileInv, UpdateAgentConfig, Rollback, At
<1>2. PICK config \in Configs : StoreDraft(a, config)
  <2>1. CASE UpdateAgentConfig(a)
    <3>1. admin[a].command.config \in Configs
      BY <1>1, <2>1, NormalAssumption DEF UpdateAgentConfig, At, Deciding, Commands
    <3> QED
      BY <2>1, <3>1 DEF UpdateAgentConfig
  <2>2. CASE Rollback(a)
    <3>1. admin[a].command.to \in Numbers
      BY <1>1, <2>2 DEF ProfileInv, ReadingsHold, Rollback, At
    <3>2. Normal[revisions[admin[a].command.to]] \in Configs
      BY <3>1, NormalAssumption DEF ProfileInv, TypeOK, Numbers
    <3> QED
      BY <2>2, <3>2 DEF Rollback
  <2> QED
    BY <2>1, <2>2
<1>3. /\ \E n \in 1..MaxRevision :
             revisions' \in [1..n -> Configs] /\ marks' \in [1..n -> Statuses]
      /\ Numbers \subseteq Numbers'
      /\ \A n \in Numbers : revisions'[n] = revisions[n]
  BY <1>1, <1>2, DraftAdded DEF ProfileInv
<1>4. item' \in Item /\ item'.published \in went
  <2>1. CASE UNCHANGED item
    BY <2>1 DEF ProfileInv, TypeOK
  <2>2. CASE WriteItem(admin[a].item, [admin[a].item EXCEPT !.config = config, !.status = "draft"])
    <3>1. admin[a].item \in Item /\ item \in Item /\ admin[a].item.published \in went
      BY <1>1 DEF ProfileInv, TypeOK, ReadingsHold, Deciding
    <3>2. [admin[a].item EXCEPT !.config = config, !.status = "draft"] \in Item
      BY <3>1 DEF Item, Statuses
    <3> QED
      BY <2>2, <3>1, <3>2, RowWritten DEF ProfileInv, TypeOK, Item
  <2> QED
    BY <1>2, <2>1, <2>2 DEF StoreDraft
<1>5. SetAdmin(a, Idle) /\ UNCHANGED <<went, runs>>
  BY <1>2 DEF StoreDraft
<1>6. went \subseteq Numbers
  BY DEF ProfileInv, TypeOK
<1> QED
  BY <1>1, <1>3, <1>4, <1>5, <1>6, WriteStep

LEMMA MarkStep ==
    ASSUME ProfileInv, NEW a \in Admins, Validate(a) \/ Publish(a)
    PROVE  ProfileInv' /\ UNCHANGED revisions
<1>1. /\ admin[a].at = "latest" /\ admin[a] \in Deciding /\ admin[a].latest \in Numbers
      /\ UNCHANGED <<revisions, runs>> /\ SetAdmin(a, Idle)
  BY Carried DEF ProfileInv, Validate, Publish, At
<1>2. /\ admin[a].item \in Item /\ item \in Item
      /\ admin[a].item.published \in went /\ item.published \in went
  BY <1>1 DEF ProfileInv, TypeOK, ReadingsHold, Deciding
<1>3. \E n \in 1..MaxRevision :
          revisions' \in [1..n -> Configs] /\ marks' \in [1..n -> Statuses]
  BY <1>1 DEF ProfileInv, TypeOK, Validate, Publish, Statuses
<1>4. went \subseteq Numbers /\ Numbers' = Numbers
  BY <1>1 DEF ProfileInv, TypeOK, Numbers
<1>5. CASE Validate(a)
  <2>1. [admin[a].item EXCEPT !.config = Normal[admin[a].item.config], !.status = "validated"]
            \in Item
    BY <1>2, NormalAssumption DEF Item, Statuses
  <2>2. item' \in Item /\ item'.published \in went
    BY <1>2, <1>5, <2>1, RowWritten DEF Validate, Item
  <2> QED
    BY <1>1, <1>3, <1>4, <1>5, <2>2, WriteStep DEF Validate
<1>6. CASE Publish(a)
  <2> DEFINE new == [admin[a].item EXCEPT !.status = "published", !.published = admin[a].latest]
  <2>1. new \in Item /\ new.published = admin[a].latest
    BY <1>1, <1>2, LatestExists DEF Item, Statuses, ProfileInv
  <2>2. WriteItem(admin[a].item, new)
    BY <1>6 DEF Publish
  <2> HIDE DEF new
  <2>3. item' \in Item /\ item'.published \in went'
    BY <1>2, <1>6, <2>1, <2>2, RowWritten DEF Publish
  <2> QED
    BY <1>1, <1>3, <1>4, <1>6, <2>3, WriteStep DEF Publish
<1> QED
  BY <1>1, <1>5, <1>6

LEMMA ClientStep ==
    ASSUME ProfileInv, NEW k \in Clients, ReadPublished(k) \/ TakeSnapshot(k)
    PROVE  ProfileInv' /\ UNCHANGED revisions
<1>1. CASE ReadPublished(k)
  <2>1. TypeOK'
    BY <1>1 DEF ProfileInv, TypeOK, ReadPublished, Numbers
  <2>2. ReadingsHold' /\ SnapshotPublished'
    BY <1>1 DEF ProfileInv, TypeOK, ReadingsHold, SnapshotPublished, ReadPublished, Numbers
  <2> QED
    BY <1>1, <2>1, <2>2 DEF ProfileInv, ReadPublished
<1>2. CASE TakeSnapshot(k)
  <2> DEFINE row == client[k].item
             new == [version |-> row.published, config |-> Normal[revisions[row.published]]]
  <2>1. row \in Item /\ row.published \in went /\ row.published \in Numbers
    BY <1>2 DEF ProfileInv, TypeOK, ReadingsHold, TakeSnapshot, Idle
  <2>2. snapshots' = snapshots \cup {new}
    BY <1>2, <2>1 DEF TakeSnapshot, Source
  <2>3. new \in [version : Nat, config : Configs]
    BY <2>1, LatestExists, NormalAssumption DEF ProfileInv, TypeOK, Numbers
  <2>4. new.version \in went /\ new.config = Normal[revisions[new.version]]
    BY <2>1
  <2> HIDE DEF new
  <2>5. TypeOK'
    BY <1>2, <2>2, <2>3 DEF ProfileInv, TypeOK, TakeSnapshot, Numbers
  <2>6. ReadingsHold'
    BY <1>2 DEF ProfileInv, TypeOK, ReadingsHold, TakeSnapshot, Numbers, Idle
  <2>7. SnapshotPublished'
    BY <1>2, <2>2, <2>4 DEF ProfileInv, SnapshotPublished, TakeSnapshot
  <2> QED
    BY <1>2, <2>5, <2>6, <2>7 DEF ProfileInv, TakeSnapshot
<1> QED
  BY <1>1, <1>2

LEMMA ProfileStep ==
    ASSUME ProfileInv, [Next]_vars
    PROVE  /\ ProfileInv'
           /\ \A n \in Numbers : n \in Numbers' /\ revisions'[n] = revisions[n]
<1>1. CASE UNCHANGED vars
  BY <1>1 DEF vars, ProfileInv, TypeOK, ReadingsHold, SnapshotPublished, Numbers
<1>2. ASSUME NEW a \in Admins, NEW command \in Commands, ReadItem(a, command)
      PROVE  ProfileInv' /\ UNCHANGED revisions
  BY <1>2, ReadStep DEF ReadItem
<1>3. ASSUME NEW a \in Admins, ReadLatest(a)
      PROVE  ProfileInv' /\ UNCHANGED revisions
  BY <1>3, ReadStep DEF ReadLatest
<1> QED
  BY <1>1, <1>2, <1>3, DraftStep, MarkStep, ClientStep DEF Next, Numbers

-----------------------------------------------------------------------------
(* ChatTurn: tables as lists of a turn's entries.                          *)

\* What is added for another turn does not count.
LEMMA ListsOther ==
    ASSUME NEW S, NEW table \in Seq(S), NEW e \in S, NEW t, NEW entries \in Seq(S),
           Lists(table, t, entries), e.turn # t
    PROVE  Lists(Append(table, e), t, entries)
<1> DEFINE new == Append(table, e)
<1>1. PICK place \in [1..Len(entries) -> DOMAIN table] :
          /\ \A i, j \in 1..Len(entries) : i < j => place[i] < place[j]
          /\ \A i \in 1..Len(entries) : table[place[i]] = entries[i]
          /\ \A n \in DOMAIN table : table[n].turn = t => \E i \in 1..Len(entries) : place[i] = n
  BY DEF Lists
<1>2. /\ DOMAIN table = 1..Len(table) /\ Len(table) \in Nat
      /\ DOMAIN new = 1..(Len(table) + 1)
      /\ new[Len(table) + 1] = e
      /\ \A n \in DOMAIN table : n \in DOMAIN new /\ new[n] = table[n]
  OBVIOUS
<1> HIDE DEF new
<1>3. place \in [1..Len(entries) -> DOMAIN new]
  BY <1>1, <1>2
<1>4. \A i \in 1..Len(entries) : new[place[i]] = entries[i]
  BY <1>1, <1>2
<1>5. \A n \in DOMAIN new : new[n].turn = t => \E i \in 1..Len(entries) : place[i] = n
  <2> SUFFICES ASSUME NEW n \in DOMAIN new, new[n].turn = t
               PROVE  \E i \in 1..Len(entries) : place[i] = n
    OBVIOUS
  <2>1. n \in DOMAIN table
    BY <1>2
  <2> QED
    BY <1>1, <1>2, <2>1
<1>6. Lists(new, t, entries)
  BY <1>1, <1>3, <1>4, <1>5 DEF Lists
<1> QED
  BY <1>6 DEF new

\* What is added for the turn is its last entry.
LEMMA ListsMore ==
    ASSUME NEW S, NEW table \in Seq(S), NEW e \in S, NEW t, NEW entries \in Seq(S),
           Lists(table, t, entries)
    PROVE  Lists(Append(table, e), t, Append(entries, e))
<1> DEFINE new == Append(table, e)
           more == Append(entries, e)
           last == Len(entries) + 1
<1>1. PICK place \in [1..Len(entries) -> DOMAIN table] :
          /\ \A i, j \in 1..Len(entries) : i < j => place[i] < place[j]
          /\ \A i \in 1..Len(entries) : table[place[i]] = entries[i]
          /\ \A n \in DOMAIN table : table[n].turn = t => \E i \in 1..Len(entries) : place[i] = n
  BY DEF Lists
<1>2. /\ DOMAIN table = 1..Len(table) /\ Len(table) \in Nat
      /\ DOMAIN new = 1..(Len(table) + 1)
      /\ new[Len(table) + 1] = e
      /\ \A n \in DOMAIN table : n \in DOMAIN new /\ new[n] = table[n]
  OBVIOUS
<1>3. /\ Len(more) = last /\ last \in Nat \ {0} /\ Len(entries) \in Nat
      /\ more[last] = e
      /\ \A i \in 1..Len(entries) : more[i] = entries[i] /\ i \in 1..last /\ i < last
      /\ \A i \in 1..last : i = last \/ i \in 1..Len(entries)
  OBVIOUS
<1> HIDE DEF new, more, last
<1> DEFINE to == [i \in 1..last |-> IF i = last THEN Len(table) + 1 ELSE place[i]]
<1>4. /\ to[last] = Len(table) + 1
      /\ \A i \in 1..Len(entries) : to[i] = place[i] /\ place[i] \in 1..Len(table)
      /\ to \in [1..last -> DOMAIN new]
  <2>1. \A i \in 1..Len(entries) : place[i] \in 1..Len(table) /\ place[i] \in DOMAIN new
    BY <1>1, <1>2
  <2>2. last \in 1..last /\ Len(table) + 1 \in DOMAIN new
    BY <1>2, <1>3
  <2>3. \A i \in 1..last : (IF i = last THEN Len(table) + 1 ELSE place[i]) \in DOMAIN new
    BY <1>3, <2>1, <2>2
  <2> QED
    BY <1>3, <2>1, <2>2, <2>3
<1> HIDE DEF to
<1>5. \A i, j \in 1..last : i < j => to[i] < to[j]
  <2> SUFFICES ASSUME NEW i \in 1..last, NEW j \in 1..last, i < j PROVE to[i] < to[j]
    OBVIOUS
  <2>1. i \in 1..Len(entries)
    BY <1>3
  <2>2. CASE j = last
    BY <1>2, <1>4, <2>1, <2>2
  <2>3. CASE j \in 1..Len(entries)
    BY <1>1, <1>4, <2>1, <2>3
  <2> QED
    BY <1>3, <2>2, <2>3
<1>6. \A i \in 1..last : new[to[i]] = more[i]
  BY <1>1, <1>2, <1>3, <1>4
<1>7. \A n \in DOMAIN new : new[n].turn = t => \E i \in 1..last : to[i] = n
  <2> SUFFICES ASSUME NEW n \in DOMAIN new, new[n].turn = t PROVE \E i \in 1..last : to[i] = n
    OBVIOUS
  <2>1. CASE n = Len(table) + 1
    BY <1>3, <1>4, <2>1
  <2>2. CASE n \in DOMAIN table
    <3>1. PICK i \in 1..Len(entries) : place[i] = n
      BY <1>1, <1>2, <2>2
    <3> QED
      BY <1>3, <1>4, <3>1
  <2> QED
    BY <1>2, <2>1, <2>2
<1>8. Lists(new, t, more)
  BY <1>3, <1>4, <1>5, <1>6, <1>7 DEF Lists
<1> QED
  BY <1>8 DEF new, more

\* What Append does.
LEMMA AppendedEnd ==
    ASSUME NEW S, NEW s \in Seq(S), NEW e \in S
    PROVE  /\ Append(s, e) \in Seq(S) /\ Len(Append(s, e)) = Len(s) + 1
           /\ Append(s, e)[Len(s) + 1] = e
           /\ \A i \in 1..Len(s) : Append(s, e)[i] = s[i]
OBVIOUS

\* Two entries.
LEMMA AppendToOne ==
    ASSUME NEW S, NEW one \in Seq(S), NEW a \in S, NEW b \in S, one = <<a>>
    PROVE  Append(one, b) = <<a, b>>
<1> DEFINE long == Append(one, b)
           two == <<a, b>>
<1>1. Len(one) = 1 /\ one[1] = a
  OBVIOUS
<1>2. two \in Seq(S) /\ Len(two) = 2 /\ two[1] = a /\ two[2] = b
  OBVIOUS
<1>3. /\ long \in Seq(S) /\ Len(long) = Len(one) + 1 /\ long[Len(one) + 1] = b
      /\ \A i \in 1..Len(one) : long[i] = one[i]
  BY AppendedEnd
<1> HIDE DEF long, two
<1>4. \A i \in 1..2 : i = 1 \/ i = 2
  OBVIOUS
<1>5. long = two
  BY <1>1, <1>2, <1>3, <1>4, SeqEqual
<1> QED
  BY <1>5 DEF long, two

-----------------------------------------------------------------------------
(* The inductive invariant.                                                *)

\* A turn and its Run exist together; the Attempts of a Run are numbered, and
\* one that waits may have another.
Numbered ==
    \A t \in Turns :
        /\ turn[t] = "none" <=> run[t].status = "none"
        /\ run[t].status = "none" => run[t].made = 0
        /\ run[t].status = "queued" => run[t].made < MaxAttempts
        /\ run[t].status = "active" => run[t].attempt = run[t].made

ChatInv == ChatTypeOK /\ TurnFollowsRun /\ Numbered /\ PersistedOnce

\* What a turn should have said and logged are messages and activities.
LEMMA ListsTyped ==
    ASSUME ChatTypeOK, NEW t \in Turns
    PROVE  /\ Question(t) \in Message /\ Reply(t) \in Message
           /\ Said(t) \in Seq(Message) /\ Logged(t) \in Seq(Activity)
<1>1. run[t].attempt \in 0..MaxAttempts /\ 0 \in 0..MaxAttempts
  BY ChatAssumption DEF ChatTypeOK, Run
<1>2. Question(t) \in Message /\ Reply(t) \in Message
  BY <1>1 DEF Question, Reply, Message
<1>3. turn[t] # "none" => Event("queued", t) \in Activity /\ Event(turn[t], t) \in Activity
  BY DEF ChatTypeOK, Event, Activity
<1> HIDE DEF Message, Activity
<1> QED
  BY <1>2, <1>3 DEF Said, Logged

LEMMA ChatInitial == ChatInit => ChatInv
<1> SUFFICES ASSUME ChatInit PROVE ChatInv
  OBVIOUS
<1>1. /\ turn = [t \in Turns |-> "none"] /\ failure = [t \in Turns |-> "none"]
      /\ run = [t \in Turns |-> NoRun] /\ worker = [w \in Workers |-> Free]
      /\ conversation = <<>> /\ activity = <<>>
  BY DEF ChatInit
<1>2. NoRun \in Run /\ NoRun.status = "none" /\ NoRun.made = 0
  BY ChatAssumption DEF NoRun, Run
<1>3. ChatTypeOK
  BY <1>1, <1>2 DEF ChatTypeOK
<1>4. TurnFollowsRun /\ Numbered
  BY <1>1, <1>2 DEF TurnFollowsRun, Numbered
<1>5. ASSUME NEW t PROVE Lists(<<>>, t, <<>>)
  <2> DEFINE empty == <<>>
             place == [i \in 1..0 |-> i]
  <2>1. Len(empty) = 0 /\ DOMAIN empty = {} /\ 1..0 = {}
    OBVIOUS
  <2> HIDE DEF empty
  <2>2. place \in [1..Len(empty) -> DOMAIN empty]
    BY <2>1
  <2>3. Lists(empty, t, empty)
    BY <2>1, <2>2 DEF Lists
  <2> QED
    BY <2>3 DEF empty
<1>6. PersistedOnce
  BY <1>1, <1>5 DEF PersistedOnce, Said, Logged
<1> QED
  BY <1>3, <1>4, <1>6 DEF ChatInv

-----------------------------------------------------------------------------
(* The steps.                                                              *)

\* What t has said and logged grows by what is stored, and no other turn's does.
LEMMA PersistedKept ==
    ASSUME ChatInv, NEW t \in Turns,
           \A u \in Turns : u # t => turn'[u] = turn[u] /\ run'[u] = run[u],
           \/ UNCHANGED conversation /\ Said(t)' = Said(t)
           \/ \E e \in Message : /\ e.turn = t /\ conversation' = Append(conversation, e)
                                 /\ Said(t)' = Append(Said(t), e),
           \/ UNCHANGED activity /\ Logged(t)' = Logged(t)
           \/ \E e \in Activity : /\ e.turn = t /\ activity' = Append(activity, e)
                                  /\ Logged(t)' = Append(Logged(t), e)
    PROVE  PersistedOnce'
<1> SUFFICES ASSUME NEW u \in Turns
             PROVE  Lists(conversation', u, Said(u)') /\ Lists(activity', u, Logged(u)')
  BY DEF PersistedOnce
<1>1. /\ Lists(conversation, u, Said(u)) /\ Lists(activity, u, Logged(u))
      /\ conversation \in Seq(Message) /\ activity \in Seq(Activity)
  BY DEF ChatInv, PersistedOnce, ChatTypeOK
<1>2. Said(u) \in Seq(Message) /\ Logged(u) \in Seq(Activity)
  BY ListsTyped DEF ChatInv
<1>3. CASE u # t
  <2>1. Said(u)' = Said(u) /\ Logged(u)' = Logged(u)
    BY <1>3 DEF Said, Logged, Reply
  <2>2. Lists(conversation', u, Said(u))
    <3>1. CASE UNCHANGED conversation
      BY <1>1, <3>1
    <3>2. ASSUME NEW e \in Message, e.turn = t, conversation' = Append(conversation, e)
          PROVE  Lists(conversation', u, Said(u))
      BY <1>1, <1>2, <1>3, <3>2, ListsOther
    <3> QED
      BY <3>1, <3>2
  <2>3. Lists(activity', u, Logged(u))
    <3>1. CASE UNCHANGED activity
      BY <1>1, <3>1
    <3>2. ASSUME NEW e \in Activity, e.turn = t, activity' = Append(activity, e)
          PROVE  Lists(activity', u, Logged(u))
      BY <1>1, <1>2, <1>3, <3>2, ListsOther
    <3> QED
      BY <3>1, <3>2
  <2> QED
    BY <2>1, <2>2, <2>3
<1>4. CASE u = t
  <2>1. Lists(conversation', t, Said(t)')
    <3>1. CASE UNCHANGED conversation /\ Said(t)' = Said(t)
      BY <1>1, <1>4, <3>1
    <3>2. ASSUME NEW e \in Message, conversation' = Append(conversation, e),
                 Said(t)' = Append(Said(t), e)
          PROVE  Lists(conversation', t, Said(t)')
      BY <1>1, <1>2, <1>4, <3>2, ListsMore
    <3> QED
      BY <3>1, <3>2
  <2>2. Lists(activity', t, Logged(t)')
    <3>1. CASE UNCHANGED activity /\ Logged(t)' = Logged(t)
      BY <1>1, <1>4, <3>1
    <3>2. ASSUME NEW e \in Activity, activity' = Append(activity, e),
                 Logged(t)' = Append(Logged(t), e)
          PROVE  Lists(activity', t, Logged(t)')
      BY <1>1, <1>2, <1>4, <3>2, ListsMore
    <3> QED
      BY <3>1, <3>2
  <2> QED
    BY <1>4, <2>1, <2>2
<1> QED
  BY <1>3, <1>4

\* A Run that is not over moves on; nothing is stored.
LEMMA RunMoves ==
    ASSUME ChatInv, NEW t \in Turns, NEW row \in Run,
           run[t].status \in {"queued", "active"}, row.status \in {"queued", "active"},
           row.status = "queued" => row.made < MaxAttempts,
           row.status = "active" => row.attempt = row.made,
           run' = [run EXCEPT ![t] = row], UNCHANGED records,
           worker' \in [Workers -> {Free} \cup Holding]
    PROVE  ChatInv'
<1>1. /\ turn' = turn /\ failure' = failure /\ conversation' = conversation /\ activity' = activity
      /\ run'[t] = row /\ \A u \in Turns : u # t => run'[u] = run[u]
      /\ run' \in [Turns -> Run]
  BY DEF records, ChatInv, ChatTypeOK
<1>2. ChatTypeOK'
  BY <1>1 DEF ChatInv, ChatTypeOK
<1>3. turn[t] = "queued"
  BY DEF ChatInv, TurnFollowsRun
<1>4. TurnFollowsRun'
  BY <1>1, <1>3 DEF ChatInv, TurnFollowsRun
<1>5. Numbered'
  BY <1>1, <1>3 DEF ChatInv, Numbered
<1>6. Said(t)' = Said(t) /\ Logged(t)' = Logged(t)
  BY <1>1, <1>3 DEF Said, Logged
<1>7. PersistedOnce'
  BY <1>1, <1>6, PersistedKept
<1> QED
  BY <1>2, <1>4, <1>5, <1>7 DEF ChatInv

\* Only Workers move.
LEMMA WorkerMoves ==
    ASSUME ChatInv, UNCHANGED <<records, run>>, worker' \in [Workers -> {Free} \cup Holding]
    PROVE  ChatInv'
<1>1. /\ turn' = turn /\ failure' = failure /\ conversation' = conversation
      /\ activity' = activity /\ run' = run
  BY DEF records
<1>2. ChatTypeOK' /\ TurnFollowsRun' /\ Numbered'
  BY <1>1 DEF ChatInv, ChatTypeOK, TurnFollowsRun, Numbered
<1>3. \A t \in Turns : Said(t)' = Said(t) /\ Logged(t)' = Logged(t)
  BY <1>1 DEF Said, Logged, Reply
<1>4. PersistedOnce'
  BY <1>1, <1>3 DEF ChatInv, PersistedOnce
<1> QED
  BY <1>2, <1>4 DEF ChatInv

\* The end of a Run that was not over closes its turn.
LEMMA RunEnds ==
    ASSUME ChatInv, NEW t \in Turns, NEW to \in Ends, NEW reply \in BOOLEAN,
           NEW retry \in {"none", "safe", "unsafe"},
           run[t].status \in {"queued", "active"}, EndRun(t, to, reply, retry),
           worker' \in [Workers -> {Free} \cup Holding]
    PROVE  ChatInv'
<1>1. turn[t] = "queued" /\ run[t] \in Run
  BY DEF ChatInv, TurnFollowsRun, ChatTypeOK
<1> DEFINE success == to = "evidence_accepted" /\ reply
           closed == IF success THEN "completed" ELSE IF to = "evidence_accepted" THEN "failed" ELSE to
<1>2. /\ run'[t].status = to /\ run'[t].attempt = run[t].attempt
      /\ \A u \in Turns : u # t => run'[u] = run[u]
      /\ run' \in [Turns -> Run]
  BY <1>1 DEF EndRun, ChatInv, ChatTypeOK, Run
<1>3. SyncChatTurn(t, to, reply, retry) /\ turn[t] \notin ClosedTurns
  BY <1>1 DEF EndRun, ClosedTurns
<1>4. closed \in ClosedTurns
  BY DEF Ends, ClosedTurns
<1>5. PICK kind \in {"none", "safe", "unsafe"} : Close(t, closed, kind)
  BY <1>3 DEF SyncChatTurn
<1>6. IF success THEN conversation' = Append(conversation, Reply(t))
                 ELSE UNCHANGED conversation
  BY <1>3 DEF SyncChatTurn, Say, Reply
<1>7. (closed = "completed" <=> success) /\ (to \in {"cancelled", "unknown"} => closed = to)
      /\ (success => to = "evidence_accepted")
  BY DEF Ends
<1> HIDE DEF success, closed
<1>8. /\ turn'[t] = closed /\ \A u \in Turns : u # t => turn'[u] = turn[u]
      /\ turn' \in [Turns -> {"none", "queued"} \cup ClosedTurns]
      /\ failure' \in [Turns -> {"none", "safe", "unsafe"}]
      /\ activity' = Append(activity, Event(closed, t))
  BY <1>4, <1>5 DEF Close, Log, Event, ChatInv, ChatTypeOK
<1>9. Reply(t) \in Message /\ Event(closed, t) \in Activity
  BY <1>4, ListsTyped DEF ChatInv, Event, Activity
<1>10. ChatTypeOK'
  <2>1. conversation \in Seq(Message) /\ activity \in Seq(Activity)
    BY DEF ChatInv, ChatTypeOK
  <2>2. conversation' \in Seq(Message)
    BY <1>6, <1>9, <2>1
  <2>3. activity' \in Seq(Activity)
    BY <1>8, <1>9, <2>1
  <2> QED
    BY <1>2, <1>8, <2>2, <2>3 DEF ChatTypeOK
<1>11. TurnFollowsRun'
  BY <1>2, <1>4, <1>7, <1>8 DEF ChatInv, TurnFollowsRun, Ends, ClosedTurns
<1>12. Numbered'
  BY <1>2, <1>4, <1>8 DEF ChatInv, Numbered, Ends, ClosedTurns
<1>13. Reply(t)' = Reply(t) /\ Reply(t).turn = t /\ Event(closed, t).turn = t
  BY <1>2 DEF Reply, Event
<1>14. Said(t)' = IF success THEN Append(Said(t), Reply(t)) ELSE Said(t)
  <2>1. Said(t) = <<Question(t)>> /\ Question(t)' = Question(t)
    BY <1>1 DEF Said, Question
  <2>2. CASE success
    <3>1. turn'[t] = "completed"
      BY <1>7, <1>8, <2>2
    <3>2. Said(t)' = <<Question(t), Reply(t)>>
      BY <1>13, <2>1, <3>1 DEF Said
    <3>4. Question(t) \in Message
      BY ListsTyped DEF ChatInv
    <3>5. Append(Said(t), Reply(t)) = <<Question(t), Reply(t)>>
      BY <1>9, <2>1, <3>4, ListsTyped, AppendToOne DEF ChatInv
    <3> QED
      BY <2>2, <3>2, <3>5
  <2>3. CASE ~success
    BY <1>4, <1>7, <1>8, <2>1, <2>3 DEF Said, ClosedTurns
  <2> QED
    BY <2>2, <2>3
<1>15. Logged(t)' = Append(Logged(t), Event(closed, t))
  BY <1>1, <1>4, <1>8 DEF Logged, ClosedTurns
<1>16. \/ UNCHANGED conversation /\ Said(t)' = Said(t)
       \/ \E e \in Message : /\ e.turn = t /\ conversation' = Append(conversation, e)
                             /\ Said(t)' = Append(Said(t), e)
  BY <1>6, <1>9, <1>13, <1>14
<1>17. \E e \in Activity : /\ e.turn = t /\ activity' = Append(activity, e)
                           /\ Logged(t)' = Append(Logged(t), e)
  BY <1>8, <1>9, <1>13, <1>15
<1>18. PersistedOnce'
  BY <1>2, <1>8, <1>16, <1>17, PersistedKept
<1> QED
  BY <1>10, <1>11, <1>12, <1>18 DEF ChatInv

LEMMA CreateStep == ASSUME ChatInv, NEW t \in Turns, CreateChatTurn(t) PROVE ChatInv'
<1>1. turn[t] = "none" /\ run[t] \in Run /\ run[t].status = "none" /\ run[t].made = 0
  BY DEF CreateChatTurn, ChatInv, ChatTypeOK, Numbered
<1>2. /\ turn'[t] = "queued" /\ \A u \in Turns : u # t => turn'[u] = turn[u] /\ run'[u] = run[u]
      /\ run'[t].status = "queued" /\ run'[t].made = 0
      /\ turn' \in [Turns -> {"none", "queued"} \cup ClosedTurns] /\ run' \in [Turns -> Run]
      /\ UNCHANGED <<failure, worker>>
  BY <1>1 DEF CreateChatTurn, ChatInv, ChatTypeOK, Run
<1>3. conversation' = Append(conversation, Question(t)) /\ activity' = Append(activity, Event("queued", t))
  BY DEF CreateChatTurn, Say, Log, Question, Event
<1>4. Question(t) \in Message /\ Event("queued", t) \in Activity
      /\ Question(t).turn = t /\ Event("queued", t).turn = t
  BY ListsTyped DEF ChatInv, Event, Activity, Question
<1>5. ChatTypeOK'
  <2>1. conversation' \in Seq(Message) /\ activity' \in Seq(Activity)
    BY <1>3, <1>4 DEF ChatInv, ChatTypeOK
  <2> QED
    BY <1>2, <2>1 DEF ChatInv, ChatTypeOK
<1>6. TurnFollowsRun' /\ Numbered'
  BY <1>2, ChatAssumption DEF ChatInv, TurnFollowsRun, Numbered
<1>7. Said(t)' = Append(Said(t), Question(t)) /\ Logged(t)' = Append(Logged(t), Event("queued", t))
  BY <1>1, <1>2 DEF Said, Logged
<1>8. PersistedOnce'
  BY <1>2, <1>3, <1>4, <1>7, PersistedKept
<1> QED
  BY <1>5, <1>6, <1>8 DEF ChatInv

\* The Run is put back for another Attempt.
LEMMA RequeueStep ==
    ASSUME ChatInv, NEW t \in Turns, run[t].status = "active", run[t].attempt < MaxAttempts,
           Requeue(t), worker' \in [Workers -> {Free} \cup Holding]
    PROVE  ChatInv'
<1> DEFINE row == [run[t] EXCEPT !.status = "queued", !.attempt = 0, !.dispatched = FALSE]
<1>1. run[t] \in Run /\ run[t].made < MaxAttempts
  BY DEF ChatInv, ChatTypeOK, Numbered
<1>2. 0 \in 0..MaxAttempts
  BY ChatAssumption
<1>4. row \in Run /\ row.status = "queued" /\ row.made = run[t].made
  BY <1>1, <1>2 DEF Run
<1>3. run' = [run EXCEPT ![t] = row] /\ UNCHANGED records
  BY DEF Requeue
<1> HIDE DEF row
<1> QED
  BY <1>1, <1>3, <1>4, RunMoves

\* A Worker that has a lease holds the current Attempt of a Run that is active.
LEMMA HolderTyped ==
    ASSUME ChatInv, NEW w \in Workers, worker[w] # Free
    PROVE  worker[w] \in Holding /\ worker[w].turn \in Turns /\ worker[w].attempt \in 1..MaxAttempts
BY DEF ChatInv, ChatTypeOK, Holding

LEMMA WorkerStep == ASSUME ChatInv, NEW w \in Workers, Work(w) PROVE ChatInv'
<1>t. worker \in [Workers -> {Free} \cup Holding] /\ run \in [Turns -> Run]
  BY DEF ChatInv, ChatTypeOK
<1>1. ASSUME NEW t \in Turns, ClaimNextRun(w, t) PROVE ChatInv'
  <2> DEFINE row == [run[t] EXCEPT !.status = "active", !.attempt = run[t].made + 1,
                                   !.made = run[t].made + 1]
  <2>1. run[t] \in Run /\ run[t].status = "queued" /\ run[t].made < MaxAttempts
        /\ run[t].made \in 0..MaxAttempts
    BY <1>1 DEF ClaimNextRun, ChatInv, ChatTypeOK, Numbered, Run
  <2>2. run[t].made + 1 \in 1..MaxAttempts /\ run[t].made + 1 \in 0..MaxAttempts
    BY <2>1, ChatAssumption
  <2>3. row \in Run /\ row.status = "active" /\ row.attempt = row.made
    BY <2>1, <2>2 DEF Run
  <2>4. [at |-> "claimed", turn |-> t, attempt |-> run[t].made + 1] \in Holding
    BY <2>2 DEF Holding
  <2>5. run' = [run EXCEPT ![t] = row] /\ UNCHANGED records
        /\ worker' = [worker EXCEPT ![w] = [at |-> "claimed", turn |-> t, attempt |-> run[t].made + 1]]
    BY <1>1 DEF ClaimNextRun, SetWorker
  <2> HIDE DEF row
  <2>6. worker' \in [Workers -> {Free} \cup Holding]
    BY <1>t, <2>4, <2>5
  <2> QED
    BY <2>1, <2>3, <2>5, <2>6, RunMoves
<1>2. CASE Dispatch(w)
  <2> DEFINE t == worker[w].turn
             row == [run[t] EXCEPT !.dispatched = TRUE]
  <2>1. worker[w] # Free /\ run[t].status = "active"
    BY <1>2 DEF Dispatch, Leased
  <2>2. worker[w] \in Holding /\ t \in Turns
    BY <2>1, HolderTyped
  <2>3. row \in Run /\ row.status = "active" /\ row.attempt = row.made
    BY <1>t, <2>1, <2>2 DEF ChatInv, Numbered, Run
  <2>4. run' = [run EXCEPT ![t] = row] /\ UNCHANGED records
    BY <1>2 DEF Dispatch
  <2>5. worker' \in [Workers -> {Free} \cup Holding]
    <3>1. [worker[w] EXCEPT !.at = "posted"] \in Holding
      BY <2>2 DEF Holding
    <3> QED
      BY <1>2, <1>t, <3>1 DEF Dispatch
  <2> HIDE DEF row, t
  <2> QED
    BY <2>1, <2>2, <2>3, <2>4, <2>5, RunMoves
<1>3. CASE Finish(w)
  <2> DEFINE t == worker[w].turn
  <2>1. /\ worker[w] # Free /\ run[t].status = "active" /\ run[t].attempt = worker[w].attempt
        /\ worker[w].at \in Answers
    BY <1>3 DEF Finish, Leased
  <2>2. t \in Turns
    BY <2>1, HolderTyped
  <2>3. worker' \in [Workers -> {Free} \cup Holding]
    BY <1>t, <1>3 DEF Finish
  <2>4. \/ EndRun(t, "evidence_accepted", worker[w].at = "reply", "none")
        \/ Requeue(t) /\ run[t].attempt < MaxAttempts
        \/ \E retry \in {"safe", "unsafe"} : EndRun(t, "failed", FALSE, retry)
        \/ EndRun(t, "cancelled", FALSE, "unsafe")
        \/ EndRun(t, "unknown", FALSE, "unsafe")
    <3> DEFINE Outcome ==
            CASE worker[w].at \in {"reply", "empty"} ->
                   EndRun(t, "evidence_accepted", worker[w].at = "reply", "none")
              [] worker[w].at = "safe" ->
                   IF worker[w].attempt < MaxAttempts THEN Requeue(t)
                   ELSE EndRun(t, "failed", FALSE, "safe")
              [] worker[w].at = "unsafe" -> EndRun(t, "failed", FALSE, "unsafe")
              [] worker[w].at = "stopped" -> EndRun(t, "cancelled", FALSE, "unsafe")
              [] worker[w].at = "lost" -> EndRun(t, "unknown", FALSE, "unsafe")
    <3>1. Outcome
      BY <1>3 DEF Finish
    <3>2. CASE worker[w].at \in {"reply", "empty"}
      BY <3>1, <3>2
    <3>3. CASE worker[w].at = "safe"
      BY <2>1, <3>1, <3>3
    <3>4. CASE worker[w].at = "unsafe"
      BY <3>1, <3>4
    <3>5. CASE worker[w].at = "stopped"
      BY <3>1, <3>5
    <3>6. CASE worker[w].at = "lost"
      BY <3>1, <3>6
    <3> QED
      BY <2>1, <3>2, <3>3, <3>4, <3>5, <3>6 DEF Answers
  <2> HIDE DEF t
  <2>5. CASE Requeue(t) /\ run[t].attempt < MaxAttempts
    BY <2>1, <2>2, <2>3, <2>5, RequeueStep
  <2>6. ASSUME NEW to \in Ends, NEW reply \in BOOLEAN, NEW retry \in {"none", "safe", "unsafe"},
               EndRun(t, to, reply, retry)
        PROVE  ChatInv'
    BY <2>1, <2>2, <2>3, <2>6, RunEnds
  <2>7. (worker[w].at = "reply") \in BOOLEAN
    OBVIOUS
  <2> QED
    BY <2>4, <2>5, <2>6, <2>7 DEF Ends
<1>4. CASE LeaseLost(w)
  BY <1>t, <1>4, WorkerMoves DEF LeaseLost, SetWorker
<1>5. ASSUME NEW answer \in Answers, HermesAnswers(w, answer) PROVE ChatInv'
  <2>1. worker[w].at = "posted" /\ UNCHANGED <<records, run>>
        /\ worker' = [worker EXCEPT ![w].at = answer]
    BY <1>5 DEF HermesAnswers
  <2>2. worker[w] \in Holding
    BY <2>1, HolderTyped DEF Free
  <2>3. [worker[w] EXCEPT !.at = answer] \in Holding
    BY <2>2 DEF Holding
  <2>4. worker' \in [Workers -> {Free} \cup Holding]
    BY <1>t, <2>1, <2>3
  <2> QED
    BY <2>1, <2>4, WorkerMoves
<1> QED
  BY <1>1, <1>2, <1>3, <1>4, <1>5 DEF Work

LEMMA RecoverStep == ASSUME ChatInv, NEW t \in Turns, RecoverExpired(t) PROVE ChatInv'
<1>1. run[t].status = "active" /\ worker' \in [Workers -> {Free} \cup Holding]
  BY DEF RecoverExpired, ChatInv, ChatTypeOK
<1>2. CASE EndRun(t, "unknown", FALSE, "unsafe") \/ EndRun(t, "failed", FALSE, "unsafe")
  BY <1>1, <1>2, RunEnds DEF Ends
<1>3. CASE Requeue(t) /\ run[t].attempt < MaxAttempts
  BY <1>1, <1>3, RequeueStep
<1> QED
  BY <1>2, <1>3 DEF RecoverExpired

LEMMA CancelStep == ASSUME ChatInv, NEW t \in Turns, CancelRun(t) PROVE ChatInv'
<1>1. worker' \in [Workers -> {Free} \cup Holding] /\ run[t] \in Run
  BY DEF CancelRun, ChatInv, ChatTypeOK
<1>2. CASE run[t].status = "queued" /\ EndRun(t, "cancelled", FALSE, "unsafe")
  BY <1>1, <1>2, RunEnds DEF Ends
<1>3. CASE run[t].status = "active" /\ run' = [run EXCEPT ![t].asked = TRUE] /\ UNCHANGED records
  <2> DEFINE row == [run[t] EXCEPT !.asked = TRUE]
  <2>1. row \in Run /\ row.status = "active" /\ row.attempt = row.made
    BY <1>1, <1>3 DEF ChatInv, Numbered, Run
  <2>2. run' = [run EXCEPT ![t] = row]
    BY <1>3
  <2> HIDE DEF row
  <2> QED
    BY <1>1, <1>3, <2>1, <2>2, RunMoves
<1> QED
  BY <1>2, <1>3 DEF CancelRun

LEMMA ChatStep == ChatInv /\ [ChatNext]_chatVars => ChatInv'
<1> SUFFICES ASSUME ChatInv, [ChatNext]_chatVars PROVE ChatInv'
  OBVIOUS
<1>1. CASE UNCHANGED chatVars
  BY <1>1, WorkerMoves DEF chatVars, ChatInv, ChatTypeOK
<1>2. ASSUME NEW w \in Workers, WorkerCrash(w) PROVE ChatInv'
  BY <1>2, WorkerMoves DEF WorkerCrash, SetWorker, ChatInv, ChatTypeOK
<1> QED
  BY <1>1, <1>2, CreateStep, RecoverStep, CancelStep, WorkerStep DEF ChatNext

-----------------------------------------------------------------------------
(* Theorems.                                                               *)

\* The revisions are numbered without a gap and what is published exists, so
\* that published_profile_bundle never fails.
THEOREM ProfilesTyped == Spec => []TypeOK
<1>1. ProfileInv => TypeOK
  BY DEF ProfileInv
<1>2. ProfileInv /\ [Next]_vars => ProfileInv'
  BY ProfileStep
<1> QED
  BY <1>1, <1>2, ProfileInit, PTL DEF Spec

\* Every Run works with a revision that was published, under its number and with
\* its text (workspace_ops.py:159).
THEOREM SnapshotsPublished == Spec => []SnapshotPublished
<1>1. ProfileInv => SnapshotPublished
  BY DEF ProfileInv
<1>2. ProfileInv /\ [Next]_vars => ProfileInv'
  BY ProfileStep
<1> QED
  BY <1>1, <1>2, ProfileInit, PTL DEF Spec

\* No interleaving of administrators rewrites or loses a revision (main.py:1001-1128).
THEOREM RevisionsStay == Spec => RevisionsKept
<1>1. ProfileInv /\ [Next]_vars => ProfileInv'
  BY ProfileStep
<1>2. ProfileInv /\ [Next]_vars =>
          [\A n \in Numbers : n \in DOMAIN revisions' /\ revisions'[n] = revisions[n]]_vars
  BY ProfileStep DEF Numbers
<1> QED
  BY <1>1, <1>2, ProfileInit, PTL DEF Spec, RevisionsKept

\* Turns, Runs, Workers, messages and activities keep their types: no Run gets
\* more Attempts than the limit (run_state.py:237-267).
THEOREM ChatTurnTyped == ChatSpec => []ChatTypeOK
<1>1. ChatInv => ChatTypeOK
  BY DEF ChatInv
<1> QED
  BY <1>1, ChatInitial, ChatStep, PTL DEF ChatSpec

\* People see of a turn what became of its Run, whatever Workers lose, repeat or
\* take over (marketing_case.py:1621).
THEOREM TurnsFollow == ChatSpec => []TurnFollowsRun
<1>1. ChatInv => TurnFollowsRun
  BY DEF ChatInv
<1> QED
  BY <1>1, ChatInitial, ChatStep, PTL DEF ChatSpec

\* A turn is closed once, and its question is followed by its one reply or by
\* none, for any number of turns that are under way at once
\* (marketing_case.py:1622).
THEOREM RepliesPersistOnce == ChatSpec => []PersistedOnce
<1>1. ChatInv => PersistedOnce
  BY DEF ChatInv
<1> QED
  BY <1>1, ChatInitial, ChatStep, PTL DEF ChatSpec
=============================================================================
