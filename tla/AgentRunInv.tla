---------------------------- MODULE AgentRunInv ----------------------------
(***************************************************************************)
(* The inductive invariant behind AgentRun's safety properties.  Whatever   *)
(* the code itself guards holds of every Attempt; what rests on the lease   *)
(* alone holds of those that no late transaction has touched.               *)
(***************************************************************************)
EXTENDS AgentRun

\* The Run's columns and its Attempt rows agree.
RunShape(r) ==
    /\ status[r] = "none" => attempts[r] = <<>>
    /\ status[r] = "queued" => current[r] = 0 /\ Len(attempts[r]) < MaxAttempts
    /\ Active(r) => current[r] = Len(attempts[r]) /\ current[r] > 0
    /\ status[r] = "accepted" => attempts[r][current[r]].status = "claimed"
    /\ status[r] = "running" =>
           attempts[r][current[r]].status \in {"running", "external_starting"}
    /\ current[r] \in {0, Len(attempts[r])}
    /\ Len(attempts[r]) <= MaxAttempts

\* An Attempt after which the Run was, or may be, queued again: Hermes never
\* had it, or has said that it may be repeated; or it was given up as lost
\* while a transaction was on its way.
Released(r, n) ==
    \/ attempts[r][n].status = "lost" /\ (job[r][n] = "none" \/ attempts[r][n].late)
    \/ attempts[r][n].status = "failed" /\ job[r][n] = "failed_safe"

\* An Attempt that a late transaction has left open after its Run had ended.
LeftOpen(r, n) ==
    attempts[r][n].late /\ current[r] = n /\ status[r] \in {"unknown", "failed"}

AttemptShape(r, n) ==
    /\ Open(r, n) => (Active(r) /\ current[r] = n) \/ LeftOpen(r, n)
    /\ n < Len(attempts[r]) \/ status[r] = "queued" => Released(r, n)
    /\ attempts[r][n].status = "unknown" => status[r] = "unknown"
    /\ attempts[r][n].lease = "inflight" => attempts[r][n].late
    /\ ~attempts[r][n].late =>
           /\ job[r][n] # "none" =>
                  \/ attempts[r][n].hermes
                  \/ attempts[r][n].status \in {"external_starting", "unknown"}
           /\ Truthful(r, n)

\* What a Worker's place in the code says of the Attempt it works on.
WorkerShape(w) ==
    LET r == worker[w].run  n == worker[w].no IN
    Busy(w) =>
        /\ worker[w].step \in {"claimed", "simulating", "started", "intent"} =>
               job[r][n] = "none"
        /\ worker[w].step # "claimed" => attempts[r][n].status # "claimed"
        /\ worker[w].step \in {"polling", "stopping"} => attempts[r][n].hermes
        /\ worker[w].step \in {"claimed", "started", "intent", "posted"} /\ current[r] = n =>
               Active(r) \/ status[r] \in {"unknown", "failed"}
        /\ ~attempts[r][n].late =>
               /\ worker[w].step = "intent" =>
                      attempts[r][n].status \in {"external_starting", "unknown"}
               /\ worker[w].step \in {"claimed", "started", "intent", "posted"} /\ ~Open(r, n) =>
                      attempts[r][n].lease = "expired"

OneOwner ==
    \A v, w \in Workers :
        Busy(v) /\ Busy(w) /\ v # w =>
            worker[v].run # worker[w].run \/ worker[v].no # worker[w].no

\* A row read by a recovery scan is still what the scan has read, for as long
\* as the scan can act on it.
SnapshotTrue(s) ==
    Active(s.run) /\ current[s.run] = s.no /\ ~attempts[s.run][s.no].late =>
        /\ attempts[s.run][s.no].lease = "expired"
        /\ s.external = External(s.run, s.no)

FencingInv ==
    /\ TypeOK
    /\ \A r \in Runs : RunShape(r)
    /\ \A r \in Runs : \A n \in DOMAIN attempts[r] : AttemptShape(r, n)
    /\ \A w \in Workers : WorkerShape(w)
    /\ OneOwner
    /\ \A s \in scanned : SnapshotTrue(s)
=============================================================================
