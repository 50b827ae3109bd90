---------------------------- MODULE RunLifecycle ----------------------------
(***************************************************************************)
(* What the API server promises of a run, without workers, lists, locks    *)
(* and signals: it is created once, started only while its thread has no   *)
(* running run, ends once with an outcome, or is stopped before it begins. *)
(* Nothing but a deletion ever changes a run that has ended.               *)
(***************************************************************************)
EXTENDS Naturals

CONSTANTS Threads, MaxRuns

VARIABLES
    status,  \* "none", "pending", "running", an outcome, or "deleted"
    thread   \* the thread of each run

Runs == 1..MaxRuns
Outcomes == {"success", "error", "interrupted"}

Init ==
    /\ status = [r \in Runs |-> "none"]
    /\ thread \in [Runs -> Threads]

Create(r, t) ==
    /\ status[r] = "none"
    /\ status' = [status EXCEPT ![r] = "pending"]
    /\ thread' = [thread EXCEPT ![r] = t]

Start(r) ==
    /\ status[r] = "pending"
    /\ \A q \in Runs : thread[q] = thread[r] => status[q] # "running"
    /\ status' = [status EXCEPT ![r] = "running"]
    /\ UNCHANGED thread

End(r) ==
    /\ status[r] = "running"
    /\ \E outcome \in Outcomes : status' = [status EXCEPT ![r] = outcome]
    /\ UNCHANGED thread

\* A request may stop several runs that wait.
Stop(runs) ==
    /\ \A r \in runs : status[r] = "pending"
    /\ status' = [r \in Runs |-> IF r \in runs THEN "interrupted" ELSE status[r]]
    /\ UNCHANGED thread

Delete(r) ==
    /\ status[r] # "none"
    /\ status' = [status EXCEPT ![r] = "deleted"]
    /\ UNCHANGED thread

Next ==
    \/ \E r \in Runs : (\E t \in Threads : Create(r, t)) \/ Start(r) \/ End(r) \/ Delete(r)
    \/ \E runs \in SUBSET Runs : Stop(runs)

Spec == Init /\ [][Next]_<<status, thread>>
=============================================================================
