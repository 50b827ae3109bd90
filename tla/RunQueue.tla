------------------------------ MODULE RunQueue ------------------------------
(***************************************************************************)
(* The runs of the API server: clients create, cancel and delete them,     *)
(* workers take them from the store and execute them, one per thread.      *)
(*                                                                         *)
(* Runs.next() goes through a list of pending runs that it has read once,  *)
(* and is suspended while the worker executes a run of the list.  Between  *)
(* two awaits of a handler or a worker nothing else happens; at an await   *)
(* everything else may.  Runs are numbered in the order of their creation, *)
(* which is the order of created_at.                                       *)
(***************************************************************************)
EXTENDS Integers, FiniteSets

CONSTANTS
    Workers,      \* the loops that startServer starts
    Threads,
    Strategies,   \* multitask strategies that clients use
    Actions,      \* and their actions when they cancel: "interrupt", "rollback"
    MayDelete,    \* do clients delete runs
    MayRestart,   \* may the server be stopped and started again
    MaxRequests,  \* bound on cancellations, deletions and restarts
    MaxRuns       \* bound on runs

ASSUME QueueAssumption ==
    /\ IsFiniteSet(Workers) /\ IsFiniteSet(Threads) /\ Threads # {}
    /\ Strategies \subseteq {"reject", "enqueue", "interrupt", "rollback"}
    /\ Actions \subseteq {"interrupt", "rollback"}
    /\ MayDelete \in BOOLEAN /\ MayRestart \in BOOLEAN
    /\ MaxRequests \in Nat /\ MaxRuns \in Nat

VARIABLES
    created,      \* runs created so far
    status,       \* STORE.runs[r].status; "none" before and "deleted" after it is in the store
    thread,       \* its thread
    threadStatus, \* STORE.threads[t].status
    worker,       \* what a worker does
    cancels,      \* cancellations that createValidRun is about to make
    deleting,     \* runs that cancel() is about to delete
    requests,     \* cancellations, deletions and restarts so far
    restarted     \* has the server been restarted

vars == <<created, status, thread, threadStatus, worker, cancels, deleting, requests, restarted>>

Runs == 1..MaxRuns
Ended == {"success", "error", "interrupted"}
InFlight == {"pending", "running"}

-----------------------------------------------------------------------------
\* A worker sleeps; executes a run; is about to store the run's status, then the
\* thread's; goes on with its list.  A worker that has thrown is dead: "throw" is
\* the finally block before that.
Holding == {"run", "status", "thread", "throw"}

Sleeping == [at |-> "sleep", run |-> 0, signal |-> "none", outcome |-> "success", list |-> {}]

Dead == [Sleeping EXCEPT !.at = "dead"]

Init ==
    /\ created = 0
    /\ status = [r \in Runs |-> "none"]
    /\ thread = [r \in Runs |-> CHOOSE t \in Threads : TRUE]
    /\ threadStatus = [t \in Threads |-> "idle"]
    /\ worker = [w \in Workers |-> Sleeping]
    /\ cancels = {} /\ deleting = {} /\ requests = 0 /\ restarted = FALSE

\* StreamManager.isLocked.  The generator unlocks a run before it looks at the next one.
Locked(r) == \E w \in Workers : worker[w].run = r /\ worker[w].at \in Holding

-----------------------------------------------------------------------------
(* Clients.                                                                  *)

InFlightOn(t) == {r \in Runs : status[r] \in InFlight /\ thread[r] = t}

\* Runs.put by createValidRun.  A rejected run leaves the thread marked as busy, too.
Put(t, strategy) ==
    LET r == created + 1 IN
    /\ created < MaxRuns
    /\ threadStatus' = [threadStatus EXCEPT ![t] = "busy"]
    /\ IF strategy = "reject" /\ InFlightOn(t) # {}
       THEN UNCHANGED <<created, status, thread, cancels>>
       ELSE /\ created' = r /\ thread' = [thread EXCEPT ![r] = t]
            /\ status' = [status EXCEPT ![r] = "pending"]
            /\ cancels' = IF strategy \in {"interrupt", "rollback"} /\ InFlightOn(t) # {}
                          THEN cancels \cup {[runs |-> InFlightOn(t), action |-> strategy]}
                          ELSE cancels
    /\ UNCHANGED <<worker, deleting, requests, restarted>>

\* Mutant of Stops: a run that has ended is marked as interrupted as well.
StopsEnded(r, action) == status[r] # "running" /\ action = "interrupt"

\* A pending run is not executed any more.
Stops(r, action) == status[r] = "pending" /\ (Locked(r) \/ action = "interrupt")

\* Runs.cancel, up to the deletions, which it awaits.
CancelAll(runs, action) ==
    /\ worker' = [w \in Workers |->
                     IF worker[w].run \in runs /\ Locked(worker[w].run) /\ worker[w].signal = "none"
                     THEN [worker[w] EXCEPT !.signal = action] ELSE worker[w]]
    /\ status' = [r \in Runs |-> IF r \in runs /\ Stops(r, action) THEN "interrupted" ELSE status[r]]
    /\ threadStatus' = [t \in Threads |-> IF \E r \in runs : thread[r] = t /\ Stops(r, action)
                                          THEN "idle" ELSE threadStatus[t]]
    /\ deleting' = deleting \cup {r \in runs : status[r] = "pending" /\ ~Stops(r, action)}
    /\ UNCHANGED <<created, thread, restarted>>

Request == requests < MaxRequests /\ requests' = requests + 1

\* createValidRun cancels what was in flight when its run was put.
CancelReplaced(c) ==
    /\ c \in cancels
    /\ CancelAll(c.runs, c.action)
    /\ cancels' = cancels \ {c}
    /\ UNCHANGED requests

\* The cancel endpoint, or a client that has joined with cancel_on_disconnect and leaves.
CancelRun(r, action) ==
    /\ Request /\ status[r] \notin {"none", "deleted"} /\ r \notin deleting
    /\ CancelAll({r}, action)
    /\ UNCHANGED cancels

\* Runs.delete for a pending run that was cancelled with "rollback".
EagerDelete(r) ==
    /\ r \in deleting
    /\ deleting' = deleting \ {r}
    /\ status' = [status EXCEPT ![r] = "deleted"]
    /\ UNCHANGED <<created, thread, threadStatus, worker, cancels, requests, restarted>>

\* The delete endpoint.
DeleteRun(r) ==
    /\ MayDelete /\ Request /\ status[r] \notin {"none", "deleted"}
    /\ status' = [status EXCEPT ![r] = "deleted"]
    /\ UNCHANGED <<created, thread, threadStatus, worker, cancels, deleting, restarted>>

-----------------------------------------------------------------------------
(* Workers.                                                                  *)

\* Mutant of Free: two runs of a thread may be executed at once.
FreeIfUnlocked(r) == ~Locked(r)

\* No run of the thread is being executed.
Free(r) == ~Locked(r) /\ \A q \in Runs : thread[q] = thread[r] => status[q] # "running"

\* Runs.next goes on with the list: it passes over runs that cannot be executed now.
TakeFrom(w, list) ==
    LET takeable == {r \in list : status[r] = "pending" /\ Free(r)} IN
    IF takeable = {}
    THEN /\ worker' = [worker EXCEPT ![w] = Sleeping]
         /\ UNCHANGED status
    ELSE \E r \in takeable :
         /\ \A q \in takeable : r <= q
         /\ worker' = [worker EXCEPT ![w] = [Sleeping EXCEPT !.at = "run", !.run = r,
                                                             !.list = {q \in list : q > r}]]
         /\ status' = [status EXCEPT ![r] = "running"]

\* The worker wakes up and reads the list of pending runs.
Poll(w) ==
    /\ worker[w].at = "sleep"
    /\ TakeFrom(w, {r \in Runs : status[r] = "pending"})
    /\ UNCHANGED <<created, thread, threadStatus, cancels, deleting, requests, restarted>>

\* It has dealt with a run and goes on with the list it has.
Advance(w) ==
    /\ worker[w].at = "next"
    /\ TakeFrom(w, worker[w].list)
    /\ UNCHANGED <<created, thread, threadStatus, cancels, deleting, requests, restarted>>

\* isInterrupted tells what a run that throws has come to.
Failure(w) == IF worker[w].signal = "interrupt" THEN "interrupted" ELSE "error"

\* The run's stream ends or throws, whether or not it was cancelled.
StreamOver(w) ==
    /\ worker[w].at = "run"
    /\ \E outcome \in {"success", Failure(w)} :
           worker' = [worker EXCEPT ![w].at = "status", ![w].outcome = outcome]
    /\ UNCHANGED <<created, status, thread, threadStatus, cancels, deleting, requests, restarted>>

\* Mutant of StoresStatus: the status of an interrupted run is left to cancel().
StoresUnlessInterrupted(w) ==
    status' = IF worker[w].outcome = "interrupted" THEN status
              ELSE [status EXCEPT ![worker[w].run] = worker[w].outcome]

StoresStatus(w) == status' = [status EXCEPT ![worker[w].run] = worker[w].outcome]

\* Runs.setStatus throws if the run is not in the store, and again in the catch block.
SetRunStatus(w) ==
    /\ worker[w].at = "status"
    /\ IF status[worker[w].run] = "deleted"
       THEN /\ worker' = [worker EXCEPT ![w].at = "throw", ![w].outcome = Failure(w)]
            /\ UNCHANGED status
       ELSE /\ worker' = [worker EXCEPT ![w].at = "thread"]
            /\ StoresStatus(w)
    /\ UNCHANGED <<created, thread, threadStatus, cancels, deleting, requests, restarted>>

\* Threads.setStatus.  Only a run that has succeeded may have left a checkpoint with next nodes.
ThreadStatusAfter(t, outcome) ==
    LET otherwise == IF \E r \in Runs : thread[r] = t /\ status[r] = "pending" THEN "busy" ELSE "idle"
    IN CASE outcome = "error" -> {"error"}
         [] outcome = "success" -> {"interrupted", otherwise}
         [] OTHER -> {otherwise}

SetThreadStatus(w) ==
    /\ worker[w].at \in {"thread", "throw"}
    /\ LET t == thread[worker[w].run] IN
       \E s \in ThreadStatusAfter(t, worker[w].outcome) :
           threadStatus' = [threadStatus EXCEPT ![t] = s]
    /\ worker' = [worker EXCEPT ![w] = IF worker[w].at = "throw" THEN Dead
                                       ELSE [Sleeping EXCEPT !.at = "next", !.list = worker[w].list]]
    /\ UNCHANGED <<created, status, thread, cancels, deleting, requests, restarted>>

-----------------------------------------------------------------------------
\* The server is stopped and started again: cleanup() has flushed the store.
Restart ==
    /\ MayRestart /\ Request
    /\ restarted' = TRUE
    /\ worker' = [w \in Workers |-> Sleeping]
    /\ cancels' = {} /\ deleting' = {}
    /\ UNCHANGED <<created, status, thread, threadStatus>>

Next ==
    \/ \E t \in Threads, s \in Strategies : Put(t, s)
    \/ \E c \in cancels : CancelReplaced(c)
    \/ \E r \in Runs : (\E a \in Actions : CancelRun(r, a)) \/ EagerDelete(r) \/ DeleteRun(r)
    \/ \E w \in Workers : \/ Poll(w) \/ Advance(w) \/ StreamOver(w)
                          \/ SetRunStatus(w) \/ SetThreadStatus(w)
    \/ Restart

\* Timers of sleeping workers fire, and promises of the store settle.
QueueFairness ==
    /\ \A w \in Workers : /\ WF_vars(Poll(w)) /\ WF_vars(Advance(w))
                          /\ WF_vars(SetRunStatus(w)) /\ WF_vars(SetThreadStatus(w))
    /\ WF_vars(\E c \in cancels : CancelReplaced(c))
    /\ WF_vars(\E r \in Runs : EagerDelete(r))

Spec == Init /\ [][Next]_vars /\ QueueFairness

-----------------------------------------------------------------------------
\* Runs, threads and workers are in one of their states.
TypeOK ==
    /\ created \in 0..MaxRuns
    /\ status \in [Runs -> {"none", "deleted"} \cup InFlight \cup Ended]
    /\ thread \in [Runs -> Threads]
    /\ threadStatus \in [Threads -> {"idle", "busy", "interrupted", "error"}]
    /\ worker \in [Workers -> [at : Holding \cup {"sleep", "next", "dead"}, run : 0..MaxRuns,
                               signal : {"none", "interrupt", "rollback"},
                               outcome : Ended, list : SUBSET Runs]]
    /\ cancels \subseteq [runs : SUBSET Runs, action : {"interrupt", "rollback"}]
    /\ deleting \subseteq Runs /\ requests \in 0..MaxRequests /\ restarted \in BOOLEAN

\* Two workers never execute runs of the same thread at the same time, although
\* they take them from lists that others work on as well (the checks in Runs.next);
\* a run that was deleted while it was executed does not count.
OneRunPerThread ==
    \A v, w \in Workers :
        /\ v # w /\ worker[v].at = "run" /\ worker[w].at = "run"
        /\ thread[worker[v].run] = thread[worker[w].run]
        => status[worker[v].run] = "deleted" \/ status[worker[w].run] = "deleted"

Lifecycle == INSTANCE RunLifecycle

\* Whatever stale list a run is in, whoever cancels it late and whoever stores an
\* outcome for it, a run lives as RunLifecycle tells: workers, locks and signals
\* add up to one execution, one outcome, and no change after it.
RunsLiveOnce == Lifecycle!Spec

\* No worker has thrown, and the server was not restarted.
Unharmed == ~restarted /\ \A w \in Workers : worker[w].at # "dead"

GraphsEnd == \A w \in Workers : WF_vars(StreamOver(w))

\* If graphs end, every run that was accepted is executed to its end, or was
\* cancelled or deleted; nothing is promised once a worker has died or the
\* server was restarted.
EveryRunEnds ==
    GraphsEnd => \A r \in Runs : status[r] \in InFlight ~> (status[r] \notin InFlight \/ ~Unharmed)
=============================================================================
