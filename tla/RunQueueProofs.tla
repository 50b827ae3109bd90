--------------------------- MODULE RunQueueProofs ---------------------------
(* For any number of workers, threads, runs, cancellations, deletions and     *)
(* restarts: no two workers execute runs of one thread, and the server        *)
(* implements RunLifecycle.  Both rest on RunInv: what a worker executes is   *)
(* marked as running, or was deleted, and a thread has one running run.       *)
EXTENDS RunQueue, TLAPS

\* A worker between taking a run and storing its status.
Executing(w) == worker[w].at \in {"run", "status"}

\* Runs that are yet to be created are not in the store, and nobody deletes them.
NotCreated ==
    \A r \in Runs : /\ r > created => status[r] = "none"
                    /\ status[r] = "none" => r \notin deleting

\* An executed run is marked as running unless somebody has deleted it.
ExecutedIsRunning == \A w \in Workers : Executing(w) => status[worker[w].run] \in {"running", "deleted"}

\* A run is executed by one worker.
OneWorkerPerRun ==
    \A v, w \in Workers : Executing(v) /\ Executing(w) /\ worker[v].run = worker[w].run => v = w

\* A thread has one run that is marked as running.
OneRunning ==
    \A q, r \in Runs : status[q] = "running" /\ status[r] = "running" /\ thread[q] = thread[r] => q = r

\* A worker that holds a run has one.
HeldIsRun == \A w \in Workers : worker[w].at \in Holding => worker[w].run \in Runs

RunInv == TypeOK /\ NotCreated /\ ExecutedIsRunning /\ OneWorkerPerRun /\ OneRunning /\ HeldIsRun

\* All the steps of the queue but the liveness conditions.
LEMMA SpecIsStep == Spec => Init /\ [][Next]_vars
<1> QED BY PTL DEF Spec

\* The server starts with nothing in the store.
LEMMA RunInit == Init => RunInv
<1> SUFFICES ASSUME Init PROVE RunInv
  OBVIOUS
<1>1. TypeOK
  <2>1. thread \in [Runs -> Threads]
    BY QueueAssumption DEF Init
  <2>2. worker \in [Workers -> [at : Holding \cup {"sleep", "next", "dead"}, run : 0..MaxRuns,
                               signal : {"none", "interrupt", "rollback"},
                               outcome : Ended, list : SUBSET Runs]]
    BY QueueAssumption DEF Init, Sleeping, Ended
  <2>3. /\ status \in [Runs -> {"none", "deleted"} \cup InFlight \cup Ended]
        /\ threadStatus \in [Threads -> {"idle", "busy", "interrupted", "error"}]
    BY DEF Init
  <2>4. created \in 0..MaxRuns /\ requests \in 0..MaxRequests
    BY QueueAssumption DEF Init
  <2>5. cancels = {} /\ deleting = {} /\ restarted \in BOOLEAN
    BY DEF Init
  <2> QED BY <2>1, <2>2, <2>3, <2>4, <2>5 DEF TypeOK
<1>2. \A w \in Workers : worker[w].at = "sleep"
  BY DEF Init, Sleeping
<1>3. NotCreated /\ OneRunning
  BY DEF Init, NotCreated, OneRunning
<1> QED BY <1>1, <1>2, <1>3 DEF RunInv, ExecutedIsRunning, OneWorkerPerRun, HeldIsRun, Executing, Holding

\* A step that starts no run and marks none as running keeps RunInv, provided
\* that what it changes in the store was not being executed.
LEMMA QuietStep ==
    ASSUME RunInv, TypeOK', NotCreated', HeldIsRun',
           \A w \in Workers : Executing(w)' => Executing(w) /\ worker'[w].run = worker[w].run,
           \A r \in Runs : status'[r] = "running" => status[r] = "running" /\ thread'[r] = thread[r],
           \A r \in Runs : status[r] \in {"running", "deleted"} =>
               \/ status'[r] \in {"running", "deleted"}
               \/ \A w \in Workers : Executing(w)' => worker'[w].run # r
    PROVE RunInv'
<1>1. ExecutedIsRunning'
  <2> SUFFICES ASSUME NEW w \in Workers, Executing(w)'
               PROVE status'[worker'[w].run] \in {"running", "deleted"}
    BY DEF ExecutedIsRunning, Executing
  <2>1. worker[w].at \in Holding /\ worker[w].run \in Runs
    BY DEF Executing, Holding, RunInv, HeldIsRun
  <2>2. status[worker[w].run] \in {"running", "deleted"}
    BY DEF RunInv, ExecutedIsRunning
  <2> QED BY <2>1, <2>2
<1>2. OneWorkerPerRun'
  <2> SUFFICES ASSUME NEW v \in Workers, NEW w \in Workers, Executing(v)', Executing(w)',
                      worker'[v].run = worker'[w].run
               PROVE v = w
    BY DEF OneWorkerPerRun, Executing
  <2> QED BY DEF RunInv, OneWorkerPerRun
<1>3. OneRunning'
  BY DEF RunInv, OneRunning
<1> QED BY <1>1, <1>2, <1>3 DEF RunInv

\* What a client does: create, cancel or delete runs.
LEMMA CancelKeeps ==
    ASSUME RunInv, NEW runs \in SUBSET Runs, NEW action \in {"interrupt", "rollback"},
           CancelAll(runs, action), cancels' \subseteq cancels, requests' \in 0..MaxRequests
    PROVE RunInv'
<1>1. TypeOK'
  <2>1. worker' \in [Workers -> [at : Holding \cup {"sleep", "next", "dead"}, run : 0..MaxRuns,
                                signal : {"none", "interrupt", "rollback"},
                                outcome : Ended, list : SUBSET Runs]]
    <3> SUFFICES ASSUME NEW w \in Workers
                 PROVE worker'[w] \in [at : Holding \cup {"sleep", "next", "dead"}, run : 0..MaxRuns,
                                       signal : {"none", "interrupt", "rollback"},
                                       outcome : Ended, list : SUBSET Runs]
      BY DEF CancelAll
    <3>1. worker'[w] \in {worker[w], [worker[w] EXCEPT !.signal = action]}
      BY DEF CancelAll
    <3> QED BY <3>1 DEF RunInv, TypeOK
  <2>2. deleting' \subseteq Runs
    BY DEF RunInv, TypeOK, CancelAll
  <2>3. status' \in [Runs -> {"none", "deleted"} \cup InFlight \cup Ended]
    BY DEF RunInv, TypeOK, CancelAll, Ended
  <2>4. threadStatus' \in [Threads -> {"idle", "busy", "interrupted", "error"}]
    BY DEF RunInv, TypeOK, CancelAll
  <2> QED BY <2>1, <2>2, <2>3, <2>4 DEF RunInv, TypeOK, CancelAll
<1>2. \A r \in Runs : status'[r] # status[r] => status[r] = "pending" /\ status'[r] = "interrupted"
  BY DEF RunInv, TypeOK, CancelAll, Stops
<1>3. \A w \in Workers : worker'[w].at = worker[w].at /\ worker'[w].run = worker[w].run
  BY DEF RunInv, TypeOK, CancelAll
<1>4. thread' = thread /\ created' = created
  BY DEF CancelAll
<1>5. NotCreated'
  BY <1>2, <1>4 DEF RunInv, NotCreated, CancelAll
<1>6. HeldIsRun'
  BY <1>3 DEF RunInv, HeldIsRun
<1> QED BY <1>1, <1>2, <1>3, <1>4, <1>5, <1>6, QuietStep DEF Executing

\* What a worker takes was pending, so no other worker executes it, and no
\* other run of its thread was marked as running.
LEMMA TakeKeeps ==
    ASSUME RunInv, NEW w \in Workers, ~Executing(w), NEW list \in SUBSET Runs, TakeFrom(w, list),
           UNCHANGED <<created, thread, threadStatus, cancels, deleting, requests, restarted>>
    PROVE RunInv'
<1>1. CASE worker' = [worker EXCEPT ![w] = Sleeping] /\ UNCHANGED status
  <2>1. Sleeping \in [at : Holding \cup {"sleep", "next", "dead"}, run : 0..MaxRuns,
                      signal : {"none", "interrupt", "rollback"}, outcome : Ended, list : SUBSET Runs]
    BY QueueAssumption DEF Sleeping, Ended
  <2>2. TypeOK'
    BY <1>1, <2>1 DEF RunInv, TypeOK
  <2>3. Sleeping.at \notin Holding /\ Sleeping.at \notin {"run", "status"}
    BY DEF Sleeping, Holding
  <2>4. NotCreated' /\ HeldIsRun'
    BY <1>1, <2>3 DEF RunInv, TypeOK, NotCreated, HeldIsRun
  <2> QED BY <1>1, <2>2, <2>3, <2>4, QuietStep DEF RunInv, TypeOK, Executing
<1>2. ASSUME NEW r \in list, status[r] = "pending", Free(r),
             worker' = [worker EXCEPT ![w] = [Sleeping EXCEPT !.at = "run", !.run = r,
                                                              !.list = {q \in list : q > r}]],
             status' = [status EXCEPT ![r] = "running"]
      PROVE RunInv'
  <2>1. /\ worker'[w].at = "run" /\ worker'[w].run = r
        /\ \A v \in Workers \ {w} : worker'[v] = worker[v]
    BY <1>2 DEF RunInv, TypeOK, Sleeping
  <2>2. status'[r] = "running" /\ \A q \in Runs \ {r} : status'[q] = status[q]
    BY <1>2 DEF RunInv, TypeOK
  <2>3. TypeOK'
    <3>1. [Sleeping EXCEPT !.at = "run", !.run = r, !.list = {q \in list : q > r}]
              \in [at : Holding \cup {"sleep", "next", "dead"}, run : 0..MaxRuns,
                   signal : {"none", "interrupt", "rollback"}, outcome : Ended, list : SUBSET Runs]
      <4>1. r \in Runs /\ {q \in list : q > r} \in SUBSET Runs
        OBVIOUS
      <4>2. r \in 0..MaxRuns
        BY <4>1, QueueAssumption DEF Runs
      <4> QED BY <4>1, <4>2 DEF Sleeping, Ended, Holding
    <3>2. worker' \in [Workers -> [at : Holding \cup {"sleep", "next", "dead"}, run : 0..MaxRuns,
                                   signal : {"none", "interrupt", "rollback"},
                                   outcome : Ended, list : SUBSET Runs]]
      BY <1>2, <3>1 DEF RunInv, TypeOK
    <3>3. status' \in [Runs -> {"none", "deleted"} \cup InFlight \cup Ended]
      BY <1>2 DEF RunInv, TypeOK, InFlight
    <3> QED BY <3>2, <3>3 DEF RunInv, TypeOK
  <2>4. NotCreated'
    BY <1>2, <2>2 DEF RunInv, NotCreated
  <2>5. \A v \in Workers \ {w} : Executing(v) => worker[v].run # r
    BY <1>2 DEF RunInv, ExecutedIsRunning
  <2>6. \A v \in Workers : Executing(v) => worker[v].run \in Runs
    BY DEF RunInv, HeldIsRun, Executing, Holding
  <2>7. ExecutedIsRunning'
    BY <2>1, <2>2, <2>5, <2>6 DEF RunInv, ExecutedIsRunning, Executing
  <2>8. OneWorkerPerRun'
    BY <2>1, <2>5 DEF RunInv, OneWorkerPerRun, Executing
  <2>9. OneRunning'
    BY <1>2, <2>2 DEF RunInv, OneRunning, Free
  <2>10. HeldIsRun'
    BY <1>2, <2>1 DEF RunInv, HeldIsRun
  <2> QED BY <2>3, <2>4, <2>7, <2>8, <2>9, <2>10 DEF RunInv
<1> QED BY <1>1, <1>2 DEF TakeFrom

-----------------------------------------------------------------------------
\* Creating a run: it is pending, and none is marked as running by it.
LEMMA PutKeeps == ASSUME RunInv, NEW t \in Threads, NEW s \in Strategies, Put(t, s) PROVE RunInv'
<1> DEFINE r == created + 1
<1>0. created \in Nat /\ created + 1 \in Runs /\ status[created + 1] = "none"
  BY QueueAssumption DEF RunInv, TypeOK, Put, Runs, NotCreated
<1>1. TypeOK'
  <2>1. created' \in 0..MaxRuns
    BY QueueAssumption DEF RunInv, TypeOK, Put
  <2>2. thread' \in [Runs -> Threads] /\ status' \in [Runs -> {"none", "deleted"} \cup InFlight \cup Ended]
    BY <1>0 DEF RunInv, TypeOK, Put, InFlight
  <2>3. threadStatus' \in [Threads -> {"idle", "busy", "interrupted", "error"}]
    BY DEF RunInv, TypeOK, Put
  <2>4. cancels' \subseteq [runs : SUBSET Runs, action : {"interrupt", "rollback"}]
    <3>1. InFlightOn(t) \subseteq Runs
      BY DEF InFlightOn
    <3>2. s \in {"interrupt", "rollback"} =>
              [runs |-> InFlightOn(t), action |-> s] \in [runs : SUBSET Runs, action : {"interrupt", "rollback"}]
      BY <3>1
    <3> QED BY <3>2 DEF RunInv, TypeOK, Put
  <2> QED BY <2>1, <2>2, <2>3, <2>4 DEF RunInv, TypeOK, Put
<1>2. UNCHANGED worker
  BY DEF Put
<1>3. \A q \in Runs : q # r => status'[q] = status[q] /\ thread'[q] = thread[q]
  BY DEF RunInv, TypeOK, Put
<1>4. status'[r] \in {"none", "pending"}
  BY <1>0 DEF RunInv, TypeOK, Put
<1>5. NotCreated'
  BY <1>0, <1>1, <1>3, QueueAssumption DEF RunInv, NotCreated, TypeOK, Put, Runs
<1>6. HeldIsRun'
  BY <1>2 DEF RunInv, HeldIsRun
<1> QED BY <1>0, <1>1, <1>2, <1>3, <1>4, <1>5, <1>6, QuietStep DEF Executing

\* Deleting a run from the store, by the endpoint or after a rollback.
LEMMA DeleteKeeps ==
    ASSUME RunInv, NEW r \in Runs, status[r] \notin {"none", "deleted"} \/ r \in deleting,
           status' = [status EXCEPT ![r] = "deleted"], deleting' \subseteq deleting,
           requests' \in 0..MaxRequests,
           UNCHANGED <<created, thread, threadStatus, worker, cancels, restarted>>
    PROVE RunInv'
<1>1. TypeOK'
  BY DEF RunInv, TypeOK
<1>2. \A q \in Runs : status'[q] = IF q = r THEN "deleted" ELSE status[q]
  BY DEF RunInv, TypeOK
<1>3. NotCreated'
  BY <1>2 DEF RunInv, NotCreated
<1>4. HeldIsRun'
  BY DEF RunInv, HeldIsRun
<1> QED BY <1>1, <1>2, <1>3, <1>4, QuietStep DEF Executing

\* The end of a run: nobody else executes it, so its status may be stored.
LEMMA OutcomeKeeps == ASSUME RunInv, NEW w \in Workers, SetRunStatus(w) PROVE RunInv'
<1> DEFINE r == worker[w].run
<1>1. r \in Runs /\ status[r] \in {"running", "deleted"}
  BY DEF SetRunStatus, RunInv, HeldIsRun, Holding, ExecutedIsRunning, Executing
<1>2. worker'[w].at \in {"throw", "thread"} /\ \A v \in Workers \ {w} : worker'[v] = worker[v]
  BY DEF SetRunStatus, RunInv, TypeOK
<1>3. worker'[w].run = r
  BY DEF SetRunStatus, RunInv, TypeOK
<1>4. worker[w].outcome \in Ended
  BY DEF RunInv, TypeOK
<1>5. \A q \in Runs : q # r => status'[q] = status[q]
  BY DEF SetRunStatus, StoresStatus, RunInv, TypeOK
<1>6. status'[r] \in Ended \cup {"deleted"} /\ status' \in [Runs -> {"none", "deleted"} \cup InFlight \cup Ended]
  BY <1>1, <1>4 DEF SetRunStatus, StoresStatus, RunInv, TypeOK
<1>7. TypeOK'
  <2>1. worker' \in [Workers -> [at : Holding \cup {"sleep", "next", "dead"}, run : 0..MaxRuns,
                                signal : {"none", "interrupt", "rollback"},
                                outcome : Ended, list : SUBSET Runs]]
    BY DEF SetRunStatus, Failure, RunInv, TypeOK, Holding, Ended
  <2> QED BY <1>6, <2>1 DEF SetRunStatus, RunInv, TypeOK
<1>8. NotCreated'
  BY <1>1, <1>5, <1>6 DEF SetRunStatus, RunInv, NotCreated, Ended
<1>9. HeldIsRun'
  BY <1>1, <1>2, <1>3 DEF RunInv, HeldIsRun
<1>10. \A v \in Workers : Executing(v)' => v # w /\ Executing(v) /\ worker'[v].run = worker[v].run
  BY <1>2 DEF Executing
<1>11. \A v \in Workers : Executing(v)' => worker'[v].run # r
  BY <1>10 DEF SetRunStatus, Executing, RunInv, OneWorkerPerRun
<1>12. \A q \in Runs : status'[q] = "running" => status[q] = "running" /\ thread'[q] = thread[q]
  BY <1>5, <1>6 DEF SetRunStatus, Ended
<1> QED BY <1>5, <1>7, <1>8, <1>9, <1>10, <1>11, <1>12, QuietStep

\* The end of a run's stream, and the thread's status after it.
LEMMA StreamOverKeeps == ASSUME RunInv, NEW w \in Workers, StreamOver(w) PROVE RunInv'
<1>1. /\ \A v \in Workers : Executing(v)' => Executing(v) /\ worker'[v].run = worker[v].run
      /\ \A v \in Workers : worker'[v].at \in Holding => worker[v].at \in Holding
      /\ \A v \in Workers : worker'[v].run = worker[v].run
  BY DEF StreamOver, Executing, RunInv, TypeOK, Holding
<1>2. TypeOK'
  <2>1. PICK outcome \in {"success", Failure(w)} :
            worker' = [worker EXCEPT ![w].at = "status", ![w].outcome = outcome]
    BY DEF StreamOver
  <2>2. outcome \in Ended
    BY DEF Failure, Ended
  <2>3. worker' \in [Workers -> [at : Holding \cup {"sleep", "next", "dead"}, run : 0..MaxRuns,
                                signal : {"none", "interrupt", "rollback"},
                                outcome : Ended, list : SUBSET Runs]]
    <3>1. \A v \in Workers : v # w => worker'[v] = worker[v]
      BY <2>1 DEF RunInv, TypeOK
    <3>2. worker'[w] = [worker[w] EXCEPT !.at = "status", !.outcome = outcome]
      BY <2>1 DEF RunInv, TypeOK
    <3>3. DOMAIN worker' = Workers /\ worker' = [v \in Workers |-> worker'[v]]
      BY <2>1 DEF RunInv, TypeOK
    <3>4. worker'[w] \in [at : Holding \cup {"sleep", "next", "dead"}, run : 0..MaxRuns,
                         signal : {"none", "interrupt", "rollback"},
                         outcome : Ended, list : SUBSET Runs]
      BY <2>2, <3>2 DEF RunInv, TypeOK, Holding
    <3> QED BY <3>1, <3>3, <3>4 DEF RunInv, TypeOK
  <2> QED BY <2>3 DEF StreamOver, RunInv, TypeOK
<1>3. NotCreated' /\ HeldIsRun'
  BY <1>1 DEF StreamOver, RunInv, NotCreated, HeldIsRun
<1> QED BY <1>1, <1>2, <1>3, QuietStep DEF StreamOver

LEMMA SetThreadStatusKeeps == ASSUME RunInv, NEW w \in Workers, SetThreadStatus(w) PROVE RunInv'
<1> DEFINE r == worker[w].run
           list == worker[w].list
           later == IF worker[w].at = "throw" THEN Dead ELSE [Sleeping EXCEPT !.at = "next", !.list = list]
<1>1. worker' = [worker EXCEPT ![w] = later] /\ list \in SUBSET Runs
  BY DEF SetThreadStatus, RunInv, TypeOK
<1>2. later \in [at : Holding \cup {"sleep", "next", "dead"}, run : 0..MaxRuns,
                signal : {"none", "interrupt", "rollback"}, outcome : Ended, list : SUBSET Runs]
  <2>1. 0 \in 0..MaxRuns
    BY QueueAssumption
  <2>2. Dead \in [at : Holding \cup {"sleep", "next", "dead"}, run : 0..MaxRuns,
                 signal : {"none", "interrupt", "rollback"}, outcome : Ended, list : SUBSET Runs]
    BY <2>1 DEF Dead, Sleeping, Ended
  <2>3. [Sleeping EXCEPT !.at = "next", !.list = list]
            \in [at : Holding \cup {"sleep", "next", "dead"}, run : 0..MaxRuns,
                 signal : {"none", "interrupt", "rollback"}, outcome : Ended, list : SUBSET Runs]
    BY <1>1, <2>1 DEF Sleeping, Ended
  <2> QED BY <2>2, <2>3
<1>3. later.at \in {"dead", "next"}
  BY DEF Dead, Sleeping
<1>4. TypeOK'
  <2>1. r \in Runs
    BY DEF SetThreadStatus, RunInv, HeldIsRun, Holding
  <2>2. ThreadStatusAfter(thread[r], worker[w].outcome) \subseteq {"idle", "busy", "interrupted", "error"}
    BY DEF ThreadStatusAfter, RunInv, TypeOK, Ended
  <2>3. threadStatus' \in [Threads -> {"idle", "busy", "interrupted", "error"}]
    BY <2>2 DEF SetThreadStatus, RunInv, TypeOK
  <2> QED BY <1>1, <1>2, <2>3 DEF SetThreadStatus, RunInv, TypeOK
<1>5. /\ \A v \in Workers : v # w => worker'[v] = worker[v]
      /\ worker'[w].at \in {"dead", "next"}
  BY <1>1, <1>3 DEF RunInv, TypeOK
<1>6. NotCreated' /\ HeldIsRun'
  BY <1>5 DEF SetThreadStatus, RunInv, NotCreated, HeldIsRun, Holding
<1> QED BY <1>4, <1>5, <1>6, QuietStep DEF SetThreadStatus, Executing

\* A restart: no worker executes anything.
LEMMA RestartKeeps == ASSUME RunInv, Restart PROVE RunInv'
<1>1. Sleeping \in [at : Holding \cup {"sleep", "next", "dead"}, run : 0..MaxRuns,
                    signal : {"none", "interrupt", "rollback"}, outcome : Ended, list : SUBSET Runs]
  BY QueueAssumption DEF Sleeping, Ended
<1>2. TypeOK'
  <2>1. requests' \in 0..MaxRequests
    BY QueueAssumption DEF Restart, Request, RunInv, TypeOK
  <2> QED BY <1>1, <2>1 DEF Restart, RunInv, TypeOK
<1>3. \A w \in Workers : worker'[w].at = "sleep"
  BY DEF Restart, Sleeping
<1>4. NotCreated' /\ HeldIsRun'
  BY <1>3 DEF Restart, RunInv, NotCreated, HeldIsRun, Holding
<1> QED BY <1>2, <1>3, <1>4, QuietStep DEF Restart, Executing
-----------------------------------------------------------------------------
\* Every step of clients, workers and the server keeps RunInv.
LEMMA StepKeeps == RunInv /\ [Next]_vars => RunInv'
<1> SUFFICES ASSUME RunInv, [Next]_vars PROVE RunInv'
  OBVIOUS
<1>1. ASSUME NEW t \in Threads, NEW s \in Strategies, Put(t, s) PROVE RunInv'
  BY <1>1, PutKeeps
<1>2. ASSUME NEW c \in cancels, CancelReplaced(c) PROVE RunInv'
  <2>1. c.runs \in SUBSET Runs /\ c.action \in {"interrupt", "rollback"}
    BY DEF RunInv, TypeOK
  <2>2. requests' \in 0..MaxRequests /\ cancels' \subseteq cancels
    BY <1>2 DEF CancelReplaced, RunInv, TypeOK
  <2> QED BY <1>2, <2>1, <2>2, CancelKeeps DEF CancelReplaced
<1>3. ASSUME NEW r \in Runs, NEW a \in Actions, CancelRun(r, a) PROVE RunInv'
  <2>1. requests' \in 0..MaxRequests /\ cancels' \subseteq cancels
    BY <1>3, QueueAssumption DEF CancelRun, Request, RunInv, TypeOK
  <2>2. {r} \in SUBSET Runs /\ a \in {"interrupt", "rollback"}
    BY QueueAssumption
  <2> QED BY <1>3, <2>1, <2>2, CancelKeeps DEF CancelRun
<1>4. ASSUME NEW r \in Runs, EagerDelete(r) PROVE RunInv'
  <2>1. r \in deleting /\ requests' \in 0..MaxRequests
    BY <1>4 DEF EagerDelete, RunInv, TypeOK
  <2> QED BY <1>4, <2>1, DeleteKeeps DEF EagerDelete
<1>5. ASSUME NEW r \in Runs, DeleteRun(r) PROVE RunInv'
  <2>1. requests' \in 0..MaxRequests
    BY <1>5, QueueAssumption DEF DeleteRun, Request, RunInv, TypeOK
  <2> QED BY <1>5, <2>1, DeleteKeeps DEF DeleteRun
<1>6. ASSUME NEW w \in Workers, Poll(w) PROVE RunInv'
  BY <1>6, TakeKeeps DEF Poll, Executing
<1>7. ASSUME NEW w \in Workers, Advance(w) PROVE RunInv'
  <2>1. worker[w].list \in SUBSET Runs
    BY DEF RunInv, TypeOK
  <2> QED BY <1>7, <2>1, TakeKeeps DEF Advance, Executing
<1>8. ASSUME NEW w \in Workers, StreamOver(w) \/ SetRunStatus(w) \/ SetThreadStatus(w) PROVE RunInv'
  BY <1>8, StreamOverKeeps, OutcomeKeeps, SetThreadStatusKeeps
<1>9. CASE Restart
  BY <1>9, RestartKeeps
<1>10. CASE UNCHANGED vars
  BY <1>10 DEF vars, RunInv, TypeOK, NotCreated, ExecutedIsRunning, OneWorkerPerRun, OneRunning,
               HeldIsRun, Executing
<1> QED BY <1>1, <1>2, <1>3, <1>4, <1>5, <1>6, <1>7, <1>8, <1>9, <1>10 DEF Next

LEMMA SpecKeeps == Spec => []RunInv
<1> QED BY RunInit, StepKeeps, SpecIsStep, PTL

\* The state of the server stays well-formed.
THEOREM TypeCorrect == Spec => []TypeOK
<1>1. RunInv => TypeOK
  BY DEF RunInv
<1> QED BY <1>1, SpecKeeps, PTL

\* Two workers never execute runs of one thread at the same time, unless one
\* of them was deleted from the store while it was executed.
THEOREM OneAtATime == Spec => []OneRunPerThread
<1>1. RunInv => OneRunPerThread
  <2> SUFFICES ASSUME RunInv, NEW v \in Workers, NEW w \in Workers, v # w,
                      worker[v].at = "run", worker[w].at = "run",
                      thread[worker[v].run] = thread[worker[w].run]
               PROVE status[worker[v].run] = "deleted" \/ status[worker[w].run] = "deleted"
    BY DEF OneRunPerThread
  <2>1. worker[v].run \in Runs /\ worker[w].run \in Runs /\ Executing(v) /\ Executing(w)
    BY DEF RunInv, HeldIsRun, Holding, Executing
  <2>2. worker[v].run # worker[w].run
    BY <2>1 DEF RunInv, OneWorkerPerRun
  <2> QED BY <2>1, <2>2 DEF RunInv, ExecutedIsRunning, OneRunning
<1> QED BY <1>1, SpecKeeps, PTL

-----------------------------------------------------------------------------
\* The steps that change the status of a run are those of RunLifecycle.
LEMMA PutCreates ==
    ASSUME RunInv, NEW t \in Threads, NEW s \in Strategies, Put(t, s)
    PROVE Lifecycle!Next \/ UNCHANGED <<status, thread>>
<1>1. CASE UNCHANGED <<status, thread>>
  BY <1>1
<1>2. CASE /\ status' = [status EXCEPT ![created + 1] = "pending"]
           /\ thread' = [thread EXCEPT ![created + 1] = t]
  <2>1. created + 1 \in Runs /\ status[created + 1] = "none"
    BY QueueAssumption DEF RunInv, TypeOK, Put, Runs, NotCreated
  <2>2. Lifecycle!Create(created + 1, t)
    BY <1>2, <2>1 DEF Lifecycle!Create
  <2> QED BY <2>1, <2>2 DEF Lifecycle!Next, Lifecycle!Runs, Runs
<1> QED BY <1>1, <1>2 DEF Put

LEMMA CancelStops ==
    ASSUME RunInv, NEW runs \in SUBSET Runs, NEW action, CancelAll(runs, action)
    PROVE Lifecycle!Next
<1> DEFINE stopped == {r \in runs : Stops(r, action)}
<1>1. stopped \in SUBSET Runs /\ \A r \in stopped : status[r] = "pending"
  BY DEF Stops
<1>2. status' = [r \in Runs |-> IF r \in stopped THEN "interrupted" ELSE status[r]] /\ UNCHANGED thread
  BY DEF CancelAll
<1>3. Lifecycle!Stop(stopped)
  BY <1>1, <1>2 DEF Lifecycle!Stop, Lifecycle!Runs, Runs
<1> QED BY <1>1, <1>3 DEF Lifecycle!Next, Lifecycle!Runs, Runs

LEMMA DeletionDeletes ==
    ASSUME RunInv, NEW r \in Runs, EagerDelete(r) \/ DeleteRun(r)
    PROVE Lifecycle!Next
<1>1. status[r] # "none"
  BY DEF EagerDelete, DeleteRun, RunInv, NotCreated
<1>2. Lifecycle!Delete(r)
  BY <1>1 DEF EagerDelete, DeleteRun, Lifecycle!Delete
<1> QED BY <1>2 DEF Lifecycle!Next, Lifecycle!Runs, Runs

LEMMA TakeStarts ==
    ASSUME RunInv, NEW w \in Workers, NEW list \in SUBSET Runs, TakeFrom(w, list), UNCHANGED thread
    PROVE Lifecycle!Next \/ UNCHANGED <<status, thread>>
<1>1. CASE UNCHANGED status
  BY <1>1
<1>2. ASSUME NEW r \in list, status[r] = "pending", Free(r), status' = [status EXCEPT ![r] = "running"]
      PROVE Lifecycle!Next
  <2>1. r \in Runs /\ Lifecycle!Start(r)
    BY <1>2 DEF Free, Lifecycle!Start, Lifecycle!Runs, Runs
  <2> QED BY <2>1 DEF Lifecycle!Next, Lifecycle!Runs, Runs
<1> QED BY <1>1, <1>2 DEF TakeFrom

LEMMA OutcomeEnds ==
    ASSUME RunInv, NEW w \in Workers, SetRunStatus(w)
    PROVE Lifecycle!Next \/ UNCHANGED <<status, thread>>
<1> DEFINE r == worker[w].run
<1>1. r \in Runs /\ status[r] \in {"running", "deleted"} /\ worker[w].outcome \in Ended
  BY DEF SetRunStatus, RunInv, TypeOK, HeldIsRun, Holding, ExecutedIsRunning, Executing
<1>2. CASE status[r] = "deleted"
  BY <1>2 DEF SetRunStatus
<1>3. CASE status[r] = "running"
  <2>1. Lifecycle!End(r)
    BY <1>1, <1>3 DEF SetRunStatus, StoresStatus, Lifecycle!End, Lifecycle!Outcomes, Ended
  <2> QED BY <1>1, <2>1 DEF Lifecycle!Next, Lifecycle!Runs, Runs
<1> QED BY <1>1, <1>2, <1>3

\* The server implements RunLifecycle: one execution and one outcome per run,
\* and no client, worker or restart changes a run that has ended.
THEOREM LifecycleRefined == Spec => RunsLiveOnce
<1>1. Init => Lifecycle!Init
  BY QueueAssumption DEF Init, Lifecycle!Init, Lifecycle!Runs, Runs
<1>2. RunInv /\ [Next]_vars => [Lifecycle!Next]_<<status, thread>>
  <2> SUFFICES ASSUME RunInv, [Next]_vars PROVE Lifecycle!Next \/ UNCHANGED <<status, thread>>
    OBVIOUS
  <2>1. ASSUME NEW c \in cancels, CancelReplaced(c) PROVE Lifecycle!Next
    <3>1. c.runs \in SUBSET Runs
      BY DEF RunInv, TypeOK
    <3> QED BY <2>1, <3>1, CancelStops DEF CancelReplaced
  <2>2. ASSUME NEW r \in Runs, NEW a \in Actions, CancelRun(r, a) PROVE Lifecycle!Next
    BY <2>2, CancelStops DEF CancelRun
  <2>3. ASSUME NEW r \in Runs, EagerDelete(r) \/ DeleteRun(r) PROVE Lifecycle!Next
    BY <2>3, DeletionDeletes
  <2>4. ASSUME NEW w \in Workers, Poll(w) PROVE Lifecycle!Next \/ UNCHANGED <<status, thread>>
    BY <2>4, TakeStarts DEF Poll
  <2>5. ASSUME NEW w \in Workers, Advance(w) PROVE Lifecycle!Next \/ UNCHANGED <<status, thread>>
    <3>1. worker[w].list \in SUBSET Runs
      BY DEF RunInv, TypeOK
    <3> QED BY <2>5, <3>1, TakeStarts DEF Advance
  <2>6. ASSUME NEW w \in Workers, SetRunStatus(w) PROVE Lifecycle!Next \/ UNCHANGED <<status, thread>>
    BY <2>6, OutcomeEnds
  <2>7. ASSUME NEW w \in Workers, StreamOver(w) \/ SetThreadStatus(w) PROVE UNCHANGED <<status, thread>>
    BY <2>7 DEF StreamOver, SetThreadStatus
  <2> QED BY <2>1, <2>2, <2>3, <2>4, <2>5, <2>6, <2>7, PutCreates DEF Next, Restart, vars
<1> QED BY <1>1, <1>2, SpecKeeps, SpecIsStep, PTL DEF RunsLiveOnce, Lifecycle!Spec
=============================================================================
