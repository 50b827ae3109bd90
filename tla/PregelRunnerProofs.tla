------------------------- MODULE PregelRunnerProofs -------------------------
(***************************************************************************)
(* Theorems about PregelRunner, for any tasks, calls, handlers and limits: *)
(* the types, the concurrency bound, that failures surface, that aborts    *)
(* are not blamed, that handlers follow failures, that a commit is of one  *)
(* attempt, and, for maxConcurrency of at least two, that a tick waits for *)
(* everything it has started and returns with writes on every task.        *)
(*                                                                         *)
(* The argument: TypeOK; MapInv, what executingTasksMap says of the tasks; *)
(* RunInv, what the retry loop keeps to; CommitInv, what tick() has done   *)
(* with the tasks that left the map.  Steps sums up what a step may do.    *)
(***************************************************************************)
EXTENDS PregelRunner, FiniteSetTheorems, TLAPS

LEMMA AllTasksFinite == IsFiniteSet(AllTasks)
<1>1. IsFiniteSet(Tasks \cup Calls)
  BY TasksAssumption, FS_Union
<1> QED
  BY <1>1, TasksAssumption, FS_Union DEF AllTasks

LEMMA Parts ==
    /\ Tasks \subseteq AllTasks /\ Calls \subseteq AllTasks /\ Handlers \subseteq AllTasks
    /\ \A c \in Calls : Caller[c] \in AllTasks
  BY TasksAssumption DEF AllTasks

\* Handlers are scheduled for tasks of the superstep, never for themselves.
LEMMA ScheduledAreOthers ==
    ASSUME NEW t \in AllTasks, NEW h \in HandlersFor(t)
    PROVE  h \in Handlers /\ h # t /\ h \notin Tasks /\ h \in AllTasks
  BY TasksAssumption DEF HandlersFor, AllTasks

-----------------------------------------------------------------------------
\* The part of the type invariant that Launch and Settle touch.
LEMMA LaunchTypes ==
    ASSUME TypeOK, NEW S, Launch(S)
    PROVE  /\ exec' \in [AllTasks -> {"idle", "running", "awaiting", "backoff", "settled"}]
           /\ outcome' \in [AllTasks -> Outcomes]
           /\ sawAbort' \in [AllTasks -> BOOLEAN]
<1>1. "ok" \in Outcomes
  BY DEF Outcomes
<1>2. exec' \in [AllTasks -> {"idle", "running", "awaiting", "backoff", "settled"}]
  BY DEF TypeOK, Launch
<1>3. outcome' \in [AllTasks -> Outcomes]
  BY <1>1 DEF TypeOK, Launch
<1>4. sawAbort' \in [AllTasks -> BOOLEAN]
  BY Zenon DEF TypeOK, Launch
<1> QED
  BY <1>2, <1>3, <1>4

LEMMA SettleTypes ==
    ASSUME TypeOK, NEW t \in AllTasks, NEW o \in Outcomes, NEW e \in AllTasks \cup {None},
           Settle(t, o, e)
    PROVE  /\ exec' \in [AllTasks -> {"idle", "running", "awaiting", "backoff", "settled"}]
           /\ outcome' \in [AllTasks -> Outcomes]
           /\ cause' \in [AllTasks -> AllTasks \cup {None}]
           /\ sawAbort' \in [AllTasks -> BOOLEAN]
<1>1. Aborted(t) \in BOOLEAN
  BY DEF Aborted
<1> QED
  BY <1>1 DEF TypeOK, Settle

LEMMA ThrownTypes ==
    ASSUME TypeOK, NEW t \in AllTasks, NEW o, NEW e \in Thrown(t, o)
    PROVE  e \in AllTasks \cup {None}
  BY Parts DEF TypeOK, Thrown, CallsOf

LEMMA ReportTypes ==
    ASSUME TypeOK, NEW t \in AllTasks, Report(t)
    PROVE  /\ nodeErrors' \subseteq AllTasks \cup {None}
           /\ bubbleUp' \in {"none"} \cup BubbleUps
           /\ handled' \subseteq AllTasks \cup {None}
           /\ excAborted' \in BOOLEAN
<1>1. cause[t] \in AllTasks \cup {None}
  BY DEF TypeOK
<1>2. BubbleUpAfter(t) \in {"none"} \cup BubbleUps
  BY DEF TypeOK, BubbleUpAfter, BubbleUps
<1> QED
  BY <1>1, <1>2 DEF TypeOK, Report

LEMMA WroteTypes ==
    ASSUME TypeOK, NEW t \in AllTasks, Wrote(t)
    PROVE  writes' \in [AllTasks -> SUBSET PendingWrites]
<1>1. PICK W \in {{}, {DATA}, {DATA, RESUME}} :
         writes' = [writes EXCEPT ![t] = @ \cup (W \X {attempts[t]})]
  BY DEF Wrote
<1>2. W \X {attempts[t]} \subseteq PendingWrites
  <2>1. W \subseteq {DATA, RESUME} /\ attempts[t] \in Nat
    BY DEF TypeOK
  <2> QED
    BY <2>1 DEF PendingWrites
<1>3. writes[t] \cup (W \X {attempts[t]}) \in SUBSET PendingWrites
  BY <1>2 DEF TypeOK
<1> QED
  BY <1>1, <1>3 DEF TypeOK

LEMMA ToCommitTypes ==
    ASSUME TypeOK, NEW t \in AllTasks PROVE ToCommit(t) \in SUBSET PendingWrites
<1>1. writes[t] \subseteq PendingWrites /\ attempts[t] \in Nat
  BY DEF TypeOK
<1>2. \A c \in {INTERRUPT, ERROR, ERROR_SOURCE_NODE, NO_WRITES} : <<c, attempts[t]>> \in PendingWrites
  BY <1>1 DEF PendingWrites
<1> QED
  BY <1>1, <1>2 DEF ToCommit, ErrorWrites

\* Every variable keeps its type, whatever the tasks do.
THEOREM TypeCorrect == Spec => []TypeOK
<1>1. Init => TypeOK
  <2> SUFFICES ASSUME Init PROVE TypeOK
    OBVIOUS
  <2>1. "none" \in Outcomes
    BY DEF Outcomes
  <2> QED
    BY <2>1 DEF Init, TypeOK
<1>2. TypeOK /\ [Next]_vars => TypeOK'
  <2> SUFFICES ASSUME TypeOK, [Next]_vars PROVE TypeOK'
    OBVIOUS
  <2> USE Parts
  <2>1. CASE AbortedAtStart
    BY <2>1 DEF TypeOK, AbortedAtStart, tickVars, raceVars, taskVars, abortVars
  <2>2. CASE Fill
    <3>1. PICK S \in SUBSET (pending \ started) :
             /\ started' = started \cup S
             /\ executing' = executing \cup S
             /\ racing' = executing \cup S
             /\ Launch(S)
      BY <2>2 DEF Fill
    <3>2. S \subseteq AllTasks /\ S \subseteq pending
      BY DEF TypeOK
    <3> QED
      BY <2>2, <3>1, <3>2, LaunchTypes DEF TypeOK, Fill, tickVars, abortVars
  <2>3. CASE PromiseAdded
    BY <2>3 DEF TypeOK, PromiseAdded, tickVars, raceVars, taskVars, abortVars
  <2>4. CASE AbortThrown
    BY <2>4 DEF TypeOK, AbortThrown, tickVars, raceVars, taskVars, abortVars
  <2>5. CASE Return
    BY <2>5 DEF TypeOK, Return, tickVars, raceVars, taskVars, abortVars
  <2>6. ASSUME NEW t \in AllTasks, TaskSettled(t) PROVE TypeOK'
    <3> DEFINE scheduled == IF SchedulesHandler(t) THEN HandlersFor(t) ELSE {}
    <3>1. scheduled \subseteq AllTasks
      BY DEF HandlersFor
    <3>2. executing' \subseteq AllTasks
      BY <2>6, <3>1 DEF TypeOK, TaskSettled, Remaining
    <3>3. Launch(scheduled)
      BY <2>6 DEF TaskSettled
    <3>4. Report(t)
      BY <2>6 DEF TaskSettled
    <3>5. saved' \in [AllTasks -> SUBSET PendingWrites]
      BY <2>6, ToCommitTypes DEF TypeOK, TaskSettled
    <3> HIDE DEF scheduled
    <3> QED
      BY <2>6, <3>2, <3>3, <3>4, <3>5, LaunchTypes, ReportTypes DEF TypeOK, TaskSettled
  <2>7. ASSUME NEW c \in Calls, CallTask(c) PROVE TypeOK'
    <3>1. exec' \in [AllTasks -> {"idle", "running", "awaiting", "backoff", "settled"}]
      BY <2>7 DEF TypeOK, CallTask
    <3>2. added' \in BOOLEAN
      BY <2>7 DEF TypeOK, CallTask, BarrierNext
    <3>3. executing' \subseteq AllTasks
      BY <2>7 DEF TypeOK, CallTask
    <3> QED
      BY <2>7, <3>1, <3>2, <3>3 DEF TypeOK, CallTask, tickVars, abortVars
  <2>8. ASSUME NEW t \in AllTasks, CallReturned(t) PROVE TypeOK'
    BY <2>8 DEF TypeOK, CallReturned, tickVars, raceVars, abortVars
  <2>9. ASSUME NEW t \in AllTasks, Complete(t) PROVE TypeOK'
    <3>1. "ok" \in Outcomes
      BY DEF Outcomes
    <3>2. Settle(t, "ok", None) /\ Wrote(t)
      BY <2>9 DEF Complete
    <3> QED
      BY <2>9, <3>1, <3>2, SettleTypes, WroteTypes DEF TypeOK, Complete, tickVars, raceVars, abortVars
  <2>10. ASSUME NEW t \in AllTasks, Retry(t) PROVE TypeOK'
    <3>1. "none" \in Outcomes
      BY DEF Outcomes
    <3>2. CASE Aborted(t)
      <4>1. sawAbort' \in [AllTasks -> BOOLEAN]
        BY <2>10, <3>2, Zenon DEF TypeOK, Retry
      <4> QED
        BY <2>10, <3>2, <4>1 DEF TypeOK, Retry, tickVars, raceVars, abortVars
    <3>3. CASE ~Aborted(t)
      <4>1. cause' \in [AllTasks -> AllTasks \cup {None}]
        BY <2>10, <3>3 DEF TypeOK, Retry
      <4>2. writes' \in [AllTasks -> SUBSET PendingWrites]
        BY <2>10, <3>3 DEF TypeOK, Retry, Cleared
      <4> QED
        BY <2>10, <3>1, <3>3, <4>1, <4>2 DEF TypeOK, Retry, tickVars, raceVars, abortVars
    <3> QED
      BY <3>2, <3>3
  <2>11. ASSUME NEW t \in AllTasks, NEW o \in BubbleUps, BubbleUp(t, o) PROVE TypeOK'
    <3>1. o \in Outcomes
      BY DEF Outcomes
    <3>2. PICK e \in Thrown(t, o) : Settle(t, o, e)
      BY <2>11 DEF BubbleUp
    <3>3. Wrote(t)
      BY <2>11 DEF BubbleUp
    <3> QED
      BY <2>11, <3>1, <3>2, <3>3, SettleTypes, ThrownTypes, WroteTypes
      DEF TypeOK, BubbleUp, tickVars, raceVars, abortVars
  <2>12. ASSUME NEW t \in AllTasks, NEW o \in Failures, Throw(t, o) PROVE TypeOK'
    <3>1. o \in Outcomes
      BY DEF Outcomes, Failures
    <3>2. attempts' \in [AllTasks -> Nat]
      BY <2>12 DEF TypeOK, Throw
    <3>3. PICK e \in Thrown(t, o) :
             \/ /\ exec' = [exec EXCEPT ![t] = "backoff"]
                /\ outcome' = [outcome EXCEPT ![t] = o]
                /\ cause' = [cause EXCEPT ![t] = e]
                /\ UNCHANGED sawAbort
             \/ Settle(t, o, e)
      BY <2>12 DEF Throw
    <3>4. e \in AllTasks \cup {None}
      BY <3>3, ThrownTypes
    <3>5. /\ exec' \in [AllTasks -> {"idle", "running", "awaiting", "backoff", "settled"}]
          /\ outcome' \in [AllTasks -> Outcomes]
          /\ cause' \in [AllTasks -> AllTasks \cup {None}]
          /\ sawAbort' \in [AllTasks -> BOOLEAN]
      <4>1. CASE Settle(t, o, e)
        BY <3>1, <3>4, <4>1, SettleTypes
      <4>2. CASE ~Settle(t, o, e)
        BY <3>1, <3>3, <3>4, <4>2 DEF TypeOK
      <4> QED
        BY <4>1, <4>2
    <3>6. writes' \in [AllTasks -> SUBSET PendingWrites]
      BY <2>12, WroteTypes DEF Throw
    <3> QED
      BY <2>12, <3>2, <3>5, <3>6 DEF TypeOK, Throw, tickVars, raceVars, abortVars
  <2>13. CASE Abort
    BY <2>13 DEF TypeOK, Abort, tickVars, raceVars, taskVars
  <2>14. CASE UNCHANGED vars
    BY <2>14 DEF TypeOK, vars, tickVars, raceVars, taskVars, abortVars
  <2> QED
    BY <2>1, <2>2, <2>3, <2>4, <2>5, <2>6, <2>7, <2>8, <2>9, <2>10, <2>11, <2>12, <2>13, <2>14
    DEF Next, Over
<1> QED
  BY <1>1, <1>2, PTL DEF Spec

-----------------------------------------------------------------------------
\* Only the for loop of _executeTasksWithRetry puts tasks of the superstep in
\* the map.
LEMMA OnlyFillAddsTasks ==
    ASSUME TypeOK, [Next]_vars, ~Fill
    PROVE  executing' \cap Tasks \subseteq executing \cap Tasks
<1>1. ASSUME NEW t \in AllTasks, TaskSettled(t)
      PROVE  executing' \cap Tasks \subseteq executing \cap Tasks
  <2> DEFINE scheduled == IF SchedulesHandler(t) THEN HandlersFor(t) ELSE {}
  <2>1. scheduled \cap Tasks = {}
    BY TasksAssumption DEF HandlersFor
  <2>2. executing' = Remaining(t, scheduled)
    BY <1>1 DEF TaskSettled
  <2> QED
    BY <2>1, <2>2 DEF Remaining
<1>2. ASSUME NEW c \in Calls, CallTask(c)
      PROVE  executing' \cap Tasks \subseteq executing \cap Tasks
  BY <1>2, TasksAssumption DEF CallTask
<1>3. CASE UNCHANGED executing
  BY <1>3
<1>4. \/ \E t \in AllTasks : TaskSettled(t)
      \/ \E c \in Calls : CallTask(c)
      \/ UNCHANGED executing
  BY DEF Next, AbortedAtStart, PromiseAdded, AbortThrown, Return, CallReturned, Complete,
         Retry, BubbleUp, Throw, Abort, Over, vars, raceVars
<1> QED
  BY <1>1, <1>2, <1>3, <1>4

\* At most maxConcurrency tasks of the superstep execute at a time, however
\* many calls and handlers execute besides.
THEOREM ConcurrencyIsBounded == Spec => []ConcurrencyBound
<1>1. Init => ConcurrencyBound
  BY FS_EmptySet, LimitsAssumption DEF Init, ConcurrencyBound
<1>2. TypeOK /\ ConcurrencyBound /\ [Next]_vars => ConcurrencyBound'
  <2> SUFFICES ASSUME TypeOK, ConcurrencyBound, [Next]_vars PROVE ConcurrencyBound'
    OBVIOUS
  <2>1. IsFiniteSet(executing)
    BY AllTasksFinite, FS_Subset DEF TypeOK
  <2>2. IsFiniteSet(executing \cap Tasks) /\ Cardinality(executing \cap Tasks) \in Nat
    BY <2>1, FS_Subset, FS_CardinalityType
  <2>3. CASE Fill
    <3>1. PICK S \in SUBSET (pending \ started) :
             Fills(S) /\ executing' = executing \cup S
      BY <2>3 DEF Fill
    <3>2. CASE S = {}
      BY <3>1, <3>2 DEF ConcurrencyBound
    <3>3. CASE S # {}
      <4>1. S \subseteq AllTasks
        BY Parts DEF TypeOK
      <4>2. IsFiniteSet(executing \cup S)
        BY <4>1, AllTasksFinite, FS_Subset DEF TypeOK
      <4>3. /\ Cardinality((executing \cup S) \cap Tasks) <= Cardinality(executing \cup S)
            /\ Cardinality((executing \cup S) \cap Tasks) \in Nat
            /\ Cardinality(executing \cup S) \in Nat
        BY <4>2, FS_Subset, FS_CardinalityType
      <4>4. Cardinality(executing \cup S) <= MaxConcurrency
        BY <3>1, <3>3 DEF Fills
      <4> QED
        BY <3>1, <4>3, <4>4, LimitsAssumption DEF ConcurrencyBound
    <3> QED
      BY <3>2, <3>3
  <2>4. CASE ~Fill
    <3>1. executing' \cap Tasks \subseteq executing \cap Tasks
      BY <2>4, OnlyFillAddsTasks
    <3>2. /\ Cardinality(executing' \cap Tasks) <= Cardinality(executing \cap Tasks)
          /\ Cardinality(executing' \cap Tasks) \in Nat
      BY <2>2, <3>1, FS_Subset, FS_CardinalityType
    <3> QED
      BY <2>2, <3>2, LimitsAssumption DEF ConcurrencyBound
  <2> QED
    BY <2>3, <2>4
<1> QED
  BY <1>1, <1>2, TypeCorrect, PTL DEF Spec

-----------------------------------------------------------------------------
\* What a step does, as far as the invariants below read it: a task's own step,
\* the start of tasks by the for loop, a settled task, a call, or a step of the
\* loop itself that leaves the tasks alone.
SameTask(u) ==
    /\ exec'[u] = exec[u] /\ outcome'[u] = outcome[u] /\ cause'[u] = cause[u]
    /\ sawAbort'[u] = sawAbort[u] /\ writes'[u] = writes[u] /\ attempts'[u] = attempts[u]

OwnAction(t) ==
    \/ CallReturned(t) \/ Complete(t) \/ Retry(t)
    \/ (\E o \in BubbleUps : BubbleUp(t, o)) \/ (\E o \in Failures : Throw(t, o))

OwnStep(t) ==
    /\ exec[t] \in {"running", "awaiting", "backoff"} /\ exec'[t] \in {"running", "backoff", "settled"}
    /\ \A u \in AllTasks : u # t => SameTask(u)
    /\ completed \subseteq completed'
    /\ UNCHANGED <<pc, tickVars, raceVars, saved, abortVars, result>>

FillStep(S) ==
    /\ pc = "fill" /\ pc' = "race" /\ LoopAgain /\ Fills(S) /\ Launch(S)
    /\ started' = started \cup S /\ executing' = executing \cup S /\ racing' = executing \cup S
    /\ UNCHANGED <<tickVars, attempts, cause, writes, completed, saved, abortVars, result>>

\* The handlers that the end of task t schedules.
Scheduled(t) == IF SchedulesHandler(t) THEN HandlersFor(t) ELSE {}

SettledStep(t) ==
    /\ pc = "race" /\ pc' = "fill" /\ t \in racing /\ exec[t] = "settled"
    /\ Launch(Scheduled(t)) /\ executing' = (executing \cup Scheduled(t)) \ {t}
    /\ saved' = [saved EXCEPT ![t] = ToCommit(t)]
    /\ Report(t)
    /\ UNCHANGED <<pending, started, racing, attempts, cause, writes, completed, extAborted, result>>

CallStep(c) ==
    /\ Running(Caller[c]) /\ exec[c] = "idle"
    /\ exec'[c] = "running" /\ exec'[Caller[c]] \in {"awaiting", "running"}
    /\ \A u \in AllTasks : u # c /\ u # Caller[c] => exec'[u] = exec[u]
    /\ executing' = executing \cup {c}
    /\ UNCHANGED <<pc, tickVars, started, racing, attempts, outcome, cause, sawAbort, writes,
                   completed, saved, abortVars, result>>

LoopStep ==
    /\ UNCHANGED <<tickVars, started, executing, racing, taskVars, saved, excAborted>>
    /\ extAborted => extAborted'
    /\ \/ UNCHANGED <<pc, result>>
       \/ pc = "race" /\ pc' = "fill" /\ result' = result
       \/ pc' = "threw" /\ result' = "abort"
       \/ /\ pc = "fill" /\ ~LoopAgain /\ result' = Outcome
          /\ pc' = IF Outcome = "ok" THEN "returned" ELSE "threw"

LEMMA OwnActionIsStep == ASSUME TypeOK, NEW t \in AllTasks, OwnAction(t) PROVE OwnStep(t)
<1>1. CASE CallReturned(t)
  BY <1>1 DEF CallReturned, OwnStep, SameTask, TypeOK
<1>2. CASE Complete(t)
  <2>1. completed \subseteq completed'
    BY <1>2 DEF Complete
  <2>2. \A u \in AllTasks : u # t => SameTask(u)
    BY <1>2 DEF Complete, Settle, Wrote, SameTask, TypeOK
  <2> QED
    BY <1>2, <2>1, <2>2 DEF Complete, Settle, Running, OwnStep, TypeOK
<1>3. CASE Retry(t)
  <2>1. CASE Aborted(t)
    <3>1. \A u \in AllTasks : u # t => sawAbort'[u] = sawAbort[u]
      BY <1>3, <2>1, Zenon DEF Retry, TypeOK
    <3>2. \A u \in AllTasks : u # t => SameTask(u)
      BY <1>3, <2>1, <3>1 DEF Retry, SameTask, TypeOK
    <3> QED
      BY <1>3, <2>1, <3>2 DEF Retry, OwnStep, TypeOK
  <2>2. CASE ~Aborted(t)
    <3>1. \A u \in AllTasks : u # t => SameTask(u)
      BY <1>3, <2>2 DEF Retry, SameTask, TypeOK
    <3> QED
      BY <1>3, <2>2, <3>1 DEF Retry, OwnStep, TypeOK
  <2> QED
    BY <2>1, <2>2
<1>4. ASSUME NEW o \in BubbleUps, BubbleUp(t, o) PROVE OwnStep(t)
  <2>1. \A u \in AllTasks : u # t => SameTask(u)
    BY <1>4 DEF BubbleUp, Settle, Wrote, SameTask, TypeOK
  <2> QED
    BY <1>4, <2>1 DEF BubbleUp, Settle, Running, OwnStep, TypeOK
<1>5. ASSUME NEW o \in Failures, Throw(t, o) PROVE OwnStep(t)
  <2>1. \A u \in AllTasks : u # t => SameTask(u)
    BY <1>5 DEF Throw, Settle, Wrote, SameTask, TypeOK
  <2> QED
    BY <1>5, <2>1 DEF Throw, Settle, Running, OwnStep, TypeOK
<1> QED
  BY <1>1, <1>2, <1>3, <1>4, <1>5 DEF OwnAction

LEMMA Steps ==
    ASSUME TypeOK, [Next]_vars
    PROVE  \/ \E t \in AllTasks : OwnAction(t) /\ OwnStep(t)
           \/ \E S \in SUBSET (pending \ started) : FillStep(S)
           \/ \E t \in AllTasks : SettledStep(t)
           \/ \E c \in Calls : CallStep(c)
           \/ LoopStep
<1>1. ASSUME NEW t \in AllTasks, OwnAction(t) PROVE OwnStep(t)
  BY <1>1, OwnActionIsStep
<1>2. CASE Fill
  BY <1>2 DEF Fill, FillStep
<1>3. ASSUME NEW t \in AllTasks, TaskSettled(t) PROVE SettledStep(t)
  BY <1>3 DEF TaskSettled, SettledStep, Scheduled, Remaining
<1>4. ASSUME NEW c \in Calls, CallTask(c) PROVE CallStep(c)
  <2>1. Caller[c] \in AllTasks /\ c \in AllTasks /\ c # Caller[c]
    BY TasksAssumption DEF AllTasks
  <2> QED
    BY <1>4, <2>1 DEF CallTask, CallStep, TypeOK
<1>5. AbortedAtStart \/ PromiseAdded \/ AbortThrown \/ Return \/ Abort \/ UNCHANGED vars => LoopStep
  BY DEF AbortedAtStart, PromiseAdded, AbortThrown, Return, Abort, LoopStep, vars, tickVars, raceVars,
         taskVars, abortVars
<1> QED
  BY <1>1, <1>2, <1>3, <1>4, <1>5 DEF Next, Over, OwnAction

-----------------------------------------------------------------------------
\* The map of executing tasks.  A task that is under way is in it; a task that
\* is not idle and has left it has been dealt with.
Processed(t) == exec[t] # "idle" /\ t \notin executing

Tracked == \A t \in AllTasks : exec[t] \notin {"idle", "settled"} => t \in executing
StartedRan == \A t \in started : exec[t] # "idle"
FirstStart == started = {} => executing = {} /\ pc # "race"
IdleIsFresh == \A t \in AllTasks : exec[t] = "idle" => t \notin executing
RacedIsTracked == pc = "race" => racing \subseteq executing
RestIsIdle == \A t \in pending \ started : exec[t] = "idle"
HandlersWait ==
    \A h \in Handlers : exec[h] # "idle" =>
        Processed(HandlerOf[h]) /\ outcome[HandlerOf[h]] \in Failures
EndedIsEmpty == Ended => executing = {}
MapInv ==
    Tracked /\ StartedRan /\ FirstStart /\ IdleIsFresh /\ RacedIsTracked /\ RestIsIdle
        /\ HandlersWait /\ EndedIsEmpty

\* Handlers are scheduled for the first time.
LEMMA ScheduledAreIdle ==
    ASSUME TypeOK, MapInv, NEW t \in AllTasks, SettledStep(t), NEW h \in Scheduled(t)
    PROVE  h \in Handlers /\ h \in AllTasks /\ h # t /\ exec[h] = "idle" /\ h \notin Tasks /\ h \notin Calls
           /\ HandlerOf[h] = t /\ outcome[t] \in Failures
<1>1. h \in HandlersFor(t) /\ SchedulesHandler(t)
  BY DEF Scheduled
<1>2. h \in Handlers /\ h \in AllTasks /\ h # t /\ h \notin Tasks /\ h \notin Calls /\ HandlerOf[h] = t
  BY <1>1, TasksAssumption DEF HandlersFor, AllTasks
<1>3. t \in executing
  BY DEF SettledStep, MapInv, RacedIsTracked
<1>4. exec[h] = "idle"
  BY <1>2, <1>3 DEF MapInv, HandlersWait, Processed
<1> QED
  BY <1>1, <1>2, <1>4 DEF SchedulesHandler

\* Only idle tasks are launched; the others stay as they are.
LEMMA LaunchedTasks ==
    ASSUME TypeOK, NEW S, Launch(S), S \subseteq AllTasks, \A u \in S : exec[u] = "idle"
    PROVE  /\ \A u \in AllTasks : u \notin S => exec'[u] = exec[u] /\ outcome'[u] = outcome[u]
                                               /\ sawAbort'[u] = sawAbort[u]
           /\ \A u \in S : \/ exec'[u] = "running" /\ outcome'[u] = outcome[u]
                           \/ exec'[u] = "settled" /\ outcome'[u] = "ok" /\ Aborted(u)
           /\ \A u \in AllTasks : exec[u] # "idle" => exec'[u] = exec[u] /\ outcome'[u] = outcome[u]
<1>1. \A u \in AllTasks : u \notin S => exec'[u] = exec[u] /\ outcome'[u] = outcome[u]
                                       /\ sawAbort'[u] = sawAbort[u]
  BY Zenon DEF Launch, TypeOK
<1>2. \A u \in S : \/ exec'[u] = "running" /\ outcome'[u] = outcome[u]
                   \/ exec'[u] = "settled" /\ outcome'[u] = "ok" /\ Aborted(u)
  BY DEF Launch
<1> QED
  BY <1>1, <1>2

LEMMA MapKept == ASSUME TypeOK, MapInv, [Next]_vars PROVE MapInv'
<1> USE Parts DEF MapInv
<1>1. ASSUME NEW t \in AllTasks, OwnStep(t) PROVE MapInv'
  <2>1. /\ UNCHANGED <<pc, pending, started, executing, racing, result>>
        /\ \A u \in AllTasks : u # t => exec'[u] = exec[u] /\ outcome'[u] = outcome[u]
        /\ exec[t] \notin {"idle", "settled"} /\ exec'[t] # "idle" /\ t \in executing
    BY <1>1 DEF OwnStep, SameTask, tickVars, raceVars, Tracked
  <2>2. \A u \in AllTasks : exec'[u] = "idle" <=> exec[u] = "idle"
    BY <2>1
  <2>3. Tracked' /\ StartedRan' /\ FirstStart' /\ IdleIsFresh' /\ RacedIsTracked' /\ RestIsIdle'
    BY <2>1, <2>2 DEF Tracked, StartedRan, FirstStart, IdleIsFresh, RacedIsTracked, RestIsIdle, TypeOK
  <2>4. HandlersWait'
    <3> SUFFICES ASSUME NEW h \in Handlers, exec'[h] # "idle"
                 PROVE  exec'[HandlerOf[h]] # "idle" /\ HandlerOf[h] \notin executing'
                        /\ outcome'[HandlerOf[h]] \in Failures
      BY DEF HandlersWait, Processed
    <3>1. HandlerOf[h] \in AllTasks /\ h \in AllTasks
      BY TasksAssumption DEF AllTasks
    <3>2. Processed(HandlerOf[h]) /\ outcome[HandlerOf[h]] \in Failures
      BY <2>2, <3>1 DEF HandlersWait
    <3> QED
      BY <2>1, <3>1, <3>2 DEF Processed
  <2>5. EndedIsEmpty'
    BY <2>1 DEF EndedIsEmpty, Ended
  <2> QED
    BY <2>3, <2>4, <2>5
<1>2. ASSUME NEW S \in SUBSET (pending \ started), FillStep(S) PROVE MapInv'
  <2>1. S \subseteq AllTasks /\ S \subseteq Tasks /\ \A u \in S : exec[u] = "idle"
    BY DEF TypeOK, RestIsIdle
  <2>2. /\ \A u \in AllTasks : u \notin S => exec'[u] = exec[u] /\ outcome'[u] = outcome[u]
        /\ \A u \in S : exec'[u] # "idle"
    BY <1>2, <2>1, LaunchedTasks DEF FillStep
  <2>3. /\ pc = "fill" /\ pc' = "race" /\ pending' = pending /\ LoopAgain /\ Fills(S)
        /\ started' = started \cup S /\ executing' = executing \cup S /\ racing' = executing \cup S
    BY <1>2 DEF FillStep, tickVars
  <2>4. Tracked' /\ StartedRan' /\ IdleIsFresh' /\ RacedIsTracked' /\ RestIsIdle'
    BY <2>1, <2>2, <2>3 DEF Tracked, StartedRan, IdleIsFresh, RacedIsTracked, RestIsIdle, TypeOK
  <2>5. FirstStart'
    <3>1. ASSUME started = {}, S = {} PROVE FALSE
      <4>1. executing = {} /\ pending # {}
        BY <2>3, <3>1 DEF FirstStart, LoopAgain
      <4>2. executing \cup S = {} /\ S # pending \ started
        BY <3>1, <4>1
      <4>3. Cardinality({}) >= MaxConcurrency
        BY <2>3, <4>2 DEF Fills
      <4> QED
        BY <4>3, FS_EmptySet, LimitsAssumption
    <3> QED
      BY <2>3, <3>1 DEF FirstStart
  <2>6. HandlersWait'
    <3> SUFFICES ASSUME NEW h \in Handlers, exec'[h] # "idle"
                 PROVE  exec'[HandlerOf[h]] # "idle" /\ HandlerOf[h] \notin executing'
                        /\ outcome'[HandlerOf[h]] \in Failures
      BY DEF HandlersWait, Processed
    <3>1. HandlerOf[h] \in AllTasks /\ h \in AllTasks /\ h \notin S
      BY <2>1, TasksAssumption DEF AllTasks
    <3>2. Processed(HandlerOf[h]) /\ outcome[HandlerOf[h]] \in Failures
      BY <2>2, <3>1 DEF HandlersWait
    <3>3. HandlerOf[h] \notin S
      BY <2>1, <3>2 DEF Processed
    <3> QED
      BY <2>2, <2>3, <3>1, <3>2, <3>3 DEF Processed
  <2>7. EndedIsEmpty'
    BY <2>3 DEF EndedIsEmpty, Ended
  <2> QED
    BY <2>4, <2>5, <2>6, <2>7
<1>3. ASSUME NEW t \in AllTasks, SettledStep(t) PROVE MapInv'
  <2> DEFINE S == Scheduled(t)
  <2>1. \A u \in S : u \in AllTasks /\ u # t /\ exec[u] = "idle" /\ u \notin Tasks /\ u \in Handlers
                     /\ HandlerOf[u] = t /\ outcome[t] \in Failures
    BY <1>3, ScheduledAreIdle
  <2>2. Launch(S)
    BY <1>3 DEF SettledStep
  <2>3. /\ pc = "race" /\ pc' = "fill" /\ exec[t] = "settled" /\ t \in racing
        /\ executing' = (executing \cup S) \ {t} /\ UNCHANGED <<pending, started, racing, result>>
    BY <1>3 DEF SettledStep
  <2> HIDE DEF S
  <2>4. /\ \A u \in AllTasks : u \notin S => exec'[u] = exec[u] /\ outcome'[u] = outcome[u]
        /\ \A u \in S : exec'[u] # "idle"
    BY <2>1, <2>2, LaunchedTasks
  <2>5. t \notin S /\ t \in executing /\ S \subseteq AllTasks
    BY <2>1, <2>3 DEF RacedIsTracked
  <2>6. Tracked' /\ StartedRan' /\ FirstStart' /\ IdleIsFresh' /\ RacedIsTracked' /\ RestIsIdle'
    BY <2>1, <2>3, <2>4, <2>5
    DEF Tracked, StartedRan, FirstStart, IdleIsFresh, RacedIsTracked, RestIsIdle, TypeOK
  <2>7. HandlersWait'
    <3> SUFFICES ASSUME NEW h \in Handlers, exec'[h] # "idle"
                 PROVE  exec'[HandlerOf[h]] # "idle" /\ HandlerOf[h] \notin executing'
                        /\ outcome'[HandlerOf[h]] \in Failures
      BY DEF HandlersWait, Processed
    <3>1. HandlerOf[h] \in AllTasks /\ HandlerOf[h] \in Tasks /\ h \in AllTasks
      BY TasksAssumption DEF AllTasks
    <3>2. CASE h \in S
      BY <2>1, <2>3, <2>4, <2>5, <3>2
    <3>3. CASE h \notin S
      <4>1. Processed(HandlerOf[h]) /\ outcome[HandlerOf[h]] \in Failures
        BY <2>4, <3>1, <3>3 DEF HandlersWait
      <4>2. HandlerOf[h] \notin S
        BY <2>1, <3>1
      <4> QED
        BY <2>3, <2>4, <3>1, <4>1, <4>2 DEF Processed
    <3> QED
      BY <3>2, <3>3
  <2>8. EndedIsEmpty'
    BY <2>3 DEF EndedIsEmpty, Ended
  <2> QED
    BY <2>6, <2>7, <2>8
<1>4. ASSUME NEW c \in Calls, CallStep(c) PROVE MapInv'
  <2> DEFINE t == Caller[c]
  <2>1. /\ t \in AllTasks /\ c \in AllTasks /\ c \notin Tasks /\ c \notin Handlers /\ t \in executing
        /\ exec[t] = "running" /\ exec'[t] \in {"awaiting", "running"} /\ exec[c] = "idle" /\ exec'[c] = "running"
        /\ \A u \in AllTasks : u # c /\ u # t => exec'[u] = exec[u]
        /\ pc \in {"fill", "race"}
    BY <1>4, TasksAssumption DEF CallStep, Running, Tracked, AllTasks
  <2>2. /\ executing' = executing \cup {c}
        /\ UNCHANGED <<pc, pending, started, racing, outcome, result>>
    BY <1>4 DEF CallStep, tickVars
  <2> HIDE DEF t
  <2>3. \A u \in AllTasks : u # c => (exec'[u] = "idle" <=> exec[u] = "idle")
    BY <2>1
  <2>4. Tracked' /\ IdleIsFresh' /\ RacedIsTracked' /\ EndedIsEmpty' /\ FirstStart'
    BY <2>1, <2>2, <2>3 DEF Tracked, IdleIsFresh, RacedIsTracked, EndedIsEmpty, Ended, FirstStart, TypeOK
  <2>5. StartedRan' /\ RestIsIdle'
    <3>1. \A u \in pending : u \in AllTasks /\ u # c
      BY <2>1 DEF TypeOK
    <3> QED
      BY <2>2, <2>3, <3>1 DEF StartedRan, RestIsIdle, TypeOK
  <2>6. HandlersWait'
    <3> SUFFICES ASSUME NEW h \in Handlers, exec'[h] # "idle"
                 PROVE  exec'[HandlerOf[h]] # "idle" /\ HandlerOf[h] \notin executing'
                        /\ outcome'[HandlerOf[h]] \in Failures
      BY DEF HandlersWait, Processed
    <3>1. HandlerOf[h] \in AllTasks /\ HandlerOf[h] # c /\ h # c /\ h \in AllTasks
      BY <2>1, TasksAssumption DEF AllTasks
    <3>2. Processed(HandlerOf[h]) /\ outcome[HandlerOf[h]] \in Failures
      BY <2>3, <3>1 DEF HandlersWait
    <3> QED
      BY <2>2, <2>3, <3>1, <3>2 DEF Processed
  <2> QED
    BY <2>4, <2>5, <2>6
<1>5. CASE LoopStep
  <2>1. UNCHANGED <<pending, started, executing, racing, exec, outcome>>
    BY <1>5 DEF LoopStep, tickVars, taskVars
  <2>2. Tracked' /\ StartedRan' /\ IdleIsFresh' /\ RestIsIdle' /\ HandlersWait'
    BY <2>1 DEF Tracked, StartedRan, IdleIsFresh, RestIsIdle, HandlersWait, Processed
  <2>3. pc' = "race" => pc = "race"
    BY <1>5 DEF LoopStep
  <2>4. FirstStart' /\ RacedIsTracked'
    BY <2>1, <2>3 DEF FirstStart, RacedIsTracked
  <2>5. EndedIsEmpty'
    <3>1. pc = "fill" /\ ~LoopAgain => executing = {}
      BY DEF LoopAgain, FirstStart, TypeOK
    <3> QED
      BY <1>5, <2>1, <3>1 DEF LoopStep, EndedIsEmpty, Ended
  <2> QED
    BY <2>2, <2>4, <2>5
<1> QED
  BY <1>1, <1>2, <1>3, <1>4, <1>5, Steps

LEMMA InitHasMap == Init => MapInv
  BY DEF Init, MapInv, Tracked, StartedRan, FirstStart, IdleIsFresh, RacedIsTracked, RestIsIdle,
         HandlersWait, EndedIsEmpty, Ended, AllTasks

LEMMA MapHolds == Spec => []MapInv
<1>1. TypeOK /\ MapInv /\ [Next]_vars => MapInv'
  BY MapKept
<1> QED
  BY <1>1, InitHasMap, TypeCorrect, PTL DEF Spec

-----------------------------------------------------------------------------
\* With room for two, a race for which tasks are left over is a full one, so
\* the map never runs empty while a task is still to be started.
RaceIsFull == pc = "race" /\ started # pending => Cardinality(executing) >= MaxConcurrency
MapNotEmpty == pc = "fill" /\ started # {} /\ started # pending => executing # {}
AllStarted == Ended => started = pending
RoomInv == RaceIsFull /\ MapNotEmpty /\ AllStarted

\* Two executing tasks do not become none by deleting one.
LEMMA OneIsLeft ==
    ASSUME NEW S, IsFiniteSet(S), Cardinality(S) >= 2, NEW t PROVE S \ {t} # {}
<1>1. Cardinality(S) \in Nat /\ Cardinality({}) = 0
  BY FS_CardinalityType, FS_EmptySet
<1> QED
  BY <1>1, FS_RemoveElement

\* The map only grows but for the task that settled.
LEMMA GrowsCardinality ==
    ASSUME TypeOK, NEW S, S \subseteq AllTasks, executing \subseteq S
    PROVE  Cardinality(executing) <= Cardinality(S)
           /\ Cardinality(executing) \in Nat /\ Cardinality(S) \in Nat
<1>1. IsFiniteSet(S)
  BY AllTasksFinite, FS_Subset
<1> QED
  BY <1>1, FS_Subset, FS_CardinalityType

LEMMA FullRaceIsRace == TypeOK /\ RaceIsFull /\ pc = "race" /\ started # pending => executing # {}
<1> SUFFICES ASSUME RaceIsFull, pc = "race", started # pending, executing = {} PROVE FALSE
  OBVIOUS
<1>1. Cardinality({}) >= MaxConcurrency
  BY DEF RaceIsFull
<1> QED
  BY <1>1, FS_EmptySet, LimitsAssumption

LEMMA RoomKept ==
    ASSUME TypeOK, MapInv, RoomInv, MaxConcurrency >= 2, [Next]_vars PROVE RoomInv'
<1> USE DEF RoomInv
<1>1. ASSUME NEW t \in AllTasks, OwnStep(t) PROVE RoomInv'
  BY <1>1 DEF OwnStep, RaceIsFull, MapNotEmpty, AllStarted, Ended, tickVars, raceVars
<1>2. ASSUME NEW S \in SUBSET (pending \ started), FillStep(S) PROVE RoomInv'
  <2>1. /\ pc' = "race" /\ pending' = pending /\ Fills(S)
        /\ started' = started \cup S /\ executing' = executing \cup S
    BY <1>2 DEF FillStep, tickVars
  <2>2. RaceIsFull'
    BY <2>1 DEF RaceIsFull, Fills, TypeOK
  <2> QED
    BY <2>1, <2>2 DEF MapNotEmpty, AllStarted, Ended
<1>3. ASSUME NEW t \in AllTasks, SettledStep(t) PROVE RoomInv'
  <2>1. /\ pc = "race" /\ pc' = "fill" /\ UNCHANGED <<pending, started>>
        /\ executing \ {t} \subseteq executing'
    BY <1>3 DEF SettledStep
  <2>2. ASSUME started # pending PROVE executing \ {t} # {}
    <3>1. IsFiniteSet(executing)
      BY AllTasksFinite, FS_Subset DEF TypeOK
    <3>2. Cardinality(executing) >= 2
      BY <2>1, <2>2, <3>1, FS_CardinalityType, LimitsAssumption DEF RaceIsFull
    <3> QED
      BY <3>1, <3>2, OneIsLeft
  <2> QED
    BY <2>1, <2>2 DEF RaceIsFull, MapNotEmpty, AllStarted, Ended
<1>4. ASSUME NEW c \in Calls, CallStep(c) PROVE RoomInv'
  <2>1. /\ UNCHANGED <<pc, pending, started, result>> /\ executing' = executing \cup {c} /\ c \in AllTasks
        /\ pc \in {"fill", "race"}
    BY <1>4, Parts DEF CallStep, Running, tickVars
  <2>2. Cardinality(executing) <= Cardinality(executing') /\ Cardinality(executing) \in Nat
        /\ Cardinality(executing') \in Nat
    BY <2>1, GrowsCardinality DEF TypeOK
  <2>3. RaceIsFull'
    BY <2>1, <2>2, LimitsAssumption DEF RaceIsFull
  <2> QED
    BY <2>1, <2>3 DEF MapNotEmpty, AllStarted, Ended
<1>5. CASE LoopStep
  <2>1. UNCHANGED <<pending, started, executing>>
    BY <1>5 DEF LoopStep, tickVars
  <2>2. pc = "fill" /\ ~LoopAgain => started = pending
    BY DEF LoopAgain, MapNotEmpty, TypeOK
  <2>3. RaceIsFull' /\ MapNotEmpty'
    BY <1>5, <2>1, FullRaceIsRace DEF LoopStep, RaceIsFull, MapNotEmpty
  <2>4. AllStarted'
    BY <1>5, <2>1, <2>2 DEF LoopStep, AllStarted, Ended
  <2> QED
    BY <2>3, <2>4
<1> QED
  BY <1>1, <1>2, <1>3, <1>4, <1>5, Steps

LEMMA WaitedFor == TypeOK /\ MapInv /\ AllStarted => NothingLeftBehind
  BY DEF TypeOK, MapInv, Tracked, StartedRan, EndedIsEmpty, AllStarted, NothingLeftBehind, Ended, AllTasks

\* With maxConcurrency of at least two, the tick that was not aborted has
\* waited for every pending task, every call and every handler.
THEOREM WaitsForEverything == MaxConcurrency >= 2 /\ Spec => []NothingLeftBehind
<1> SUFFICES ASSUME MaxConcurrency >= 2 PROVE Spec => []NothingLeftBehind
  OBVIOUS
<1>1. Init => RoomInv
  BY DEF Init, RoomInv, RaceIsFull, MapNotEmpty, AllStarted, Ended
<1>2. TypeOK /\ MapInv /\ RoomInv /\ [Next]_vars => RoomInv'
  BY RoomKept
<1>3. TypeOK /\ MapInv /\ RoomInv => NothingLeftBehind
  BY WaitedFor DEF RoomInv
<1> QED
  BY <1>1, <1>2, <1>3, TypeCorrect, MapHolds, PTL DEF Spec

-----------------------------------------------------------------------------
\* What the retry loop keeps to, task by task: no more attempts than the policy
\* allows, all writes from one attempt, an outcome only once the node has ended,
\* and an AbortError only under a signal that has fired.
AttemptsFit(t) ==
    IF exec[t] = "settled" THEN attempts[t] <= MaxAttempts[t] ELSE attempts[t] < MaxAttempts[t]
WritesFit(t) ==
    /\ writes[t] \subseteq {DATA, RESUME} \X Nat
    /\ \A v, w \in writes[t] : v[2] = w[2]
NotEndedFits(t) ==
    exec[t] \in {"idle", "running", "awaiting"} => writes[t] = {} /\ outcome[t] = "none"
OkFits(t) == outcome[t] = "ok" => t \in completed \/ extAborted \/ excAborted
AbortSeen(t) == outcome[t] = "abortError" => Aborted(t) /\ (exec[t] = "settled" => sawAbort[t])
TaskFits(t) == AttemptsFit(t) /\ WritesFit(t) /\ NotEndedFits(t) /\ OkFits(t) /\ AbortSeen(t)

\* An error is some task's own, and its owner failed in the same way.
CauseFits(t) ==
    outcome[t] \in Failures \cup BubbleUps =>
        /\ cause[t] \in AllTasks /\ outcome[cause[t]] = outcome[t]
        /\ cause[t] = t \/ exec[cause[t]] = "settled"
RunInv == \A t \in AllTasks : TaskFits(t) /\ CauseFits(t)

\* Signals stay fired and completed nodes stay completed.
LEMMA HistoryGrows ==
    ASSUME TypeOK, [Next]_vars
    PROVE  /\ completed \subseteq completed'
           /\ extAborted => extAborted'
           /\ excAborted => excAborted'
<1>1. ASSUME NEW t \in AllTasks, OwnStep(t)
      PROVE  completed \subseteq completed' /\ UNCHANGED <<extAborted, excAborted>>
  BY <1>1 DEF OwnStep, abortVars
<1>2. ASSUME NEW S, FillStep(S) PROVE UNCHANGED <<completed, extAborted, excAborted>>
  BY <1>2 DEF FillStep, abortVars
<1>3. ASSUME NEW t \in AllTasks, SettledStep(t)
      PROVE  UNCHANGED <<completed, extAborted>> /\ (excAborted => excAborted')
  <2>1. excAborted' = TRUE \/ excAborted' = excAborted
    BY <1>3 DEF SettledStep, Report
  <2> QED
    BY <1>3, <2>1 DEF SettledStep
<1>4. ASSUME NEW c \in Calls, CallStep(c) PROVE UNCHANGED <<completed, extAborted, excAborted>>
  BY <1>4 DEF CallStep, abortVars
<1>5. CASE LoopStep
  BY <1>5 DEF LoopStep, taskVars
<1> QED
  BY <1>1, <1>2, <1>3, <1>4, <1>5, Steps

LEMMA AbortedStays ==
    ASSUME TypeOK, [Next]_vars, NEW t \in AllTasks PROVE Aborted(t) => Aborted(t)'
  BY HistoryGrows DEF Aborted

\* A task that a step leaves alone.
LEMMA SameTaskFits ==
    ASSUME TypeOK, [Next]_vars, NEW t \in AllTasks, TaskFits(t), SameTask(t) PROVE TaskFits(t)'
<1>1. Aborted(t) => Aborted(t)'
  BY AbortedStays
<1>2. AttemptsFit(t)' /\ WritesFit(t)' /\ NotEndedFits(t)'
  BY DEF TaskFits, SameTask, AttemptsFit, WritesFit, NotEndedFits
<1>3. OkFits(t)'
  BY HistoryGrows DEF TaskFits, SameTask, OkFits
<1>4. AbortSeen(t)'
  BY <1>1 DEF TaskFits, SameTask, AbortSeen
<1> QED
  BY <1>2, <1>3, <1>4 DEF TaskFits

\* What an invocation writes bears its own attempt.
LEMMA WroteFits ==
    ASSUME TypeOK, NEW t \in AllTasks, writes[t] = {}, Wrote(t) PROVE WritesFit(t)'
<1>1. PICK W \in {{}, {DATA}, {DATA, RESUME}} :
         writes' = [writes EXCEPT ![t] = @ \cup (W \X {attempts[t]})]
  BY DEF Wrote
<1>2. writes'[t] = W \X {attempts[t]} /\ W \subseteq {DATA, RESUME} /\ attempts[t] \in Nat
  BY <1>1 DEF TypeOK
<1> QED
  BY <1>2 DEF WritesFit

LEMMA SettledFits ==
    ASSUME TypeOK, NEW t \in AllTasks, NEW o, NEW e, Settle(t, o, e)
    PROVE  exec'[t] = "settled" /\ outcome'[t] = o /\ cause'[t] = e /\ (Aborted(t) => sawAbort'[t])
<1>1. exec'[t] = "settled" /\ outcome'[t] = o /\ cause'[t] = e
  BY DEF Settle, TypeOK
<1>2. Aborted(t) => sawAbort'[t]
  BY Zenon DEF Settle, TypeOK
<1> QED
  BY <1>1, <1>2

LEMMA OwnActionFits ==
    ASSUME TypeOK, NEW t \in AllTasks, TaskFits(t), [Next]_vars, OwnAction(t) PROVE TaskFits(t)'
<1>0. attempts[t] \in Nat /\ MaxAttempts[t] \in Nat /\ (Aborted(t) => Aborted(t)')
  BY LimitsAssumption, AbortedStays DEF TypeOK
<1>1. CASE CallReturned(t)
  <2>1. exec[t] = "awaiting" /\ exec'[t] = "running" /\ UNCHANGED <<attempts, outcome, writes>>
    BY <1>1 DEF CallReturned, TypeOK
  <2> QED
    BY <2>1 DEF TaskFits, AttemptsFit, WritesFit, NotEndedFits, OkFits, AbortSeen
<1>2. CASE Complete(t)
  <2>1. Settle(t, "ok", None) /\ Wrote(t) /\ exec[t] = "running" /\ attempts' = attempts /\ t \in completed'
    BY <1>2 DEF Complete, Running
  <2>2. exec'[t] = "settled" /\ outcome'[t] = "ok"
    BY <2>1, SettledFits
  <2>3. WritesFit(t)'
    BY <2>1, WroteFits DEF TaskFits, NotEndedFits
  <2> QED
    BY <1>0, <2>1, <2>2, <2>3 DEF TaskFits, AttemptsFit, NotEndedFits, OkFits, AbortSeen
<1>3. CASE Retry(t)
  <2>1. CASE Aborted(t)
    <3>1. exec'[t] = "settled" /\ UNCHANGED <<attempts, outcome, writes>> /\ exec[t] = "backoff"
      BY <1>3, <2>1 DEF Retry, TypeOK
    <3>2. sawAbort'[t]
      BY <1>3, <2>1, Zenon DEF Retry, TypeOK
    <3>3. AttemptsFit(t)' /\ WritesFit(t)' /\ NotEndedFits(t)'
      BY <1>0, <3>1 DEF TaskFits, AttemptsFit, WritesFit, NotEndedFits
    <3>4. OkFits(t)'
      BY <3>1, HistoryGrows DEF TaskFits, OkFits
    <3>5. AbortSeen(t)'
      BY <1>0, <2>1, <3>2 DEF AbortSeen
    <3> QED
      BY <3>3, <3>4, <3>5 DEF TaskFits
  <2>2. CASE ~Aborted(t)
    <3>1. /\ exec[t] = "backoff" /\ exec'[t] = "running" /\ attempts' = attempts
          /\ outcome'[t] = "none" /\ writes'[t] = {}
      BY <1>3, <2>2 DEF Retry, Cleared, TypeOK
    <3> QED
      BY <3>1 DEF TaskFits, AttemptsFit, WritesFit, NotEndedFits, OkFits, AbortSeen
  <2> QED
    BY <2>1, <2>2
<1>4. ASSUME NEW o \in BubbleUps, BubbleUp(t, o) PROVE TaskFits(t)'
  <2>1. PICK e \in Thrown(t, o) : Settle(t, o, e)
    BY <1>4 DEF BubbleUp
  <2>2. Wrote(t) /\ exec[t] = "running" /\ attempts' = attempts
    BY <1>4 DEF BubbleUp, Running
  <2>3. exec'[t] = "settled" /\ outcome'[t] = o /\ o # "ok" /\ o # "abortError"
    BY <2>1, SettledFits DEF BubbleUps
  <2>4. WritesFit(t)'
    BY <2>2, WroteFits DEF TaskFits, NotEndedFits
  <2> QED
    BY <1>0, <2>2, <2>3, <2>4 DEF TaskFits, AttemptsFit, NotEndedFits, OkFits, AbortSeen
<1>5. ASSUME NEW o \in Failures, Throw(t, o) PROVE TaskFits(t)'
  <2>1. /\ Wrote(t) /\ exec[t] = "running" /\ attempts'[t] = attempts[t] + 1 /\ o # "ok"
        /\ o = "abortError" => Aborted(t)
    BY <1>5 DEF Throw, Running, TypeOK, Failures
  <2>2. WritesFit(t)'
    BY <2>1, WroteFits DEF TaskFits, NotEndedFits
  <2>3. PICK e \in Thrown(t, o) :
           \/ /\ attempts[t] + 1 < MaxAttempts[t]
              /\ exec' = [exec EXCEPT ![t] = "backoff"]
              /\ outcome' = [outcome EXCEPT ![t] = o]
           \/ Settle(t, o, e)
    BY <1>5 DEF Throw
  <2>4. CASE Settle(t, o, e)
    <3>1. exec'[t] = "settled" /\ outcome'[t] = o /\ (Aborted(t) => sawAbort'[t])
      BY <2>4, SettledFits
    <3> QED
      BY <1>0, <2>1, <2>2, <3>1 DEF TaskFits, AttemptsFit, NotEndedFits, OkFits, AbortSeen
  <2>5. CASE ~Settle(t, o, e)
    <3>1. exec'[t] = "backoff" /\ outcome'[t] = o /\ attempts[t] + 1 < MaxAttempts[t]
      BY <2>3, <2>5 DEF TypeOK
    <3> QED
      BY <1>0, <2>1, <2>2, <3>1 DEF TaskFits, AttemptsFit, NotEndedFits, OkFits, AbortSeen
  <2> QED
    BY <2>4, <2>5
<1> QED
  BY <1>1, <1>2, <1>3, <1>4, <1>5 DEF OwnAction

\* A called task that rejected hands on an error that is settled.
LEMMA ThrownFits ==
    ASSUME TypeOK, RunInv, NEW t \in AllTasks, exec[t] # "settled", NEW o \in Failures \cup BubbleUps,
           NEW e \in Thrown(t, o)
    PROVE  e \in AllTasks /\ (e = t \/ (e # t /\ exec[e] = "settled" /\ outcome[e] = o))
<1>1. CASE e = t
  BY <1>1
<1>2. CASE e # t
  <2>1. PICK d \in CallsOf(t) : exec[d] = "settled" /\ outcome[d] = o /\ e = cause[d]
    BY <1>2 DEF Thrown
  <2>2. d \in AllTasks
    BY Parts DEF CallsOf
  <2>3. CauseFits(d)
    BY <2>2 DEF RunInv
  <2> QED
    BY <1>2, <2>1, <2>3 DEF CauseFits
<1> QED
  BY <1>1, <1>2

LEMMA OwnActionCauses ==
    ASSUME TypeOK, RunInv, NEW t \in AllTasks, OwnAction(t), OwnStep(t)
    PROVE  \A u \in AllTasks : CauseFits(u)'
<1>1. exec[t] \notin {"idle", "settled"} /\ \A u \in AllTasks : u # t => SameTask(u)
  BY DEF OwnStep
<1>2. ASSUME NEW u \in AllTasks, u # t PROVE CauseFits(u)'
  <2>1. CauseFits(u) /\ SameTask(u)
    BY <1>1, <1>2 DEF RunInv
  <2>2. ASSUME outcome[u] \in Failures \cup BubbleUps
        PROVE  cause[u] \in AllTasks /\ cause[u] # t /\ SameTask(cause[u])
    BY <1>1, <1>2, <2>1, <2>2 DEF CauseFits
  <2> QED
    BY <2>1, <2>2 DEF CauseFits, SameTask
<1>3. ASSUME NEW o \in Failures \cup BubbleUps, NEW e \in Thrown(t, o),
             outcome'[t] = o, cause'[t] = e
      PROVE  CauseFits(t)'
  <2>1. e \in AllTasks /\ (e = t \/ (e # t /\ exec[e] = "settled" /\ outcome[e] = o))
    BY <1>1, ThrownFits
  <2>2. e # t => SameTask(e)
    BY <1>1, <2>1
  <2> QED
    BY <1>3, <2>1, <2>2 DEF CauseFits, SameTask
<1>4. CASE CallReturned(t)
  <2>1. exec[t] = "awaiting" /\ outcome' = outcome
    BY <1>4 DEF CallReturned
  <2>2. outcome[t] = "none"
    BY <2>1 DEF RunInv, TaskFits, NotEndedFits
  <2> QED
    BY <1>2, <2>1, <2>2 DEF CauseFits, Failures, BubbleUps
<1>5. CASE Complete(t)
  <2>1. outcome'[t] = "ok"
    BY <1>5, SettledFits DEF Complete
  <2> QED
    BY <1>2, <2>1 DEF CauseFits, Failures, BubbleUps
<1>6. CASE Retry(t)
  <2>1. exec[t] = "backoff" /\ CauseFits(t)
    BY <1>6 DEF Retry, RunInv
  <2>2. CASE Aborted(t)
    <3>1. UNCHANGED <<outcome, cause>>
      BY <1>6, <2>2 DEF Retry
    <3>2. ASSUME outcome[t] \in Failures \cup BubbleUps PROVE cause[t] = t \/ SameTask(cause[t])
      BY <1>1, <2>1, <3>2 DEF CauseFits
    <3>3. CauseFits(t)'
      BY <2>1, <3>1, <3>2 DEF CauseFits, SameTask
    <3> QED
      BY <1>2, <3>3
  <2>3. CASE ~Aborted(t)
    <3>1. outcome'[t] = "none"
      BY <1>6, <2>3 DEF Retry, TypeOK
    <3> QED
      BY <1>2, <3>1 DEF CauseFits, Failures, BubbleUps
  <2> QED
    BY <2>2, <2>3
<1>7. ASSUME NEW o \in BubbleUps, BubbleUp(t, o) PROVE \A u \in AllTasks : CauseFits(u)'
  <2>1. PICK e \in Thrown(t, o) : Settle(t, o, e)
    BY <1>7 DEF BubbleUp
  <2>2. outcome'[t] = o /\ cause'[t] = e
    BY <2>1, SettledFits
  <2> QED
    BY <1>2, <1>3, <2>1, <2>2
<1>8. ASSUME NEW o \in Failures, Throw(t, o) PROVE \A u \in AllTasks : CauseFits(u)'
  <2>1. PICK e \in Thrown(t, o) :
           \/ outcome' = [outcome EXCEPT ![t] = o] /\ cause' = [cause EXCEPT ![t] = e]
           \/ Settle(t, o, e)
    BY <1>8 DEF Throw
  <2>2. outcome'[t] = o /\ cause'[t] = e
    BY <2>1, SettledFits DEF TypeOK
  <2> QED
    BY <1>2, <1>3, <2>1, <2>2
<1> QED
  BY <1>4, <1>5, <1>6, <1>7, <1>8 DEF OwnAction

\* Starting idle tasks leaves every cause that matters as it is.
LEMMA LaunchFits ==
    ASSUME TypeOK, RunInv, [Next]_vars, NEW S, Launch(S), S \subseteq AllTasks,
           \A u \in S : exec[u] = "idle", UNCHANGED <<attempts, cause, writes>>
    PROVE  RunInv'
<1>1. /\ \A u \in AllTasks : u \notin S => exec'[u] = exec[u] /\ outcome'[u] = outcome[u]
                                          /\ sawAbort'[u] = sawAbort[u]
      /\ \A u \in S : \/ exec'[u] = "running" /\ outcome'[u] = outcome[u]
                      \/ exec'[u] = "settled" /\ outcome'[u] = "ok" /\ Aborted(u)
      /\ \A u \in AllTasks : exec[u] # "idle" => exec'[u] = exec[u] /\ outcome'[u] = outcome[u]
  BY LaunchedTasks
<1>2. \A u \in AllTasks : TaskFits(u) /\ CauseFits(u)
  BY DEF RunInv
<1>3. ASSUME NEW u \in AllTasks, u \notin S PROVE TaskFits(u)'
  <2>1. SameTask(u)
    BY <1>1, <1>3 DEF SameTask
  <2> QED
    BY <1>2, <2>1, SameTaskFits
<1>4. ASSUME NEW u \in S PROVE TaskFits(u)' /\ outcome'[u] \in {"none", "ok"}
  <2>1. /\ u \in AllTasks /\ exec[u] = "idle" /\ writes'[u] = {} /\ attempts'[u] < MaxAttempts[u]
        /\ attempts'[u] \in Nat /\ MaxAttempts[u] \in Nat
    BY <1>2, LimitsAssumption DEF TaskFits, AttemptsFit, NotEndedFits, TypeOK
  <2>2. outcome[u] = "none"
    BY <1>2, <2>1 DEF TaskFits, NotEndedFits
  <2>3. CASE exec'[u] = "running" /\ outcome'[u] = outcome[u]
    BY <2>1, <2>2, <2>3 DEF TaskFits, AttemptsFit, WritesFit, NotEndedFits, OkFits, AbortSeen
  <2>4. CASE exec'[u] = "settled" /\ outcome'[u] = "ok" /\ Aborted(u)
    <3>1. OkFits(u)'
      BY <2>4, HistoryGrows DEF Aborted, OkFits
    <3> QED
      BY <2>1, <2>4, <3>1 DEF TaskFits, AttemptsFit, WritesFit, NotEndedFits, AbortSeen
  <2> QED
    BY <1>1, <2>3, <2>4
<1>5. ASSUME NEW u \in AllTasks PROVE CauseFits(u)'
  <2>1. CASE u \in S
    BY <1>4, <2>1 DEF CauseFits, Failures, BubbleUps
  <2>2. CASE u \notin S
    <3>1. CauseFits(u) /\ outcome'[u] = outcome[u] /\ cause'[u] = cause[u]
      BY <1>1, <1>2, <2>2
    <3>2. ASSUME cause[u] \in AllTasks, cause[u] = u \/ exec[cause[u]] = "settled"
          PROVE  exec'[cause[u]] = exec[cause[u]] /\ outcome'[cause[u]] = outcome[cause[u]]
      BY <1>1, <2>2, <3>2
    <3> QED
      BY <3>1, <3>2 DEF CauseFits
  <2> QED
    BY <2>1, <2>2
<1> QED
  BY <1>3, <1>4, <1>5 DEF RunInv

LEMMA RunKept == ASSUME TypeOK, MapInv, RunInv, [Next]_vars PROVE RunInv'
<1>0. \A u \in AllTasks : TaskFits(u) /\ CauseFits(u)
  BY DEF RunInv
<1>1. ASSUME NEW t \in AllTasks, OwnAction(t), OwnStep(t) PROVE RunInv'
  <2>1. \A u \in AllTasks : TaskFits(u)'
    <3> SUFFICES ASSUME NEW u \in AllTasks PROVE TaskFits(u)'
      OBVIOUS
    <3>1. CASE u = t
      BY <1>0, <1>1, <3>1, OwnActionFits
    <3>2. CASE u # t
      <4>1. SameTask(u)
        BY <1>1, <3>2 DEF OwnStep
      <4> QED
        BY <1>0, <4>1, SameTaskFits
    <3> QED
      BY <3>1, <3>2
  <2>2. \A u \in AllTasks : CauseFits(u)'
    BY <1>1, OwnActionCauses
  <2> QED
    BY <2>1, <2>2 DEF RunInv
<1>2. ASSUME NEW S \in SUBSET (pending \ started), FillStep(S) PROVE RunInv'
  <2>1. S \subseteq AllTasks /\ \A u \in S : exec[u] = "idle"
    BY Parts DEF TypeOK, MapInv, RestIsIdle
  <2> QED
    BY <1>2, <2>1, LaunchFits DEF FillStep
<1>3. ASSUME NEW t \in AllTasks, SettledStep(t) PROVE RunInv'
  <2>1. Scheduled(t) \subseteq AllTasks /\ \A u \in Scheduled(t) : exec[u] = "idle"
    BY <1>3, ScheduledAreIdle
  <2>2. Launch(Scheduled(t)) /\ UNCHANGED <<attempts, cause, writes>>
    BY <1>3 DEF SettledStep
  <2> QED
    BY <2>1, <2>2, LaunchFits
<1>4. ASSUME NEW c \in Calls, CallStep(c) PROVE RunInv'
  <2>1. /\ Caller[c] \in AllTasks /\ c \in AllTasks /\ exec[Caller[c]] = "running" /\ exec[c] = "idle"
        /\ exec'[c] = "running" /\ exec'[Caller[c]] \in {"awaiting", "running"}
        /\ \A u \in AllTasks : u # c /\ u # Caller[c] => exec'[u] = exec[u]
        /\ UNCHANGED <<attempts, outcome, cause, sawAbort, writes>>
    BY <1>4, Parts DEF CallStep, Running
  <2>2. ASSUME NEW u \in AllTasks PROVE TaskFits(u)'
    <3>1. CASE u = c \/ u = Caller[c]
      <4>1. /\ exec[u] \in {"idle", "running"} /\ exec'[u] \in {"running", "awaiting"}
            /\ outcome'[u] = "none"
        BY <1>0, <2>1, <3>1 DEF TaskFits, NotEndedFits
      <4> QED
        BY <1>0, <2>1, <4>1 DEF TaskFits, AttemptsFit, WritesFit, NotEndedFits, OkFits, AbortSeen
    <3>2. CASE u # c /\ u # Caller[c]
      <4>1. SameTask(u)
        BY <2>1, <3>2 DEF SameTask
      <4> QED
        BY <1>0, <4>1, SameTaskFits
    <3> QED
      BY <3>1, <3>2
  <2>3. \A u \in AllTasks : exec[u] = "settled" => exec'[u] = "settled"
    BY <2>1
  <2>4. \A u \in AllTasks : CauseFits(u)'
    BY <1>0, <2>1, <2>3 DEF CauseFits
  <2> QED
    BY <2>2, <2>4 DEF RunInv
<1>5. CASE LoopStep
  <2>1. UNCHANGED <<exec, attempts, outcome, cause, sawAbort, writes>>
    BY <1>5 DEF LoopStep, taskVars
  <2>2. ASSUME NEW u \in AllTasks PROVE TaskFits(u)' /\ CauseFits(u)'
    <3>1. SameTask(u)
      BY <2>1 DEF SameTask
    <3>2. CauseFits(u)'
      BY <1>0, <2>1 DEF CauseFits
    <3> QED
      BY <1>0, <3>1, <3>2, SameTaskFits
  <2> QED
    BY <2>2 DEF RunInv
<1> QED
  BY <1>1, <1>2, <1>3, <1>4, <1>5, Steps

LEMMA RunHolds == Spec => []RunInv
<1>1. Init => RunInv
  BY LimitsAssumption
  DEF Init, RunInv, TaskFits, CauseFits, AttemptsFit, WritesFit, NotEndedFits, OkFits, AbortSeen,
      Failures, BubbleUps
<1>2. TypeOK /\ MapInv /\ RunInv /\ [Next]_vars => RunInv'
  BY RunKept
<1> QED
  BY <1>1, <1>2, TypeCorrect, MapHolds, PTL DEF Spec

-----------------------------------------------------------------------------
\* What tick() has committed and reported: exactly the tasks that have left the
\* map, each with the writes its end calls for.
SavedFits == \A t \in AllTasks : saved[t] = IF Processed(t) THEN ToCommit(t) ELSE {}
HandledFit ==
    \A e \in handled : e \in AllTasks /\ exec[e] = "settled" /\ outcome[e] \in Failures \cup {"parentCommand"}
ErrorsFit ==
    \A e \in nodeErrors :
        /\ e \in AllTasks /\ exec[e] = "settled"
        /\ outcome[e] \in Failures \cup {"drained", "parentCommand"}
        /\ ~extAborted => outcome[e] # "abortError"
AbortHasReason == excAborted => nodeErrors # {}
Reported ==
    \A t \in AllTasks : Processed(t) =>
        /\ outcome[t] \in Failures => cause[t] \in handled \/ nodeErrors # {}
        /\ outcome[t] \in {"interrupt", "emptyInterrupt"} => bubbleUp = "interrupt"
        /\ outcome[t] = "drained" => bubbleUp \in {"interrupt", "drained", "parentCommand"}
ReturnedIsOk == pc = "returned" => Outcome = "ok" /\ result # "abort"
CommitInv == SavedFits /\ HandledFit /\ ErrorsFit /\ AbortHasReason /\ Reported /\ ReturnedIsOk

\* A settled task is never touched again.
LEMMA SettledStays ==
    ASSUME TypeOK, MapInv, [Next]_vars, NEW u \in AllTasks, exec[u] = "settled" PROVE SameTask(u)
<1>1. ASSUME NEW t \in AllTasks, OwnStep(t) PROVE SameTask(u)
  BY <1>1 DEF OwnStep
<1>2. ASSUME NEW S \in SUBSET (pending \ started), FillStep(S) PROVE SameTask(u)
  <2>1. S \subseteq AllTasks /\ (\A s \in S : exec[s] = "idle") /\ u \notin S
    BY Parts DEF TypeOK, MapInv, RestIsIdle
  <2>2. exec'[u] = exec[u] /\ outcome'[u] = outcome[u] /\ sawAbort'[u] = sawAbort[u]
    BY <1>2, <2>1, LaunchedTasks DEF FillStep
  <2> QED
    BY <1>2, <2>2 DEF FillStep, SameTask
<1>3. ASSUME NEW t \in AllTasks, SettledStep(t) PROVE SameTask(u)
  <2>1. Scheduled(t) \subseteq AllTasks /\ (\A s \in Scheduled(t) : exec[s] = "idle") /\ u \notin Scheduled(t)
    BY <1>3, ScheduledAreIdle
  <2>2. Launch(Scheduled(t))
    BY <1>3 DEF SettledStep
  <2>3. exec'[u] = exec[u] /\ outcome'[u] = outcome[u] /\ sawAbort'[u] = sawAbort[u]
    BY <2>1, <2>2, LaunchedTasks
  <2> QED
    BY <1>3, <2>3 DEF SettledStep, SameTask
<1>4. ASSUME NEW c \in Calls, CallStep(c) PROVE SameTask(u)
  <2>1. u # c /\ u # Caller[c]
    BY <1>4 DEF CallStep, Running
  <2> QED
    BY <1>4, <2>1 DEF CallStep, SameTask
<1>5. CASE LoopStep
  BY <1>5 DEF LoopStep, SameTask, taskVars
<1> QED
  BY <1>1, <1>2, <1>3, <1>4, <1>5, Steps

LEMMA SameCommit ==
    ASSUME NEW t \in AllTasks,
           writes'[t] = writes[t], outcome'[t] = outcome[t], attempts'[t] = attempts[t]
    PROVE  ToCommit(t)' = ToCommit(t)
  BY DEF ToCommit, ErrorWrites

LEMMA SavedKept == ASSUME TypeOK, MapInv, SavedFits, [Next]_vars PROVE SavedFits'
<1> SUFFICES ASSUME NEW u \in AllTasks
             PROVE  saved'[u] = IF Processed(u)' THEN ToCommit(u)' ELSE {}
  BY DEF SavedFits
<1>0. saved[u] = IF Processed(u) THEN ToCommit(u) ELSE {}
  BY DEF SavedFits
<1>s. exec[u] = "settled" => ToCommit(u)' = ToCommit(u) /\ exec'[u] = "settled"
  BY SettledStays, SameCommit DEF SameTask
<1>p. Processed(u) => exec[u] = "settled"
  BY DEF Processed, MapInv, Tracked
<1>1. ASSUME NEW t \in AllTasks, OwnStep(t)
      PROVE  saved'[u] = IF Processed(u)' THEN ToCommit(u)' ELSE {}
  <2>1. UNCHANGED <<saved, executing>> /\ t \in executing
    BY <1>1 DEF OwnStep, raceVars, MapInv, Tracked
  <2>2. Processed(u)' <=> Processed(u)
    BY <1>1, <2>1 DEF Processed, OwnStep, SameTask
  <2> QED
    BY <1>0, <1>s, <1>p, <2>1, <2>2
<1>2. ASSUME NEW S \in SUBSET (pending \ started), FillStep(S)
      PROVE  saved'[u] = IF Processed(u)' THEN ToCommit(u)' ELSE {}
  <2>1. S \subseteq AllTasks /\ \A s \in S : exec[s] = "idle"
    BY Parts DEF TypeOK, MapInv, RestIsIdle
  <2>2. u \notin S => exec'[u] = exec[u]
    BY <1>2, <2>1, LaunchedTasks DEF FillStep
  <2>3. saved' = saved /\ executing' = executing \cup S
    BY <1>2 DEF FillStep
  <2>4. Processed(u)' <=> Processed(u)
    BY <2>1, <2>2, <2>3 DEF Processed
  <2> QED
    BY <1>0, <1>s, <1>p, <2>3, <2>4
<1>3. ASSUME NEW t \in AllTasks, SettledStep(t)
      PROVE  saved'[u] = IF Processed(u)' THEN ToCommit(u)' ELSE {}
  <2>1. \A s \in Scheduled(t) : s \in AllTasks /\ s # t /\ exec[s] = "idle"
    BY <1>3, ScheduledAreIdle
  <2>2. /\ exec[t] = "settled" /\ Launch(Scheduled(t)) /\ saved' = [saved EXCEPT ![t] = ToCommit(t)]
        /\ executing' = (executing \cup Scheduled(t)) \ {t}
    BY <1>3 DEF SettledStep
  <2>3. u \notin Scheduled(t) => exec'[u] = exec[u]
    BY <2>1, <2>2, LaunchedTasks
  <2>4. CASE u = t
    <3>1. saved'[u] = ToCommit(u)
      BY <2>2, <2>4 DEF TypeOK
    <3>2. Processed(u)'
      BY <1>s, <2>2, <2>4 DEF Processed
    <3> QED
      BY <1>s, <2>2, <2>4, <3>1, <3>2
  <2>5. CASE u # t
    <3>1. saved'[u] = saved[u]
      BY <2>2, <2>5 DEF TypeOK
    <3>2. Processed(u)' <=> Processed(u)
      BY <2>1, <2>2, <2>3, <2>5 DEF Processed
    <3> QED
      BY <1>0, <1>s, <1>p, <3>1, <3>2
  <2> QED
    BY <2>4, <2>5
<1>4. ASSUME NEW c \in Calls, CallStep(c)
      PROVE  saved'[u] = IF Processed(u)' THEN ToCommit(u)' ELSE {}
  <2>1. /\ saved' = saved /\ executing' = executing \cup {c} /\ Caller[c] \in executing
        /\ exec[c] = "idle" /\ exec[Caller[c]] = "running" /\ exec'[Caller[c]] # "idle" /\ exec'[c] # "idle"
        /\ u # c /\ u # Caller[c] => exec'[u] = exec[u]
    BY <1>4, Parts DEF CallStep, Running, MapInv, Tracked
  <2>2. Processed(u)' <=> Processed(u)
    BY <2>1 DEF Processed
  <2> QED
    BY <1>0, <1>s, <1>p, <2>1, <2>2
<1>5. CASE LoopStep
  <2>1. UNCHANGED <<saved, executing, exec>>
    BY <1>5 DEF LoopStep, taskVars
  <2>2. Processed(u)' <=> Processed(u)
    BY <2>1 DEF Processed
  <2> QED
    BY <1>0, <1>s, <1>p, <2>1, <2>2
<1> QED
  BY <1>1, <1>2, <1>3, <1>4, <1>5, Steps

\* What the report of task t adds, and that it takes nothing back.
LEMMA ReportEffect ==
    ASSUME TypeOK, NEW t \in AllTasks, Report(t)
    PROVE  /\ handled \subseteq handled' /\ nodeErrors \subseteq nodeErrors'
           /\ \A e \in handled' : e \in handled \/ (e = cause[t] /\ MarksHandled(t))
           /\ \A e \in nodeErrors' :
                 e \in nodeErrors \/ (e = cause[t] /\ IsNodeError(t) /\ ~IsAbortNoise(t))
           /\ excAborted' => excAborted \/ nodeErrors' # {}
           /\ bubbleUp = "interrupt" => bubbleUp' = "interrupt"
           /\ bubbleUp \in {"interrupt", "drained", "parentCommand"}
                => bubbleUp' \in {"interrupt", "drained", "parentCommand"}
           /\ cause[t] \in handled' \/ (bubbleUp' = BubbleUpAfter(t) /\ (IsNodeError(t) => nodeErrors' # {}))
<1>1. handled \subseteq handled' /\ \A e \in handled' : e \in handled \/ (e = cause[t] /\ MarksHandled(t))
  BY DEF Report
<1>2. /\ nodeErrors \subseteq nodeErrors'
      /\ \A e \in nodeErrors' :
            e \in nodeErrors \/ (e = cause[t] /\ IsNodeError(t) /\ ~IsAbortNoise(t))
      /\ excAborted' => excAborted \/ nodeErrors' # {}
  BY DEF Report
<1>3. bubbleUp' = bubbleUp \/ bubbleUp' = BubbleUpAfter(t)
  BY DEF Report
<1>4. /\ bubbleUp = "interrupt" => BubbleUpAfter(t) = "interrupt"
      /\ bubbleUp \in {"interrupt", "drained", "parentCommand"}
           => BubbleUpAfter(t) \in {"interrupt", "drained", "parentCommand"}
  BY DEF BubbleUpAfter, YieldsToInterrupt
<1>5. cause[t] \in handled' \/ (bubbleUp' = BubbleUpAfter(t) /\ (IsNodeError(t) => nodeErrors' # {}))
  BY DEF Report, IsAbortNoise
<1> QED
  BY <1>1, <1>2, <1>3, <1>4, <1>5

\* The report of a settled task is of its own failure.
LEMMA ReportFits ==
    ASSUME TypeOK, RunInv, HandledFit, ErrorsFit, AbortHasReason,
           NEW t \in AllTasks, exec[t] = "settled", Report(t)
    PROVE  /\ \A e \in handled' :
                 /\ e \in AllTasks /\ exec[e] = "settled"
                 /\ outcome[e] \in Failures \cup {"parentCommand"}
           /\ \A e \in nodeErrors' :
                 /\ e \in AllTasks /\ exec[e] = "settled"
                 /\ outcome[e] \in Failures \cup {"drained", "parentCommand"}
                 /\ ~extAborted => outcome[e] # "abortError"
           /\ excAborted' => nodeErrors' # {}
           /\ outcome[t] \in Failures => cause[t] \in handled' \/ nodeErrors' # {}
           /\ outcome[t] \in {"interrupt", "emptyInterrupt"} => bubbleUp' = "interrupt"
           /\ outcome[t] = "drained" => bubbleUp' \in {"interrupt", "drained", "parentCommand"}
<1>1. CauseFits(t) /\ AbortSeen(t)
  BY DEF RunInv, TaskFits
<1>2. outcome[t] \in Failures \cup BubbleUps =>
        cause[t] \in AllTasks /\ outcome[cause[t]] = outcome[t] /\ exec[cause[t]] = "settled"
  BY <1>1 DEF CauseFits
<1>3. \A e \in handled' :
        /\ e \in AllTasks /\ exec[e] = "settled"
        /\ outcome[e] \in Failures \cup {"parentCommand"}
  <2>1. MarksHandled(t) => outcome[t] \in Failures \cup {"parentCommand"}
    BY DEF MarksHandled
  <2> QED
    BY <1>2, <2>1, ReportEffect DEF HandledFit, BubbleUps
<1>4. IsNodeError(t) => outcome[t] \in Failures \cup {"drained", "parentCommand"}
  BY DEF IsNodeError, YieldsToInterrupt
<1>5. ASSUME ~extAborted, outcome[t] = "abortError" PROVE IsAbortNoise(t)
  <2>1. Aborted(t) /\ sawAbort[t]
    BY <1>1, <1>5 DEF AbortSeen
  <2>2. nodeErrors # {}
    BY <1>5, <2>1 DEF Aborted, AbortHasReason
  <2> QED
    BY <2>1, <2>2 DEF IsAbortNoise
<1>6. \A e \in nodeErrors' :
        /\ e \in AllTasks /\ exec[e] = "settled"
        /\ outcome[e] \in Failures \cup {"drained", "parentCommand"}
        /\ ~extAborted => outcome[e] # "abortError"
  <2> SUFFICES ASSUME NEW e \in nodeErrors', e \notin nodeErrors
               PROVE  /\ e \in AllTasks /\ exec[e] = "settled"
                      /\ outcome[e] \in Failures \cup {"drained", "parentCommand"}
                      /\ ~extAborted => outcome[e] # "abortError"
    BY DEF ErrorsFit
  <2>1. e = cause[t] /\ IsNodeError(t) /\ ~IsAbortNoise(t)
    BY ReportEffect
  <2> QED
    BY <1>2, <1>4, <1>5, <2>1 DEF BubbleUps
<1>7. excAborted' => nodeErrors' # {}
  BY ReportEffect DEF AbortHasReason
<1>8. outcome[t] \in Failures => cause[t] \in handled' \/ nodeErrors' # {}
  BY ReportEffect DEF IsNodeError
<1>9. outcome[t] \in {"interrupt", "emptyInterrupt"} => bubbleUp' = "interrupt"
  <2> SUFFICES ASSUME outcome[t] \in {"interrupt", "emptyInterrupt"} PROVE bubbleUp' = "interrupt"
    OBVIOUS
  <2>1. cause[t] \notin handled'
    BY <1>2, <1>3 DEF BubbleUps, Failures
  <2>2. BubbleUpAfter(t) = "interrupt"
    BY DEF BubbleUpAfter
  <2> QED
    BY <2>1, <2>2, ReportEffect
<1>10. outcome[t] = "drained" => bubbleUp' \in {"interrupt", "drained", "parentCommand"}
  <2> SUFFICES ASSUME outcome[t] = "drained" PROVE bubbleUp' \in {"interrupt", "drained", "parentCommand"}
    OBVIOUS
  <2>1. cause[t] \notin handled'
    BY <1>2, <1>3 DEF BubbleUps, Failures
  <2>2. BubbleUpAfter(t) \in {"interrupt", "drained", "parentCommand"}
    BY DEF BubbleUpAfter, YieldsToInterrupt
  <2> QED
    BY <2>1, <2>2, ReportEffect
<1> QED
  BY <1>3, <1>6, <1>7, <1>8, <1>9, <1>10

\* Who has been dealt with, after a step: whoever had been before, and the
\* task the step dealt with.
LEMMA ProcessedAfter ==
    ASSUME TypeOK, MapInv, [Next]_vars, NEW u \in AllTasks, Processed(u)'
    PROVE  exec[u] = "settled" /\ (Processed(u) \/ SettledStep(u))
<1>1. ASSUME NEW t \in AllTasks, OwnStep(t) PROVE Processed(u)
  BY <1>1 DEF Processed, OwnStep, SameTask, raceVars, MapInv, Tracked
<1>2. ASSUME NEW S \in SUBSET (pending \ started), FillStep(S) PROVE Processed(u)
  <2>1. S \subseteq AllTasks /\ \A s \in S : exec[s] = "idle"
    BY Parts DEF TypeOK, MapInv, RestIsIdle
  <2>2. u \notin S /\ exec'[u] = exec[u]
    BY <1>2, <2>1, LaunchedTasks DEF FillStep, Processed
  <2> QED
    BY <1>2, <2>2 DEF FillStep, Processed
<1>3. ASSUME NEW t \in AllTasks, SettledStep(t), t # u PROVE Processed(u)
  <2>1. /\ Launch(Scheduled(t)) /\ executing' = (executing \cup Scheduled(t)) \ {t}
        /\ \A s \in Scheduled(t) : s \in AllTasks /\ exec[s] = "idle"
    BY <1>3, ScheduledAreIdle DEF SettledStep
  <2>2. u \notin Scheduled(t) /\ exec'[u] = exec[u]
    BY <1>3, <2>1, LaunchedTasks DEF Processed
  <2> QED
    BY <1>3, <2>1, <2>2 DEF Processed
<1>4. ASSUME NEW c \in Calls, CallStep(c) PROVE Processed(u)
  <2>1. /\ executing' = executing \cup {c} /\ Caller[c] \in executing
        /\ u # c /\ u # Caller[c] => exec'[u] = exec[u]
    BY <1>4, Parts DEF CallStep, Running, MapInv, Tracked
  <2> QED
    BY <2>1 DEF Processed
<1>5. ASSUME LoopStep PROVE Processed(u)
  BY <1>5 DEF LoopStep, Processed, taskVars
<1>6. Processed(u) \/ SettledStep(u)
  BY <1>1, <1>2, <1>3, <1>4, <1>5, Steps
<1>7. Processed(u) \/ SettledStep(u) => exec[u] = "settled"
  BY DEF Processed, MapInv, Tracked, SettledStep
<1> QED
  BY <1>6, <1>7

LEMMA CommitKept == ASSUME TypeOK, MapInv, RunInv, CommitInv, [Next]_vars PROVE CommitInv'
<1> USE DEF CommitInv
<1>1. SavedFits'
  BY SavedKept
<1>2. \A e \in AllTasks : exec[e] = "settled" =>
        exec'[e] = "settled" /\ outcome'[e] = outcome[e] /\ cause'[e] = cause[e]
  BY SettledStays DEF SameTask
<1>3. ASSUME NEW t \in AllTasks, SettledStep(t) PROVE CommitInv'
  <2>1. exec[t] = "settled" /\ Report(t) /\ extAborted' = extAborted /\ pc' = "fill"
    BY <1>3 DEF SettledStep
  <2>2. HandledFit' /\ ErrorsFit'
    <3>1. \A e \in handled' :
             /\ e \in AllTasks /\ exec[e] = "settled"
             /\ outcome[e] \in Failures \cup {"parentCommand"}
      BY <2>1, ReportFits
    <3>2. \A e \in nodeErrors' :
             /\ e \in AllTasks /\ exec[e] = "settled"
             /\ outcome[e] \in Failures \cup {"drained", "parentCommand"}
             /\ ~extAborted => outcome[e] # "abortError"
      BY <2>1, ReportFits
    <3> QED
      BY <1>2, <2>1, <3>1, <3>2 DEF HandledFit, ErrorsFit
  <2>3. AbortHasReason'
    BY <2>1, ReportFits DEF AbortHasReason
  <2>4. Reported'
    <3> SUFFICES ASSUME NEW u \in AllTasks, Processed(u)'
                 PROVE  /\ outcome'[u] \in Failures => cause'[u] \in handled' \/ nodeErrors' # {}
                        /\ outcome'[u] \in {"interrupt", "emptyInterrupt"} => bubbleUp' = "interrupt"
                        /\ outcome'[u] = "drained" => bubbleUp' \in {"interrupt", "drained", "parentCommand"}
      BY DEF Reported
    <3>1. outcome'[u] = outcome[u] /\ cause'[u] = cause[u] /\ (Processed(u) \/ SettledStep(u))
      BY <1>2, ProcessedAfter
    <3>2. CASE Processed(u)
      <4>1. /\ handled \subseteq handled' /\ nodeErrors \subseteq nodeErrors'
            /\ bubbleUp = "interrupt" => bubbleUp' = "interrupt"
            /\ bubbleUp \in {"interrupt", "drained", "parentCommand"}
                 => bubbleUp' \in {"interrupt", "drained", "parentCommand"}
        BY <2>1, ReportEffect
      <4>2. /\ outcome[u] \in Failures => cause[u] \in handled \/ nodeErrors # {}
            /\ outcome[u] \in {"interrupt", "emptyInterrupt"} => bubbleUp = "interrupt"
            /\ outcome[u] = "drained" => bubbleUp \in {"interrupt", "drained", "parentCommand"}
        BY <3>2 DEF Reported
      <4> QED
        BY <3>1, <4>1, <4>2
    <3>3. CASE SettledStep(u)
      <4>1. exec[u] = "settled" /\ Report(u)
        BY <3>3 DEF SettledStep
      <4> QED
        BY <3>1, <4>1, ReportFits
    <3> QED
      BY <3>1, <3>2, <3>3
  <2>5. ReturnedIsOk'
    BY <2>1 DEF ReturnedIsOk
  <2> QED
    BY <1>1, <2>2, <2>3, <2>4, <2>5
<1>4. ASSUME ~ \E t \in AllTasks : SettledStep(t) PROVE CommitInv'
  <2>1. UNCHANGED <<handled, nodeErrors, bubbleUp, excAborted>> /\ (extAborted => extAborted')
    <3>1. ASSUME NEW t \in AllTasks, OwnStep(t)
          PROVE  UNCHANGED <<handled, nodeErrors, bubbleUp, excAborted>>
      BY <3>1 DEF OwnStep, tickVars, abortVars
    <3>2. ASSUME NEW S, FillStep(S) PROVE UNCHANGED <<handled, nodeErrors, bubbleUp, excAborted>>
      BY <3>2 DEF FillStep, tickVars, abortVars
    <3>3. ASSUME NEW c \in Calls, CallStep(c) PROVE UNCHANGED <<handled, nodeErrors, bubbleUp, excAborted>>
      BY <3>3 DEF CallStep, tickVars, abortVars
    <3>4. LoopStep => UNCHANGED <<handled, nodeErrors, bubbleUp, excAborted>>
      BY DEF LoopStep, tickVars
    <3> QED
      BY <1>4, <3>1, <3>2, <3>3, <3>4, HistoryGrows, Steps
  <2>2. HandledFit' /\ ErrorsFit'
    BY <1>2, <2>1 DEF HandledFit, ErrorsFit
  <2>3. AbortHasReason'
    BY <2>1 DEF AbortHasReason
  <2>4. Reported'
    <3> SUFFICES ASSUME NEW u \in AllTasks, Processed(u)'
                 PROVE  /\ outcome'[u] \in Failures => cause'[u] \in handled' \/ nodeErrors' # {}
                        /\ outcome'[u] \in {"interrupt", "emptyInterrupt"} => bubbleUp' = "interrupt"
                        /\ outcome'[u] = "drained" => bubbleUp' \in {"interrupt", "drained", "parentCommand"}
      BY DEF Reported
    <3>1. outcome'[u] = outcome[u] /\ cause'[u] = cause[u] /\ Processed(u)
      BY <1>2, <1>4, ProcessedAfter
    <3>2. /\ outcome[u] \in Failures => cause[u] \in handled \/ nodeErrors # {}
          /\ outcome[u] \in {"interrupt", "emptyInterrupt"} => bubbleUp = "interrupt"
          /\ outcome[u] = "drained" => bubbleUp \in {"interrupt", "drained", "parentCommand"}
      BY <3>1 DEF Reported
    <3> QED
      BY <2>1, <3>1, <3>2
  <2>5. ReturnedIsOk'
    <3>1. Outcome' = Outcome
      BY <2>1, Zenon DEF Outcome
    <3>2. ASSUME NEW t \in AllTasks, OwnStep(t) PROVE UNCHANGED <<pc, result>>
      BY <3>2 DEF OwnStep
    <3>3. ASSUME NEW S, FillStep(S) PROVE pc' = "race"
      BY <3>3 DEF FillStep
    <3>4. ASSUME NEW c \in Calls, CallStep(c) PROVE UNCHANGED <<pc, result>>
      BY <3>4 DEF CallStep
    <3>5. LoopStep /\ pc' = "returned" =>
            \/ UNCHANGED <<pc, result>>
            \/ result' = Outcome /\ Outcome = "ok"
      BY DEF LoopStep
    <3> QED
      BY <1>4, <3>1, <3>2, <3>3, <3>4, <3>5, Steps DEF ReturnedIsOk
  <2> QED
    BY <1>1, <2>2, <2>3, <2>4, <2>5
<1> QED
  BY <1>3, <1>4

LEMMA CommitHolds == Spec => []CommitInv
<1>1. Init => CommitInv
  BY DEF Init, CommitInv, SavedFits, Processed, HandledFit, ErrorsFit, AbortHasReason, Reported, ReturnedIsOk
<1>2. TypeOK /\ MapInv /\ RunInv /\ CommitInv /\ [Next]_vars => CommitInv'
  BY CommitKept
<1> QED
  BY <1>1, <1>2, TypeCorrect, MapHolds, RunHolds, PTL DEF Spec

\* A failure is never swallowed, whatever maxConcurrency is: when the tick ends
\* without an error of its own, every failure of a task, a call or a handler
\* went to an error handler.
THEOREM FailuresAreSurfaced == Spec => []FailuresSurface
<1>1. TypeOK /\ MapInv /\ CommitInv => FailuresSurface
  <2> SUFFICES ASSUME MapInv, CommitInv, Ended, nodeErrors = {}, NEW t \in AllTasks,
                      exec[t] = "settled", outcome[t] \in Failures
               PROVE  cause[t] \in handled
    BY DEF FailuresSurface
  <2>1. Processed(t)
    BY DEF MapInv, EndedIsEmpty, Processed
  <2> QED
    BY <2>1 DEF CommitInv, Reported
<1> QED
  BY <1>1, TypeCorrect, MapHolds, CommitHolds, PTL

\* The errors that end the run are causes: unless the caller cancelled it, no
\* AbortError is among them.
THEOREM AbortsAreNeverBlamed == Spec => []AbortsAreNotBlamed
<1>1. CommitInv => AbortsAreNotBlamed
  BY DEF CommitInv, ErrorsFit, AbortsAreNotBlamed
<1> QED
  BY <1>1, CommitHolds, PTL

\* What is committed for a task comes from one invocation of its node.
THEOREM CommitsOneAttempt == Spec => []OneAttemptCommitted
<1>1. TypeOK /\ MapInv /\ RunInv /\ CommitInv => OneAttemptCommitted
  <2> SUFFICES ASSUME TypeOK, RunInv, CommitInv, NEW t \in AllTasks, Committed(t)
               PROVE  /\ \A v, w \in {x \in saved[t] : x[1] \in {DATA, RESUME}} : v[2] = w[2]
                      /\ outcome[t] = "ok" => t \in completed \/ extAborted \/ excAborted
    BY DEF OneAttemptCommitted
  <2>1. saved[t] = ToCommit(t)
    BY DEF CommitInv, SavedFits, Committed
  <2>2. WritesFit(t) /\ OkFits(t)
    BY DEF RunInv, TaskFits
  <2>3. \A w \in ToCommit(t) : w[1] \in {DATA, RESUME} => w \in writes[t]
    BY DEF ToCommit, ErrorWrites, DATA, RESUME, INTERRUPT, ERROR, ERROR_SOURCE_NODE, NO_WRITES
  <2> QED
    BY <2>1, <2>2, <2>3 DEF WritesFit, OkFits
<1> QED
  BY <1>1, TypeCorrect, MapHolds, RunHolds, CommitHolds, PTL

\* A handler runs only for a failure of its task whose provenance is committed.
THEOREM HandlersAreForFailures == Spec => []HandlersFollowFailures
<1>1. TypeOK /\ MapInv /\ RunInv /\ CommitInv => HandlersFollowFailures
  <2> SUFFICES ASSUME TypeOK, MapInv, RunInv, CommitInv, NEW h \in Handlers, exec[h] # "idle"
               PROVE  /\ outcome[HandlerOf[h]] \in Failures
                      /\ \E a \in 0..MaxAttempts[HandlerOf[h]] :
                            {<<ERROR, a>>, <<ERROR_SOURCE_NODE, a>>} \subseteq saved[HandlerOf[h]]
    BY DEF HandlersFollowFailures
  <2> DEFINE t == HandlerOf[h]
  <2>1. t \in AllTasks /\ h \in HandlersFor(t)
    BY TasksAssumption DEF AllTasks, HandlersFor
  <2>2. Processed(t) /\ outcome[t] \in Failures
    BY DEF MapInv, HandlersWait
  <2> HIDE DEF t
  <2>3. saved[t] = ToCommit(t)
    BY <2>1, <2>2 DEF CommitInv, SavedFits
  <2>4. ToCommit(t) = ErrorWrites(t)
    BY <2>2 DEF ToCommit, Failures
  <2>5. HasHandler(t)
    BY <2>1 DEF HasHandler
  <2>6. {<<ERROR, attempts[t]>>, <<ERROR_SOURCE_NODE, attempts[t]>>} \subseteq saved[t]
    BY <2>3, <2>4, <2>5 DEF ErrorWrites
  <2>7. attempts[t] \in 0..MaxAttempts[t]
    BY <2>1, LimitsAssumption DEF RunInv, TaskFits, AttemptsFit, TypeOK
  <2> QED
    BY <2>2, <2>6, <2>7 DEF t
<1> QED
  BY <1>1, TypeCorrect, MapHolds, RunHolds, CommitHolds, PTL

-----------------------------------------------------------------------------
\* Bubble-ups come from nodes that may bubble up.
BubblesFit ==
    /\ \A t \in AllTasks : outcome[t] \in BubbleUps => outcome[t] \in MayEndIn[t]
    /\ bubbleUp = "parentCommand" => \E t \in AllTasks : "parentCommand" \in MayEndIn[t]

LEMMA BubblesKept == ASSUME TypeOK, BubblesFit, [Next]_vars PROVE BubblesFit'
<1>1. ASSUME NEW S, Launch(S)
      PROVE  \A u \in AllTasks : outcome'[u] \in BubbleUps => outcome'[u] \in MayEndIn[u]
  <2>1. \A u \in AllTasks : outcome'[u] \in {"ok", outcome[u]}
    BY <1>1 DEF Launch
  <2> QED
    BY <2>1 DEF BubblesFit, BubbleUps
<1>2. ASSUME NEW t \in AllTasks, OwnAction(t), OwnStep(t) PROVE BubblesFit'
  <2>1. outcome'[t] \in BubbleUps => outcome'[t] \in MayEndIn[t] \cup {outcome[t]}
    <3>1. CASE CallReturned(t)
      BY <3>1 DEF CallReturned
    <3>2. CASE Complete(t)
      BY <3>2, SettledFits DEF Complete, BubbleUps
    <3>3. CASE Retry(t)
      BY <3>3 DEF Retry, TypeOK, BubbleUps
    <3>4. ASSUME NEW o \in BubbleUps, BubbleUp(t, o) PROVE outcome'[t] \in MayEndIn[t]
      BY <3>4, SettledFits DEF BubbleUp
    <3>5. ASSUME NEW o \in Failures, Throw(t, o) PROVE outcome'[t] \notin BubbleUps
      <4>1. PICK e : outcome' = [outcome EXCEPT ![t] = o] \/ Settle(t, o, e)
        BY <3>5 DEF Throw
      <4>2. outcome'[t] = o
        BY <4>1, SettledFits DEF TypeOK
      <4> QED
        BY <4>2 DEF Failures, BubbleUps
    <3> QED
      BY <1>2, <3>1, <3>2, <3>3, <3>4, <3>5 DEF OwnAction
  <2>2. bubbleUp' = bubbleUp /\ \A u \in AllTasks : u # t => outcome'[u] = outcome[u]
    BY <1>2 DEF OwnStep, SameTask, tickVars
  <2> QED
    BY <2>1, <2>2 DEF BubblesFit
<1>3. ASSUME NEW S, FillStep(S) PROVE BubblesFit'
  <2>1. Launch(S) /\ bubbleUp' = bubbleUp
    BY <1>3 DEF FillStep, tickVars
  <2> QED
    BY <1>1, <2>1 DEF BubblesFit
<1>4. ASSUME NEW t \in AllTasks, SettledStep(t) PROVE BubblesFit'
  <2>1. Launch(Scheduled(t)) /\ bubbleUp' \in {bubbleUp, BubbleUpAfter(t)}
    BY <1>4 DEF SettledStep, Report
  <2>2. BubbleUpAfter(t) = "parentCommand" => outcome[t] = "parentCommand" \/ bubbleUp = "parentCommand"
    BY DEF BubbleUpAfter
  <2>3. bubbleUp' = "parentCommand" => \E u \in AllTasks : "parentCommand" \in MayEndIn[u]
    BY <2>1, <2>2 DEF BubblesFit, BubbleUps
  <2>4. \A u \in AllTasks : outcome'[u] \in BubbleUps => outcome'[u] \in MayEndIn[u]
    BY <1>1, <2>1
  <2> QED
    BY <2>3, <2>4 DEF BubblesFit
<1>5. ASSUME NEW c \in Calls, CallStep(c) PROVE BubblesFit'
  BY <1>5 DEF CallStep, BubblesFit, tickVars
<1>6. CASE LoopStep
  BY <1>6 DEF LoopStep, BubblesFit, tickVars, taskVars
<1> QED
  BY <1>2, <1>3, <1>4, <1>5, <1>6, Steps

\* Nothing is committed only for a bubble-up that leaves its task to be run again.
LEMMA UncommittedBubbles ==
    ASSUME TypeOK, NEW t \in AllTasks, ToCommit(t) = {}
    PROVE  outcome[t] \in {"emptyInterrupt", "drained"}
  BY DEF ToCommit, ErrorWrites

\* A graph in which a drain of a subgraph cannot be replaced by a Command for a
\* parent that is not there.
NoLostDrain ==
    \/ IsNested
    \/ \A t \in AllTasks : "drained" \notin MayEndIn[t]
    \/ \A t \in AllTasks : "parentCommand" \notin MayEndIn[t]

\* With room for two, a tick that returns leaves writes on every pending task,
\* so loop.tick applies the superstep.  Without NoLostDrain it does not hold: in
\* the root graph a drained task without writes leaves none, and the Command for
\* the parent that another task throws after it replaces the GraphDrained that
\* would end the tick (runner.ts:158), only to be dropped itself (runner.ts:204).
THEOREM ReturnsCommitted ==
    MaxConcurrency >= 2 /\ NoLostDrain /\ Spec => []ReturnedMeansCommitted
<1> SUFFICES ASSUME MaxConcurrency >= 2, NoLostDrain PROVE Spec => []ReturnedMeansCommitted
  OBVIOUS
<1>1. Init => BubblesFit
  BY DEF Init, BubblesFit, BubbleUps
<1>2. TypeOK /\ BubblesFit /\ [Next]_vars => BubblesFit'
  BY BubblesKept
<1>3. TypeOK /\ MapInv /\ CommitInv /\ BubblesFit /\ NothingLeftBehind => ReturnedMeansCommitted
  <2> SUFFICES ASSUME TypeOK, MapInv, CommitInv, BubblesFit, NothingLeftBehind,
                      pc = "returned", NEW t \in pending, saved[t] = {}
               PROVE  FALSE
    BY DEF ReturnedMeansCommitted, Committed
  <2>1. t \in AllTasks /\ Outcome = "ok" /\ Ended
    BY Parts DEF TypeOK, CommitInv, ReturnedIsOk, Ended
  <2>2. Processed(t)
    BY <2>1 DEF NothingLeftBehind, MapInv, EndedIsEmpty, Processed
  <2>3. ToCommit(t) = {}
    BY <2>1, <2>2 DEF CommitInv, SavedFits
  <2>4. outcome[t] \in {"emptyInterrupt", "drained"}
    BY <2>1, <2>3, UncommittedBubbles
  <2>5. bubbleUp \notin {"interrupt", "drained"} /\ ~(bubbleUp = "parentCommand" /\ IsNested)
    <3>1. Cardinality(nodeErrors) \in Nat
      BY <2>1, AllTasksFinite, FS_Subset, FS_CardinalityType DEF CommitInv, ErrorsFit
    <3>2. Cardinality(nodeErrors) = 1 => Outcome = "error"
      BY SMT DEF Outcome
    <3>3. Cardinality(nodeErrors) > 1 => Outcome = "aggregate"
      BY <3>1, SMT DEF Outcome
    <3>4. /\ Cardinality(nodeErrors) # 1 /\ ~(Cardinality(nodeErrors) > 1)
          /\ (bubbleUp \in {"interrupt", "drained"} \/ (bubbleUp = "parentCommand" /\ IsNested))
          => Outcome = bubbleUp
      BY SMT DEF Outcome
    <3> QED
      BY <2>1, <3>1, <3>2, <3>3, <3>4
  <2>6. outcome[t] = "drained" /\ bubbleUp = "parentCommand"
    BY <2>1, <2>2, <2>4, <2>5 DEF CommitInv, Reported
  <2> QED
    BY <2>1, <2>5, <2>6 DEF BubblesFit, BubbleUps, NoLostDrain
<1> QED
  BY <1>1, <1>2, <1>3, TypeCorrect, MapHolds, CommitHolds, WaitsForEverything, PTL DEF Spec

=============================================================================
