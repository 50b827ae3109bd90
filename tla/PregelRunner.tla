---------------------------- MODULE PregelRunner ----------------------------
(***************************************************************************)
(* One superstep as PregelRunner#tick executes it: the tasks that have no  *)
(* writes yet are started up to maxConcurrency, each inside the retry loop *)
(* of _runWithRetry, raced, committed to the loop as they settle, and      *)
(* their errors are handled, reported or bubbled up.  A running task may   *)
(* call() further tasks, and a task whose node has an error handler gets   *)
(* the handler scheduled when it fails.                                    *)
(*                                                                         *)
(* Each action is one turn of the JavaScript event loop: what happens      *)
(* between two awaits.  Tasks are opaque: a run of a node may write, call, *)
(* finish, throw or bubble up at any point.                                *)
(***************************************************************************)
EXTENDS Integers, FiniteSets

CONSTANTS
    Tasks,           \* tasks that loop.tick prepared for this superstep
    Calls,           \* tasks that running tasks may schedule through call()
    Handlers,        \* error handler tasks
    Caller,          \* Caller[c] is the task whose code calls c
    HandlerOf,       \* HandlerOf[h] is the task whose failure h handles
    MaxConcurrency,  \* TickOptions.maxConcurrency
    MaxAttempts,     \* MaxAttempts[t]: retry_policy.maxAttempts, 1 without a policy
    IsNested,        \* loop.isNested
    MayEndIn,        \* MayEndIn[t]: the ways an invocation of t's node may end
    None             \* "undefined"

AllTasks == Tasks \cup Calls \cup Handlers

ASSUME TasksAssumption ==
    /\ IsFiniteSet(Tasks) /\ IsFiniteSet(Calls) /\ IsFiniteSet(Handlers)
    /\ Tasks \cap Calls = {} /\ Tasks \cap Handlers = {} /\ Calls \cap Handlers = {}
    /\ None \notin AllTasks
    /\ Caller \in [Calls -> Tasks]
    /\ HandlerOf \in [Handlers -> Tasks]
    /\ \A g, h \in Handlers : HandlerOf[g] = HandlerOf[h] => g = h

ASSUME LimitsAssumption ==
    /\ MaxConcurrency \in Nat \ {0}
    /\ MaxAttempts \in [AllTasks -> Nat \ {0}]
    /\ IsNested \in BOOLEAN

\* What an invocation of a node ends in.  The last four are the GraphBubbleUp
\* errors: interrupt() with and without interrupts in it, a cooperative drain
\* of a subgraph and a Command for the parent graph.
BubbleUps == {"interrupt", "emptyInterrupt", "drained", "parentCommand"}
Outcomes == {"none", "ok", "error", "abortError"} \cup BubbleUps
Failures == {"error", "abortError"}

ASSUME MayEndInAssumption == MayEndIn \in [AllTasks -> SUBSET Outcomes]

\* Abstract channels of a pending write.
DATA == "data"
RESUME == "__resume__"
INTERRUPT == "__interrupt__"
ERROR == "__error__"
ERROR_SOURCE_NODE == "__error_source_node__"
NO_WRITES == "__no_writes__"

\* Pending writes, each tagged with the attempt that made it.
PendingWrites == {DATA, RESUME, INTERRUPT, ERROR, ERROR_SOURCE_NODE, NO_WRITES} \X Nat

VARIABLES
    pc,            \* where tick() is: "fill" (top of the while), "race", "returned", "threw"
    pending,       \* pendingTasks: the tasks without writes when tick() began
    started,       \* the first startedTasksCount tasks of pending
    executing,     \* keys of executingTasksMap
    racing,        \* the promises the current Promise.race was given
    added,         \* barrier.wait of the current race has been resolved
    exec,          \* "idle", "running", "awaiting" (a called task), "backoff", "settled"
    attempts,      \* failed attempts so far in _runWithRetry
    outcome,       \* how the last invocation ended
    cause,         \* identity of the error: the task whose code threw it
    sawAbort,      \* SettledPregelTask.signalAborted
    writes,        \* task.writes, each tagged with the attempt that wrote it
    saved,         \* what loop.putWrites got for the task, {} as long as it got nothing
    completed,     \* history: tasks whose node ran to completion
    nodeErrors,    \* errors that end the run
    bubbleUp,      \* graphBubbleUp
    handled,       \* handledExceptions
    extAborted,    \* externalAbortSignal or timeoutAbortSignal has fired
    excAborted,    \* exceptionSignalController.abort() was called
    listening,     \* the abort listener is attached
    rejected,      \* abortPromise is rejected
    result         \* what tick() threw, "ok" when it returned

tickVars == <<pending, nodeErrors, bubbleUp, handled>>
raceVars == <<started, executing, racing, added>>
taskVars == <<exec, attempts, outcome, cause, sawAbort, writes, completed>>
abortVars == <<extAborted, excAborted, listening, rejected>>
vars == <<pc, tickVars, raceVars, taskVars, saved, abortVars, result>>

-----------------------------------------------------------------------------
\* Called tasks run without a signal: call() passes none to _runWithRetry.
Aborted(t) == t \notin Calls /\ (extAborted \/ excAborted)

HandlersFor(t) == {h \in Handlers : HandlerOf[h] = t}
HasHandler(t) == HandlersFor(t) # {}

\* tick() begins: some tasks may already have writes restored from the
\* checkpoint.  The caller's signal may have fired before.
Init ==
    /\ pc = "fill"
    /\ pending \in SUBSET Tasks
    /\ started = {} /\ executing = {} /\ racing = {} /\ added = FALSE
    /\ exec = [t \in AllTasks |-> "idle"]
    /\ attempts = [t \in AllTasks |-> 0]
    /\ outcome = [t \in AllTasks |-> "none"]
    /\ cause = [t \in AllTasks |-> None]
    /\ sawAbort = [t \in AllTasks |-> FALSE]
    /\ writes = [t \in AllTasks |-> {}]
    /\ saved = [t \in AllTasks |-> {}]
    /\ completed = {}
    /\ nodeErrors = {} /\ bubbleUp = "none" /\ handled = {}
    /\ extAborted = FALSE /\ excAborted = FALSE
    /\ listening = TRUE /\ rejected = FALSE
    /\ result = "none"

-----------------------------------------------------------------------------
\* _runWithRetry up to its first await, for the tasks in S: a fired signal
\* ends the attempt loop before the node is invoked and leaves error undefined.
Launch(S) ==
    /\ exec' = [t \in AllTasks |->
                  IF t \notin S THEN exec[t] ELSE IF Aborted(t) THEN "settled" ELSE "running"]
    /\ outcome' = [t \in AllTasks |-> IF t \in S /\ Aborted(t) THEN "ok" ELSE outcome[t]]
    /\ sawAbort' = [t \in AllTasks |-> sawAbort[t] \/ (t \in S /\ Aborted(t))]

\* Mutant of Fills: <= for < in the condition of the for loop.
FillsOneMore(S) ==
    /\ S # {} => Cardinality(executing \cup S) <= MaxConcurrency + 1
    /\ S # pending \ started => Cardinality(executing \cup S) >= MaxConcurrency + 1

\* The tasks that the for loop starts: as many of the rest as there is room for.
Fills(S) ==
    /\ S # {} => Cardinality(executing \cup S) <= MaxConcurrency
    /\ S # pending \ started => Cardinality(executing \cup S) >= MaxConcurrency

\* Mutant of LoopAgain: the loop ends once every task has been started.
LoopUntilStarted == pending # {} /\ started # pending

\* The condition of the while loop.
LoopAgain == pending # {} /\ (started = {} \/ executing # {})

\* _executeTasksWithRetry refuses to start under a signal that has fired.
AbortedAtStart ==
    /\ pc = "fill" /\ started = {} /\ extAborted
    /\ pc' = "threw" /\ result' = "abort"
    /\ UNCHANGED <<tickVars, raceVars, taskVars, saved, abortVars>>

\* Top of the while loop: start tasks, then wait for the race.
Fill ==
    /\ pc = "fill" /\ LoopAgain
    /\ ~(started = {} /\ extAborted)
    /\ \E S \in SUBSET (pending \ started) :
          /\ Fills(S)
          /\ started' = started \cup S
          /\ executing' = executing \cup S
          /\ racing' = executing \cup S
          /\ Launch(S)
    /\ added' = FALSE
    /\ pc' = "race"
    /\ UNCHANGED <<tickVars, attempts, cause, writes, completed, saved, abortVars, result>>

\* barrier.next() won the race: continue with the promise that was added.
PromiseAdded ==
    /\ pc = "race" /\ added
    /\ pc' = "fill"
    /\ UNCHANGED <<tickVars, raceVars, taskVars, saved, abortVars, result>>

-----------------------------------------------------------------------------
\* _commit: what is persisted for a settled task, {} when nothing is.
ErrorWrites(t) ==
    writes[t] \cup {<<ERROR, attempts[t]>>}
              \cup (IF HasHandler(t) THEN {<<ERROR_SOURCE_NODE, attempts[t]>>} ELSE {})

\* Mutant of ToCommit: no NO_WRITES marker for a task that wrote nothing.
CommitWithoutMarker(t) ==
    IF outcome[t] = "ok" THEN writes[t] ELSE ErrorWrites(t)

ToCommit(t) ==
    CASE outcome[t] = "ok" ->
            IF writes[t] = {} THEN {<<NO_WRITES, attempts[t]>>} ELSE writes[t]
      [] outcome[t] = "interrupt" ->
            {<<INTERRUPT, attempts[t]>>} \cup {w \in writes[t] : w[1] = RESUME}
      [] outcome[t] = "emptyInterrupt" -> {}
      [] outcome[t] = "drained" -> writes[t]
      [] outcome[t] = "parentCommand" /\ writes[t] # {} -> writes[t]
      [] OTHER -> ErrorWrites(t)

\* The branch of _commit that records the failure for an error handler.
MarksHandled(t) ==
    /\ HasHandler(t)
    /\ \/ outcome[t] \in Failures
       \/ outcome[t] = "parentCommand" /\ writes[t] = {}

\* Mutant of SchedulesHandler: bubble-ups are not excluded.
SchedulesForAnyError(t) == HasHandler(t) /\ outcome[t] # "ok"

\* _executeTasksWithRetry schedules the handler of a failed task in this tick.
SchedulesHandler(t) == HasHandler(t) /\ outcome[t] \in Failures

\* A bubble-up that comes after an interrupt does not replace it.
YieldsToInterrupt(t) == outcome[t] \in {"drained", "parentCommand"} /\ bubbleUp = "interrupt"

\* graphBubbleUp after task t: an interrupt replaces everything and stays.
BubbleUpAfter(t) ==
    CASE outcome[t] \in {"interrupt", "emptyInterrupt"} -> "interrupt"
      [] outcome[t] \in {"drained", "parentCommand"} /\ ~YieldsToInterrupt(t) -> outcome[t]
      [] OTHER -> bubbleUp

\* Mutants of IsAbortNoise: every error is reported; no error of an aborted
\* task is, not even the first.
NothingIsNoise(t) == FALSE
AllAbortedIsNoise(t) == sawAbort[t]

\* An error that only answers an abort some earlier error has caused.
IsAbortNoise(t) == nodeErrors # {} /\ sawAbort[t]

\* An error that ends the run: a failure, or a bubble-up after an interrupt.
IsNodeError(t) == outcome[t] \in Failures \/ YieldsToInterrupt(t)

\* The body of the for await loop of tick(), after _commit.
Report(t) ==
    LET handledNow == IF MarksHandled(t) THEN handled \cup {cause[t]} ELSE handled
        skipped == cause[t] \in handledNow
    IN  /\ handled' = handledNow
        /\ bubbleUp' = IF skipped THEN bubbleUp ELSE BubbleUpAfter(t)
        /\ IF ~skipped /\ IsNodeError(t) /\ ~IsAbortNoise(t)
           THEN nodeErrors' = nodeErrors \cup {cause[t]} /\ excAborted' = TRUE
           ELSE UNCHANGED <<nodeErrors, excAborted>>

\* Mutant of Remaining: the settled task is not deleted from the map.
RemainingWithSettled(t, scheduled) == executing \cup scheduled

\* executingTasksMap after t has been dealt with.
Remaining(t, scheduled) == (executing \cup scheduled) \ {t}

\* The race is won by settled task t: its handler is scheduled, it is yielded
\* to tick(), which commits and reports it, the abort listener is removed and
\* the task leaves the map.
TaskSettled(t) ==
    /\ pc = "race" /\ t \in racing /\ exec[t] = "settled"
    /\ LET scheduled == IF SchedulesHandler(t) THEN HandlersFor(t) ELSE {}
       IN  Launch(scheduled) /\ executing' = Remaining(t, scheduled)
    /\ saved' = [saved EXCEPT ![t] = ToCommit(t)]
    /\ Report(t)
    /\ listening' = FALSE
    /\ pc' = "fill"
    /\ UNCHANGED <<pending, started, racing, added, attempts, cause, writes, completed,
                   extAborted, rejected, result>>

\* Mutant of AbortWins: the abort is seen only when nothing is being raced.
AbortWinsWhenIdle == rejected /\ racing = {}

\* Promise.race prefers the tasks, which come first in its argument.
AbortWins == rejected /\ \A t \in racing : exec[t] # "settled"

\* abortPromise wins the race: tick() throws, whatever still runs is left alone.
AbortThrown ==
    /\ pc = "race" /\ AbortWins
    /\ pc' = "threw" /\ result' = "abort"
    /\ UNCHANGED <<tickVars, raceVars, taskVars, saved, abortVars>>

\* The while loop is over: tick() throws what it collected, or returns.
Outcome ==
    CASE Cardinality(nodeErrors) = 1 -> "error"
      [] Cardinality(nodeErrors) > 1 -> "aggregate"
      [] OTHER -> CASE bubbleUp \in {"interrupt", "drained"} -> bubbleUp
                    [] bubbleUp = "parentCommand" /\ IsNested -> bubbleUp
                    [] OTHER -> "ok"

Return ==
    /\ pc = "fill" /\ ~LoopAgain
    /\ ~(started = {} /\ extAborted)
    /\ result' = Outcome
    /\ pc' = IF Outcome = "ok" THEN "returned" ELSE "threw"
    /\ UNCHANGED <<tickVars, raceVars, taskVars, saved, abortVars>>

-----------------------------------------------------------------------------
\* The code of the nodes, inside _runWithRetry.
Running(t) == exec[t] = "running" /\ pc \in {"fill", "race"}

\* Mutant of BarrierNext: the race is not woken up for the new promise.
BarrierUntouched == added

\* barrier.next(): only the race that is under way is woken up.
BarrierNext == added \/ pc = "race"

\* call(): schedule the task and add its promise to the map.  The caller
\* awaits the promise, or goes on and leaves it floating.
CallTask(c) ==
    LET t == Caller[c]
    IN  /\ Running(t) /\ exec[c] = "idle"
        /\ \E s \in {"awaiting", "running"} :
              exec' = [exec EXCEPT ![t] = s, ![c] = "running"]
        /\ executing' = executing \cup {c}
        /\ added' = BarrierNext
        /\ UNCHANGED <<pc, tickVars, started, racing, attempts, outcome, cause, sawAbort,
                       writes, completed, saved, abortVars, result>>

CallsOf(t) == {c \in Calls : Caller[c] = t}

\* The promises of call() resolved: the caller continues with the results, or
\* with a rejection, which it may catch.
CallReturned(t) ==
    /\ exec[t] = "awaiting" /\ pc \in {"fill", "race"}
    /\ \A c \in CallsOf(t) : exec[c] \in {"idle", "settled"}
    /\ exec' = [exec EXCEPT ![t] = "running"]
    /\ UNCHANGED <<pc, tickVars, raceVars, attempts, outcome, cause, sawAbort, writes,
                   completed, saved, abortVars, result>>

\* What an invocation wrote before it ended: nothing, to channels, or also the
\* resume values that interrupt() consumed.
Wrote(t) ==
    \E W \in {{}, {DATA}, {DATA, RESUME}} :
        writes' = [writes EXCEPT ![t] = @ \cup (W \X {attempts[t]})]

\* Whose error t may throw: its own, or one that a call of its own rejected with.
Thrown(t, o) ==
    {t} \cup {cause[c] : c \in {d \in CallsOf(t) : exec[d] = "settled" /\ outcome[d] = o}}

Settle(t, o, e) ==
    /\ exec' = [exec EXCEPT ![t] = "settled"]
    /\ outcome' = [outcome EXCEPT ![t] = o]
    /\ cause' = [cause EXCEPT ![t] = e]
    /\ sawAbort' = [sawAbort EXCEPT ![t] = Aborted(t)]

Complete(t) ==
    /\ Running(t) /\ "ok" \in MayEndIn[t]
    /\ Wrote(t)
    /\ Settle(t, "ok", None)
    /\ completed' = completed \cup {t}
    /\ UNCHANGED <<pc, tickVars, raceVars, attempts, saved, abortVars, result>>

\* GraphBubbleUp errors leave the attempt loop at once.
BubbleUp(t, o) ==
    /\ Running(t) /\ o \in MayEndIn[t]
    /\ Wrote(t)
    /\ \E e \in Thrown(t, o) : Settle(t, o, e)
    /\ UNCHANGED <<pc, tickVars, raceVars, attempts, completed, saved, abortVars, result>>

\* The node throws.  An error that answers the abort signal comes from a task
\* that saw it.  The error is retried while attempts are left and retryOn
\* accepts it.
Throw(t, o) ==
    /\ Running(t) /\ o \in MayEndIn[t]
    /\ o = "abortError" => Aborted(t)
    /\ Wrote(t)
    /\ attempts' = [attempts EXCEPT ![t] = @ + 1]
    /\ \E e \in Thrown(t, o) :
          \/ /\ attempts[t] + 1 < MaxAttempts[t]
             /\ exec' = [exec EXCEPT ![t] = "backoff"]
             /\ outcome' = [outcome EXCEPT ![t] = o]
             /\ cause' = [cause EXCEPT ![t] = e]
             /\ UNCHANGED sawAbort
          \/ Settle(t, o, e)
    /\ UNCHANGED <<pc, tickVars, raceVars, completed, saved, abortVars, result>>

\* Mutant of Cleared: the writes of the failed attempt are kept.
KeptWrites(t) == writes[t]

\* task.writes after the splice that begins an attempt.
Cleared(t) == {}

\* The back-off sleep is over: a fired signal keeps the last error, otherwise
\* the writes of the failed attempt are cleared and the node runs again.
Retry(t) ==
    /\ exec[t] = "backoff" /\ pc \in {"fill", "race"}
    /\ IF Aborted(t)
       THEN /\ exec' = [exec EXCEPT ![t] = "settled"]
            /\ sawAbort' = [sawAbort EXCEPT ![t] = TRUE]
            /\ UNCHANGED <<outcome, cause, writes>>
       ELSE /\ exec' = [exec EXCEPT ![t] = "running"]
            /\ outcome' = [outcome EXCEPT ![t] = "none"]
            /\ cause' = [cause EXCEPT ![t] = None]
            /\ writes' = [writes EXCEPT ![t] = Cleared(t)]
            /\ UNCHANGED sawAbort
    /\ UNCHANGED <<pc, tickVars, raceVars, attempts, completed, saved, abortVars, result>>

\* The caller cancels the run, or the step timeout fires.
Abort ==
    /\ ~extAborted /\ pc \in {"fill", "race"}
    /\ extAborted' = TRUE
    /\ rejected' = listening
    /\ UNCHANGED <<pc, tickVars, raceVars, taskVars, saved, excAborted, listening, result>>

Over == pc \in {"returned", "threw"} /\ UNCHANGED vars

Next ==
    \/ AbortedAtStart \/ Fill \/ PromiseAdded \/ AbortThrown \/ Return
    \/ \E t \in AllTasks : TaskSettled(t)
    \/ \E c \in Calls : CallTask(c)
    \/ \E t \in AllTasks : CallReturned(t) \/ Complete(t) \/ Retry(t)
    \/ \E t \in AllTasks, o \in BubbleUps : BubbleUp(t, o)
    \/ \E t \in AllTasks, o \in Failures : Throw(t, o)
    \/ Abort
    \/ Over

Spec == Init /\ [][Next]_vars

\* The event loop: settled promises, timers and generator turns always proceed.
\* Nothing is assumed of the code of the nodes.
EventLoopFairness ==
    /\ WF_vars(AbortedAtStart \/ Fill \/ PromiseAdded \/ AbortThrown \/ Return)
    /\ \A t \in AllTasks : WF_vars(TaskSettled(t)) /\ WF_vars(Retry(t)) /\ WF_vars(CallReturned(t))

\* Every invocation of a node ends.
NodesEnd ==
    \A t \in AllTasks : WF_vars(Complete(t) \/ \E o \in Outcomes : Throw(t, o) \/ BubbleUp(t, o))

EventLoopSpec == Spec /\ EventLoopFairness

-----------------------------------------------------------------------------
\* Every variable has its type (the state that runner.ts and retry.ts declare).
TypeOK ==
    /\ pc \in {"fill", "race", "returned", "threw"}
    /\ pending \subseteq Tasks /\ started \subseteq pending
    /\ executing \subseteq AllTasks /\ racing \subseteq AllTasks /\ added \in BOOLEAN
    /\ exec \in [AllTasks -> {"idle", "running", "awaiting", "backoff", "settled"}]
    /\ attempts \in [AllTasks -> Nat]
    /\ outcome \in [AllTasks -> Outcomes]
    /\ cause \in [AllTasks -> AllTasks \cup {None}]
    /\ sawAbort \in [AllTasks -> BOOLEAN]
    /\ writes \in [AllTasks -> SUBSET PendingWrites]
    /\ saved \in [AllTasks -> SUBSET PendingWrites]
    /\ completed \subseteq AllTasks
    /\ nodeErrors \subseteq AllTasks \cup {None}
    /\ bubbleUp \in {"none"} \cup BubbleUps
    /\ handled \subseteq AllTasks \cup {None}
    /\ extAborted \in BOOLEAN /\ excAborted \in BOOLEAN
    /\ listening \in BOOLEAN /\ rejected \in BOOLEAN

Ended == pc \in {"returned", "threw"} /\ result # "abort"
Committed(t) == saved[t] # {}

\* However tasks settle, call others and have handlers scheduled, at most
\* maxConcurrency of the tasks of the superstep are in executingTasksMap.
ConcurrencyBound == Cardinality(executing \cap Tasks) <= MaxConcurrency

\* A tick that was not aborted has waited for everything: every pending task,
\* and every task and handler that was scheduled meanwhile, has settled.
NothingLeftBehind ==
    Ended => /\ \A t \in pending : exec[t] = "settled"
             /\ \A t \in AllTasks : exec[t] \in {"idle", "settled"}

\* When tick() returns without throwing, loop.tick finds writes on every task
\* and can apply the superstep.
ReturnedMeansCommitted == pc = "returned" => \A t \in pending : Committed(t)

\* The writes committed for a task all come from one invocation of its node,
\* the last one: a failed attempt leaves nothing behind (retry.ts:108).  A task
\* that is committed as done did run, unless a signal had fired before it began.
OneAttemptCommitted ==
    \A t \in AllTasks : Committed(t) =>
        /\ \A v, w \in {x \in saved[t] : x[1] \in {DATA, RESUME}} : v[2] = w[2]
        /\ outcome[t] = "ok" => t \in completed \/ extAborted \/ excAborted

\* A failure is never swallowed: unless the run is ending with an error, the
\* error of every task that failed went to an error handler.
FailuresSurface ==
    Ended /\ nodeErrors = {} =>
        \A t \in AllTasks : exec[t] = "settled" /\ outcome[t] \in Failures => cause[t] \in handled

\* The errors that end the run are causes, never the AbortErrors that sibling
\* tasks throw because of them (runner.ts:166-178).
AbortsAreNotBlamed == ~extAborted => \A e \in nodeErrors : outcome[e] # "abortError"

\* A handler runs for a failure of its task and for nothing else, and the
\* failure is recorded with its provenance by then.
HandlersFollowFailures ==
    \A h \in Handlers : exec[h] # "idle" =>
        /\ outcome[HandlerOf[h]] \in Failures
        /\ \E a \in 0..MaxAttempts[HandlerOf[h]] :
              {<<ERROR, a>>, <<ERROR_SOURCE_NODE, a>>} \subseteq saved[HandlerOf[h]]

\* Once a fired signal has rejected abortPromise the tick is over, even when a
\* node ignores its signal and never ends.
AbortEndsTick == rejected ~> pc \in {"returned", "threw"}

\* A failure without a handler cancels the siblings even when they never end:
\* the error of a called task is noticed while its caller is still running.
FailureCancels ==
    \A t \in AllTasks :
        exec[t] = "settled" /\ outcome[t] = "error" /\ ~HasHandler(t)
            ~> excAborted \/ pc = "threw" \/ cause[t] \in handled \/ sawAbort[t]

\* When every node ends, the tick ends.
TickEnds == NodesEnd => <>(pc \in {"returned", "threw"})
=============================================================================
