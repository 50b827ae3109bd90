# LangGraph.js in TLA+

This directory models the runtime of LangGraph.js: `src/libs/langgraph-core`, the checkpointers and
stores under it, the queue and the streams of `langgraph-api`, and the SDK's submissions. It says
what the code promises when tasks run concurrently, fail, are retried, interrupted or aborted, when
a thread stops, crashes and is resumed, and when clients submit, cancel, read and delete runs. TLC
checks the promises on small instances; TLAPS proves the most important ones for every instance.

## The system

A *graph* is a set of nodes that communicate through *channels*. `Pregel` runs it in supersteps and
keeps the *thread*'s state in a checkpointer; a server queues the runs of many threads, and a client
submits them and follows their output:

```
 SDK: SubmitCoordinator --- submit / resume / stop ----> API server: Runs, queue workers
        ^                                                       |
        |  events <-- Stream.join <-- StreamManager <-- publish |  executes
        |                                                       v
        |                 input / Command / resume ---> PregelLoop._first
        |                                                       |
        |                                 _prepareNextTasks --> PregelRunner.tick --> _applyWrites
        |                                  (pregel/algo.ts)     (pregel/runner.ts)    checkpoint
        |                                        ^                 | putWrites           |
        |                                        +-----------------|---------------------+
        |                                                          v
        +--- thread state <------------------------- BaseCheckpointSaver     AsyncBatchedStore
```

| component | state | operations | what is hard | what makes it correct |
|---|---|---|---|---|
| Channels, `pregel/algo.ts` | channel contents, `channel_versions`, `versions_seen` | `_applyWrites`, `_prepareNextTasks` | joins written while they are consumed, deferred nodes, Sends, resuming without `updatedChannels` | every change is noticed once, joins wait for all, Sends run once, deferred nodes are not forgotten |
| `pregel/runner.ts`, `pregel/retry.ts` | `executingTasksMap`, the barrier, abort signals, collected errors | `tick`, `_commit`, `call` | tasks settle in any order, start other tasks, fail together, are aborted and retried | nothing is left behind, failures surface, limits hold |
| `interrupt.ts`, scratchpad | resume values, counters, null resume | `interrupt`, `Command(resume)` | several interrupts, several tasks, partial answers, retries | each interrupt gets the value that was meant for it; what is done is not done again |
| `pregel/loop.ts` | checkpoint, pending writes, promises of the checkpointer | `_first`, `tick`, `putWrites`, `_putCheckpoint`, the exit flush; `updateState` | writes and checkpoints are stored concurrently, a crash or a rejection comes between them, a checkpoint gets several continuations | what is stored rebuilds what was live; what has returned is durable |
| Savers (`checkpoint`, `checkpoint-*`) | checkpoints and writes per thread | `put`, `putWrites`, `getTuple`, `list` | writes of the same task twice, writes kept at ancestors | the checkpoint and all its writes come back |
| `langgraph-api` queue | runs, threads, locks, cancellation signals | `Runs.put/next/cancel/delete`, `setStatus`, workers | multitask strategies, cancellation against completion, restarts | one run per thread at a time, each run executed once, none forgotten |
| `langgraph-api` streams | a queue per run | `publish`, `Stream.join` | readers that come late, wait, give up, leave | no gap, no message twice, no reader for ever |
| `sdk` submissions | the slot of the current run, a queue of submissions | `submit`, `dispatchResume`, `stop`, drains | answers and terminal events in any order, a `finally` of a submission that was replaced | one run is followed, queued ones wait and are all sent |
| `store` | queued operations, items | `AsyncBatchedStore`, `InMemoryStore.batch` | operations queued while a batch is running, `stop()` | every operation is answered, with a value the item had |
| builders, stream transformers, protocol sessions, UI bindings, CLI, prebuilt agents | - | - | see *What is left out* | - |

How they interact: `PregelLoop` owns the state of a run. `PregelRunner` is handed the loop's tasks
and writes back through `loop.putWrites`; `call()`, the error handlers and `Send`s add tasks while
it works. Everything runs in one JavaScript thread per process, so the interleavings are those of
promises: a turn of the event loop is atomic, and anything may happen between two awaits. The
checkpointer is the only state of a thread that outlives a run; abort signals and `Command`s are the
only things that reach a run from outside. The server's workers share its store of runs; a client
and the server share nothing but requests, responses and events.

## Modules

| module | models | proofs |
|---|---|---|
| `PregelRunner` | one superstep inside `PregelRunner.tick`, with `_executeTasksWithRetry`, `_commit`, `call` and `_runWithRetry` | `PregelRunnerProofs` |
| `PregelAlgo` | channels and versions over a thread's life: `_applyWrites`, `_prepareNextTasks`, inputs, Commands, stops and resumption | `PregelAlgoProofs` |
| `PregelResume` | one superstep over several runs: `interrupt()`, the scratchpad, `Command(resume)`, pending writes, failures, retries, crashes | `PregelResumeProofs` |
| `PregelCheckpoint` | a thread and its checkpointer: the chain of checkpoints, pending writes, durability modes, DeltaChannels, updates, branches, crashes | `PregelCheckpointProofs` |
| `ThreadHistory` | the abstract specification of a checkpointed thread | implemented by `PregelCheckpoint` |
| `RunQueue` | the API server's runs, threads and workers | `RunQueueProofs` |
| `RunLifecycle` | the abstract specification of a run | implemented by `RunQueue` |
| `RunStream` | the output of one run and its readers | `RunStreamProofs` |
| `BatchedStore` | `AsyncBatchedStore` over a shared `InMemoryStore` | `BatchedStoreProofs` |
| `SubmitCoordinator` | the SDK's submissions, resumes and stops on one thread | `SubmitCoordinatorProofs` |
| `MC*` | small instances for TLC | |

The modules cut the system along the lines the code is cut. Within a process, the runner sees one
superstep and opaque tasks; the algorithm sees supersteps and whole task results; resumption sees
the same superstep again and again, and the pending writes that connect its runs; the checkpoint
module sees what of all that is stored, when, and what a later run makes of it. They meet in the
pending writes: what `PregelRunner` puts in `saved` is what `PregelResume` calls a commit, and a
`putWrites` of `PregelCheckpoint`; a superstep that `PregelResume` calls complete is one `Superstep`
of `PregelAlgo` and one `Apply` of `PregelCheckpoint`. Outside it, a run that a worker of `RunQueue`
executes is one run of `PregelCheckpoint` that publishes the messages of `RunStream`; the runs that
`SubmitCoordinator` dispatches are the ones that `RunQueue` is asked to put, and its `EndRun` is the
terminal event that a reader of `RunStream` gets.

### PregelRunner

`pc` is where `tick()` is. `pending`, `started`, `executing`, `racing` and `added` are
`pendingTasks`, `startedTasksCount`, the keys of `executingTasksMap`, the promises in the current
`Promise.race` and the barrier; `exec`, `attempts`, `outcome`, `cause` are the tasks inside
`_runWithRetry`; `writes` is `task.writes` and `saved` what `loop.putWrites` got; `nodeErrors`,
`bubbleUp` and `handled` are what `tick()` collects; `extAborted`, `excAborted`, `listening` and
`rejected` are the two signals, the abort listener and `abortPromise`.

An action is one turn of the event loop. `Fill` is the `for` loop that starts tasks and the start of
the race, `TaskSettled` a race won by a task: `_commit`, the handler that is scheduled, the removal
of the listener and the turn of `tick()` that reports the error. `AbortThrown` is a race won by
`abortPromise`, `PromiseAdded` one won by the barrier, `Return` the end of the loop with what
`tick()` throws. `Complete`, `Throw`, `BubbleUp` are the ends of a node's invocation, `Retry` the
back-off timer, `CallTask` and `CallReturned` the two ends of `call()`, `Abort` the caller's signal
or the step timeout. `Over` is the step of a finished tick.

The two ways `tick()` can be entered with writes already on some tasks are in `Init` (`pending` is
any subset of `Tasks`).

### PregelAlgo

`content` and `finished` are the channels, `versions` and `seen` are `channel_versions` and
`versions_seen`, `updated` is `loop.updatedChannels`, and `tasks` what `_prepareNextTasks` returned.
`Apply` is `_applyWrites` in the order of the code: versions seen, consumption, writes, the wiping
of one-step channels, finish. `Prepare` is `_prepareNextTasks`, with or without the candidates that
`updated` gives. `Invoke` and `Command` are `_first` with an input or a Command, `Superstep` is
`tick()` with all writes there, `Stop` is any reason for which a run ends before that, `Resume` is
`_first` with null. A node's run is a choice among `Options[n]`, the sets of writes it may make, and
an input or a Command one among `Inputs` and `Gotos`. `since` and `sends` are history for the
properties: what was written to a channel since a node was last started by it, and the Sends that
are due.

### PregelResume

`done`, `resumes` and `nullResume` are the pending writes stored with the checkpoint, reduced to
what a later run reads of them; `pad` is each task's `PregelScratchpad`; `answers` is what the
current attempt's `interrupt()` calls have returned; `commits` is what `_commit` put. A run of the
thread (`Start`) prepares every task that is not done. `AnswerFromList`, `AnswerFromNull` and
`Interrupt` are the three ways through `interrupt()`; `Finish`, `Retry` and `Fail` end an
attempt, `Complete`, `End` and `Crash` a run. `Stored` is `putWrites` in the saver: one
task's writes together, a RESUME replacing the last. In `Crash` any subset of the commits has been
stored. An answer is the number of the run whose Command carried it, so a property can say which
answer it is. `open`, `heard` and `completed` are history.

### PregelCheckpoint and ThreadHistory

The graph's state is one list, kept twice: in a reducer channel, whose value is in every checkpoint,
and in a `DeltaChannel`, whose value is left out of most checkpoints and rebuilt from the writes
stored under their ancestors (`Rebuild`, which is `getDeltaChannelHistory` and `replayWrites`). A
write says at which checkpoint, by which task and in which run it was made, so no two are the same.

`stored` and `writes` are the tables of the saver; `loop` is the `PregelLoop` (its checkpoint, the
snapshot counters, the exit mode's deltas, what was loaded); `todo` the tasks that have not
succeeded; `queue` the puts chained by `_checkpointerPutAfterPrevious`, `inflight` the calls that
are not chained. `Invoke` and `Resume` are `_first`; `Prepare`, `TaskSucceeds` and `Apply` a
superstep; `Settle` the barrier of "sync"; `Finish` and `Return` the end of a run with the exit
flush and the awaits of all promises; `StartUpdate`, `StartCopy` and `FinishUpdate` are
`bulkUpdateState`. The checkpointer does its calls in any order (`PutLands`, `CallLands`), rejects
them (`PutIsRejected`, `CallIsRejected`), or the process dies (`Crash`).

`ThreadHistory` is what a client may rely on: the state that a later run finds is one that some run
has really reached, it grows by the writes of whole supersteps on top of the state that the run was
started from, and no write is in it twice. `PregelCheckpoint!Thread` maps `value` to the state of the latest checkpoint
as the reducer channel has it (`ReconstructionMatchesLive` says that the `DeltaChannel` is rebuilt to
the same), `past` to those of all checkpoints and `base` to the durable state of the run under way.

### RunQueue and RunLifecycle

`status`, `thread` and `threadStatus` are the runs and threads of the store; a `worker` sleeps,
works through the list of pending runs it has read (`Poll`, `Advance`), holds a run while its graph
streams (`StreamOver`) and then stores the two statuses in two turns (`SetRunStatus`,
`SetThreadStatus`), between which everything may happen. `Put` is `Runs.put` with the four
multitask strategies, of which "interrupt" and "rollback" cancel the runs they found in a later turn
(`cancels`, `CancelReplaced`); `CancelRun` and `DeleteRun` are the clients' requests, `EagerDelete`
the deletion a rollback leaves behind, `Restart` a graceful stop of the server: locks, workers and
signals are gone, the store has been written. A worker that throws outside its `try` is "dead", as
it is in the code.

`RunLifecycle` is the life of a run without workers, lists, locks and signals: created once, started
only while its thread has no running run, ended once with an outcome or stopped before it begins,
and after that only deleted. `RunQueue` implements it with the identity on `status` and `thread`.

### RunStream

`queue` is `StreamManager.readers[runId]`, created by whoever comes first; a `reader` is one
`Stream.join`. `Publish` and what waiting readers do with the message are one action, since the
listener is called synchronously; `Get` and `Timeout` are the two ends of `Queue.get`, `Lookup` the
status query after a timeout, which takes a turn of its own when authorisation is asynchronous
(`authWaits`), `Abort` the client that leaves. `End` and `Delete` are what happens to the run.

### BatchedStore

One item of an `InMemoryStore` that the batched stores of several runs share. `Call` is
`enqueueOperation`, `Wake` the timer of `processBatchQueue` with the first half of
`InMemoryStore.batch` (all gets), `Complete` the second half (the last put of each key) with the
answers, `Fail` a batch that throws, `Stop` is `stop()`. A get returns the stored object itself,
which the puts of its own batch change before the answer is seen; `Item` stands for it.

### SubmitCoordinator

`at` is how far each `submit()` or `dispatchResume()` has come, `slot` the submission that
`#runAbort` belongs to, `aborted` its signals, `watch` the terminal event it listens for, `command`
the server's answer, `told` what the application has been told, `drains` the drains scheduled with
`setTimeout`. `Submit` (by its strategy), `Respond`, `Stop` and `CancelQueued` are the calls,
`PumpReady` the await before the dispatch, `CommandFirst`, `ErrorFirst`, `TerminalSettled` and
`ResumeSettled` the continuations after the race of the response with the terminal event, with the
`finally` block in `End`; `Response`, `Begin` and `EndRun` are the server. Submissions are numbered
in the order of the calls, so the queue is a set whose least element is its head.

## Runs

| run | instance | shows | distinct states |
|---|---|---|---|
| `MCRunnerFailures` | three tasks, room for two, t1 with a retry and a handler, every outcome | failures surface or are handled, handlers follow failures; AbortErrors are not blamed; only the last attempt is committed; the limit holds | 2,413,150 |
| `MCRunnerCalls` | two tasks and a call, a fair event loop | nothing is left behind, aborts end the tick, failures cancel, ticks end | 209,280 |
| `MCAlgoThread` | a loop over a fork, a join and Sends, deferred nodes behind a branch and a join, one stop | joins fire for all names and only then, Sends run once, triggers are fresh, the candidates are exact, changes are unseen, deferred nodes run | 33,912 |
| `MCResumeThread` | three tasks with two, one and no questions, four runs | answers fit and stay; later runs pass over exactly what completed | 175,339 |
| `MCCheckpointThread` | two tasks per superstep, three runs or updates, five checkpoints, one fault, all durability modes | what is stored rebuilds what was live, what returns is durable, sync waits, the thread implements `ThreadHistory` | 1,654,798 |
| `MCRunQueueServer` | two workers, two threads, two runs with any strategy, three requests and a restart | one run per thread, `RunLifecycle`, every run ends | 390,162 |
| `MCRunStreamReaders` | two readers with any ids, three messages | no gaps, shared messages are given once, a reader ends with what was there, and ends | 323,194 |
| `MCBatchedStoreCalls` | three clients in two runs, four calls | answers are values the item had, every call is answered | 621,935 |
| `MCSubmitSlot` | three submissions or resumes, one failed dispatch | one run is followed, the queue waits and drains, runs are announced with their end, submissions settle | 116,000 |

and three that end in a counterexample, described under Findings: `MCResumeRetry`,
`MCCheckpointAbandon` and `MCRunStreamReplay`.

**Bounds, and why they are enough.** The runner's properties are about pairs of tasks (one fails,
one is a sibling), a task that is still waiting for room, a called task and a handler; three tasks
and room for two give all of them at once, and the two instances are exhausted without a bound on
the number of steps. `MaxAttempts` is 2 for the task that is retried, so that there is a first, a
last and no middle attempt; the proofs hold for any number. In the graph of `MCPregelAlgo` a
join has two names, a node has at most two triggers, and every class of channel has a writer and a
reader; `MaxSteps` = 7 lets the loop (input, s, a and b, j) come round once and start
again, which is what a join needs to be written while it is consumed; `MaxStops` = 1 puts a stop at
any place in that. In `PregelResume` a thread needs three runs to interrupt, answer and interrupt
the task with two questions; `MaxRuns` = 4 leaves one for a crash, a failure or a null run in
between. Resumes by value, by every set of ids, and with null are all tried, so partial answers
occur with two tasks that wait at different questions. In `PregelCheckpoint` two tasks give a
superstep that is half done; five checkpoints give an input, a superstep with a snapshot, one
without, and a branch or an update with a superstep on top; three runs are one that stops, one that
goes on from it and one that reads what both left. In `RunQueue` two runs on one thread are what the
strategies are about, two threads what the lock must not confuse, two workers what can race; one
request each to cancel, delete and cancel again fits into `MaxRequests` = 3. `RunStream` needs two
readers to compete for a message and three messages for a first, a middle and a last. In
`BatchedStore` four calls of three clients fill a batch while one is under way in the same run and
one in the other. In `SubmitCoordinator` three submissions are the one that runs, the one that
replaces it and the one that waits. The mutants recorded in `PROJECT.json` say, for each property of
a passing run, which plausible change of the code it would notice within these bounds.

`CHECK_DEADLOCK FALSE` is set where the system stops: a thread that is over or has used up its runs,
a graph that is done or has used up `MaxSteps`, a run whose readers have ended, clients that have
made all their calls.

`MCCheckpointThread` has `Disorder` empty: with it go the three things a client can do after which
the parents of a checkpoint tell something else than its value. `"abandon"`, to go on otherwise from
a checkpoint whose superstep has begun, is the finding `MCCheckpointAbandon`; `"blank"`, to update a
thread that has no checkpoint, and `"exit"`, to resume with null in exit mode, are described under
*Other observations*.

**Fairness.** JavaScript runs the continuation of a settled promise and fires the timers that were
set, as long as no code blocks the thread; that is what all fairness here says of the program itself:

- `EventLoopFairness` (`PregelRunner`): the continuations of `tick()`, the reaction to a settled
  promise, the back-off timer, the return of a call whose promise has settled. Nothing is assumed of
  nodes: `AbortEndsTick` and `FailureCancels` hold although a node may run for ever. `TickEnds` takes
  `NodesEnd`, that every invocation ends, as a hypothesis in the formula itself.
- `QueueFairness` (`RunQueue`): the timers of sleeping workers and the store's promises.
  `EveryRunEnds` takes `GraphsEnd`, that a graph's stream ends, as a hypothesis.
- `StreamFairness` (`RunStream`): the 500 ms timers, the answers of authorisation, and that clients
  read what they are sent (a reader is a generator, which goes on only when it is asked).
- `StoreFairness` (`BatchedStore`): the loop's timer, and that the store answers or throws.
- `SubmitFairness` (`SubmitCoordinator`): continuations and timers, that the pump gets ready, the
  server answers, and runs begin and end. The last three are the environment's; without them the
  coordinator waits, as it should.

`PregelAlgo`, `PregelResume` and `PregelCheckpoint` have safety properties only: whether a client
ever resumes a thread, and whether a checkpointer ever answers, is not the code's to promise.

## Proofs

All are for any values of the constants that satisfy the named assumptions of their module, which
say that sets are finite, bounds are natural numbers and functions have their domains.

- `PregelRunnerProofs!TypeCorrect`, `ConcurrencyIsBounded`: `ConcurrencyBound` is inductive given
  the types, since only `Fill` adds tasks of the superstep to the map.
- `PregelRunnerProofs!WaitsForEverything`: with `MaxConcurrency >= 2`, `NothingLeftBehind`. It is
  not inductive: it speaks of the end only. `MapInv` and `RoomInv` say why the end is reached in the
  right state: whatever is under way is in the map (`Tracked`), a started task has run (`StartedRan`),
  the race holds as many tasks as there is room for while some wait (`RaceIsFull`), so with room for
  two the map is not empty when the next ones are started (`MapNotEmpty`), and the loop ends with an
  empty map (`EndedIsEmpty`) and nothing to start (`AllStarted`). With `MaxConcurrency = 1` `MapNotEmpty` fails, and
  so does the code (see *Other observations*).
- `PregelRunnerProofs!FailuresAreSurfaced`, `AbortsAreNeverBlamed`, `CommitsOneAttempt`,
  `HandlersAreForFailures`, for any limit: three invariants, each about what the next one speaks of.
  `MapInv` places every task in the map or outside it, before or after its turn. `RunInv` says task
  by task what `_runWithRetry` keeps to: the writes are of one attempt (`WritesFit`), an AbortError
  comes only under a signal that has fired (`AbortSeen`), an error is its owner's or was passed on
  by a call (`CauseFits`). `CommitInv` says what `tick()` has made of it: `saved` is what the end of
  each task that has left the map calls for, and nothing else (`SavedFits`), and each of them was
  reported (`Reported`). That the map is empty at the end then makes `Reported` `FailuresSurface`.
- `PregelRunnerProofs!ReturnsCommitted`: `ReturnedMeansCommitted`, from the same invariants with
  `BubblesFit`, that the bubble-up to be thrown is one that some node may throw. Two hypotheses:
  `MaxConcurrency >= 2`, as above, and `NoLostDrain`, that a nested graph is run, or nodes do not
  drain, or throw no Command for a parent. In the root graph a task that has drained without writes
  is the one end that leaves none; it is the GraphDrained it throws that keeps `tick()` from
  returning, and a Command for a parent that settles later takes its place (runner.ts:158), only to
  be dropped (204). `MCRunnerFailures` is about a nested graph.
- `PregelAlgoProofs!EveryChangeIsUnseen`: `ChangesAreUnseen`, in every graph, whatever nodes write.
  `VersionInv` says that versions are natural numbers with a highest among them and that no node has
  seen a version that is not there yet; the lemmas follow the two places of `_applyWrites` that give
  out versions.
- `PregelAlgoProofs!TypeCorrect`, `StartsAreFresh`: `TriggersAreFresh` if barriers have names
  (`BarriersHaveNames`; a barrier without any is always full). `Fresh` says of every channel that it
  holds only what was written since it last started the node, or that the node has seen it.
- `PregelAlgoProofs!SendsAreNotLost`: `SendsRunOnce` if no Command brings Sends
  (`CommandsSendNothing`): a Command's replace those of a stopped run (topic.ts:84).
- `PregelAlgoProofs!OptimizationIsExact`: `CandidatesAreExact`, and on it `NoArrivalIsLost`:
  `JoinsFire`, and `NoDeferredIsForgotten`: `DeferredRuns`. They hold of graphs that satisfy
  `OneWayIn`, that a node has one way in that outlasts a superstep: a node with both a branch and a
  join leaves the join full (algo.ts:1043), and the next `_prepareNextTasks` finds it or not
  according to `updatedChannels`. `JoinInv` adds that a full barrier has not been seen by any of its
  nodes (`OpenIsUnseen`) and holds what has arrived since it last started them (`ArrivalsAreKept`),
  with `OnlyNamesArrive`, that barriers get nothing but their names. `DeferInv` adds that something
  is due as long as a deferred channel holds something, finished or not; for it only nodes may write
  to such channels (`NodesDefer`: a Command(goto) to a deferred node starts nothing) and a Command
  has no Sends. `MCPregelAlgo` assumes of its graph all that these theorems do (`GraphFits`), so TLC
  checks that there is such a graph. What the code does in the others is under *Other
  observations*; that a barrier has names and gets nothing else is how `StateGraph` attaches edges.
- `PregelResumeProofs!TypeCorrect`, with attempts below `maxAttempts` and answers within the
  questions.
- `PregelResumeProofs!IndexNeverMismatches`: `interrupt()`'s "Resume length mismatch" is never
  thrown. The invariant is that the counter of a running task has not passed the end of its list
  (`CounterInList`), also after failed attempts.
- `PregelResumeProofs!AnswersStayInPlace`: if no node that asks is retried (`RetriedAskNothing`),
  `AnswersAreStable`. `StableInv` is a chain of prefixes: what the attempt has heard is a prefix of
  the scratchpad's list (`HeardFromList`), which extends the stored list (`ListsExtendStored`), as
  every commit does (`CommitsExtendStored`), which extends what was heard when the task last
  committed (`HeardIsStored`). The hypothesis is needed: `MCResumeRetry` is the counterexample
  without it.
- `PregelResumeProofs!CommandsAreHeard`: with the same hypothesis, `AnswersFit`. `FitInv` dates the
  answers, so that a run's own is in no stored list (`AnswersAreDated`), and says that the stored
  list of a task ends just before its open question (`OpenIsNext`), now and once the commits under
  way are stored (`InterruptsFit`); so the Command's answer is, or will be, in the scratchpad at the
  place of that question and nowhere else (`ListsFit`).
- `PregelResumeProofs!CompletedStaysDone`: `DoneStaysDone` if nodes that call `interrupt()` write
  something (`SilentAskNothing`). `SkippedHaveCompleted`: `OnlyDoneIsSkipped` if conditional edges
  do not throw (`EdgesDoNotFail`). Each hypothesis is what one inclusion between `done` and
  `completed` takes (`CompletedAreMarked`, `MarkedAreCompleted`), and the code fails without it
  (runner.ts:463 and 448).
- `PregelCheckpointProofs!TypeCorrect`, for every `Disorder`. `TypeInv` says besides the types that
  ids grow: everything that is stored, queued or in flight lies under an id that was handed out.
- `PregelCheckpointProofs!NoTaskRunsAhead`: `SyncWaits`. `SyncHolds` says what the queue may hold in
  "sync"; `BarrierHolds`, about the turn before, says that the last put that `Settle` waits for is
  the state the loop has got to.
- `PregelCheckpointProofs!ReturnsDurable`: `ReturnedIsDurable`. `HandedOver` says, from the exit
  flush on and in the other modes throughout, that the loop's checkpoint and the writes of its tasks
  are stored or are among the calls that the end of the run waits for, unless a call was rejected;
  then the run does not return.
- `PregelCheckpointProofs!ThreadIsHistory`: `ThreadSpec`, the refinement of `ThreadHistory`, step by
  step: a start is a `Begin`, a put that lands is a `Commit`, everything else stutters. `RowsInv`
  says that a task has one row per superstep, with the marks of that execution; `MarksInv` that the
  state of a checkpoint has every mark once and only marks of older checkpoints, so those of a
  superstep are new to it; `OrderInv` that the durable state, the states in the queue and the loop's
  own extend each other in this order; `LatestInv` that a put adds the latest checkpoint or repeats
  the durable one; `StubInv` that the stub under which a new thread's exit run stores its deltas is
  older than all of the thread. The hypothesis is that no client does what `"abandon"` stands for;
  why it is needed is described under *Other observations*.
- `PregelCheckpointProofs!ReadersSeeWhatWasWritten`: `ReconstructionMatchesLive`, if `Disorder` is
  empty. The invariant, on top of those of `ThreadIsHistory`, is that checkpoints chain (`ChainInv`).
  `Links`: a checkpoint without a snapshot holds the state of its parent followed by the `Deltas` of
  the rows under the parent, whether these are stored or on their way, unless one of them was lost
  (`Damaged`); `TrueSnapshots`: a snapshot is the state itself, as long as nothing of the thread was
  lost (`Sound`); `FreshPuts`: what is on its way is new, and nothing that is stored builds on it.
  The rest says that what the loop is about to put will be linked. `HeadInv` and `HeadInOrder`: the
  rows under the loop's checkpoint are those of the superstep under way, and were handed over or lost.
  `ExitInv`: the writes that the exit mode keeps back, put under the anchor it will store them under,
  make the loop's state of the anchor's, in the order of their supersteps. `UpdateInv`: an update
  builds on a checkpoint with all of its rows, and a copy takes the parent of the original. That a
  thread in which every call has settled is whole is `SettledIsSound`; `SoundIsTold` follows the walk
  of `Rebuild` up the parents, by induction on its length. What the proof needs of `Deltas` is that
  rows of later groups come after those of earlier ones (`DeltasJoin`), that it does not depend on
  where the rows are stored (`DeltasRenamed`), and both for a superstep of the exit mode
  (`ExitWritesGrow`). Each of the three kinds of disorder breaks a link: `MCCheckpointAbandon` shows
  it for one, *Other observations* for the others.
- `RunQueueProofs!TypeCorrect`, `OneAtATime` and `LifecycleRefined`, the refinement of
  `RunLifecycle`: `RunInv` says that a run that a worker executes is marked as running or was deleted
  (`ExecutedIsRunning`), by one worker (`OneWorkerPerRun`), and that a thread has one run that is
  marked so (`OneRunning`). The locks do not appear in it: what protects a thread is that `Free`
  looks at the status of its runs and that taking a run and marking it are one turn.
- `RunStreamProofs!TypeCorrect`, `NothingIsMissed`, `MessagesAreShared`, `EndsWithEverything`: the
  log of a resumable queue holds every id at its place, any other log the newest ids (`QueueFits`);
  a reader of a resumable queue waits only when it has got to the end of the log (`WaitFits`), so
  the message that wakes it is the next one; each message of another queue is in the log or with
  exactly one reader (`Shared`).
- `BatchedStoreProofs!TypeCorrect`, `CallsTakeEffect`: every call is in one place of one queue or
  batch (`CallsPlaced`), so the result at its index is its own; whoever waits has seen the item's
  present value (`SeesItem`), so what a get is given was the item during the call; and the value of a
  put that is under way has been seen by nobody (`PutsAreNew`), so the put that is answered has seen
  two values.
- `SubmitCoordinatorProofs!TypeCorrect`, `FollowsOneRun`, `RunsAreAnnounced`, `DrainsWhenIdle`: the
  slot is only replaced together with aborting whatever it belonged to, and is emptied only by the
  submission it belongs to. `KindsFit` and `CallsFit` say what is known of a call from how far it has
  come, which is what `OneInFlight` and `Announced` lack to be inductive.

Only model-checked: the liveness properties `AbortEndsTick`, `FailureCancels`, `TickEnds`,
`EveryRunEnds`, `ReadersEnd`, `EveryCallReturns`, `SubmitsSettle` and `QueueDrains`, which the prover
does not handle under fairness. Every invariant, action property and refinement that a passing run
checks has a theorem. Where a theorem has a hypothesis about the graph, the nodes or the clients that
its module does not assume anyway, the bullet above names it and says what the code does without it.

The library's induction theorems are out of the provers' reach, so each recursion that is proved
about takes an induction of its own: `PregelCheckpointProofs!LeastNatural` (a set of natural numbers
has a least one) is what stands in for them. `FlattenJoins` and `DeltasOnce` use it for the recursion
in `Deltas`, and `RebuildTold` for the walk of `Rebuild`. `Deltas` takes the rows of a superstep by
rank (`Nth`), which is the order of the task ids without a sort, and `Rebuild` the walks of every
length at once, up to one step per stored checkpoint.

## Findings

Each is a run whose property states what a document or comment says, and which the code violates.

- `MCResumeRetry`: `interruptCounter` is not reset between attempts (algo.ts:1500, retry.ts:111), so
  a retried node gets the answers to other questions.
- `MCCheckpointAbandon`: a new input over an interrupted superstep leaves the writes of its finished
  tasks stored under the old checkpoint (loop.ts:1538-1547), where `getDeltaChannelHistory` picks
  them up for every later checkpoint: a DeltaChannel that is loaded has writes that the run never
  had.
- `MCRunStreamReplay`: the queue of a run is created with the flag of whoever comes first
  (ops.mts:174). A client that joins a resumable run without a Last-Event-ID before its first message
  makes the queue one that forgets what it has given out, and nobody can replay the run.

Other observations, made while modelling and not the subject of a run:

*Supersteps.*

- With `maxConcurrency` 1 the loop ends when the first task settles, because the map is empty then
  (runner.ts:323); the other tasks are not started. With 0 it starts nothing and waits for ever.
- `maxConcurrency` does not count tasks started by `call()` or error handlers (runner.ts:581, 377,
  against the comment at 82).
- A task started after an abort never runs its node, settles without an error (retry.ts:103) and is
  committed with NO_WRITES, so a resumed run skips it.
- The abort listener is removed when the first task settles (runner.ts:395): a step timeout that
  fires later does not end the tick if a node ignores its signal. When `abortPromise` wins, the other
  tasks go on in the background and may still write.
- A ParentCommand without writes of a node with a handler is marked as handled (runner.ts:447-453),
  but no handler is scheduled for it (363). A drain is replaced by a ParentCommand that settles later
  (runner.ts:158, 197).
- The promise that `call()` finds for a call that is under way resolves to a `SettledPregelTask`, not
  to the call's result (runner.ts:542).

*Channels.*

- When a branch and a full join of the same node fire in one superstep, only the branch is used up
  (algo.ts:1043). The join stays full, and a run that is resumed without `updatedChannels` starts the
  node again.
- A deferred node may be started together with Sends: "last superstep" looks at triggers only
  (algo.ts:423). A Command(goto) to a deferred node starts nothing.
- Two tasks that write the same `LastValue` make its update throw after other channels have been
  updated (last_value.ts:38); a barrier whose names were never set is full when it is restored
  (dynamic_barrier_value.ts:41).
- A Command with Sends replaces the Sends of a run that was stopped (topic.ts:84), and the new tasks
  have the ids of the dropped ones.

*Resumption.*

- A node that was answered and writes nothing leaves no mark (runner.ts:463), and is executed again
  when the thread resumes for a sibling. A conditional edge that throws is committed with its node's
  update (runner.ts:448): the resumed run takes the task for done, and the edge is never taken.
- The null resume stays stored with the checkpoint after it was consumed (loop.ts:1424). After
  `Command(resume)` that leads to another interrupt, a run with null, or one that answers a sibling
  by id, hands the old value to the new interrupt. A falsy resume value is ignored (io.ts:97,
  algo.ts:1506).
- When two tasks take the same null resume, the second removes the last of the pending writes in
  memory: `splice(findIndex(...), 1)` with -1 (algo.ts:1508). With exit durability that write is
  lost.

*Checkpoints.*

- With exit durability a run with null puts its checkpoint under the id it was loaded from
  (loop.ts:1168), which is then its own parent; `MemorySaver.getDeltaChannelHistory` follows parents
  without an end (memory.ts:572). The model gets there in eight states with `Disorder = {"exit"}`.
- An update of a thread that has no checkpoint (`Disorder = {"blank"}`) stores writes that no
  checkpoint's ancestors hold. So does a new thread's first input to a DeltaChannel, whose writes go
  under the id of a checkpoint that is never stored.
- A superstep that is half done in "sync", is resumed with null in exit mode and crashes before its
  checkpoint is put leaves its writes stored twice under one checkpoint: as its own, and as those of
  a superstep of the exit run. An update as a node over that checkpoint applies both, and the state
  of the thread has a write twice. It takes `Disorder = {"abandon", "exit"}` and three runs, and is
  what `ThreadIsHistory` excludes.
- `putWrites` is not chained with the puts (loop.ts:824-829): when one is rejected, the run fails at its
  next barrier, but the checkpoint that is computed from the lost writes may have been stored. An exit
  run that resumes a superstep that was partly done stores the old writes twice.
- In "sync" the input's checkpoint is not awaited, against the description of the mode
  (types.ts:352); only those of supersteps are.

*Server.*

- Deleting a run while it is executed makes `setStatus` throw twice, once in the `catch`; the
  worker's loop ends with it and is never started again (queue.mts:136). The same happens when a
  rollback's deletion overtakes the worker.
- A restart leaves "running" runs, and these block their threads for ever. Rolling a running run back
  ends it as "error" and does not delete it (against types.ts:111). Cancelling sets the thread idle
  though another run of it is running; an eager deletion leaves it "busy"; a rejected `put` marks it
  "busy".
- The list that `Runs.next` works off is as old as the first of its runs: runs put meanwhile with an
  earlier turn are passed over, and enqueued runs may be executed out of order (ops.mts:1306).
- With asynchronous authorisation a run may end between a reader's timeout and its query, and the
  reader ends without the last messages; readers whose clients have left go on consuming messages
  of a queue that is not resumable; queues are never dropped from `StreamManager.readers`.

*Store.* Calls made during the batch that `stop()` waits for, or after it, are never answered; a
`start()` after `stop()` during a batch would make two loops. Gets of a batch are looked up before
its puts, whatever the order of the calls; a get returns the stored object, which later puts change.

*SDK.*

- When the terminal event comes before the response, an error of the dispatch is swallowed, since
  `terminalSettled` is set before the `catch` looks at it (submit-coordinator.ts:503-511, against the
  comment there).
- The `finally` of a submission that was aborted sets `isLoading` to false while the next run is in
  flight (line 535). A `dispatchResume` that fails leaves queued submissions where they are
  (652-658); `QueueDrains` excludes it. A submission that is aborted while it waits for the pump is
  dispatched all the same (430).
- Terminal events carry no run id: the end of a run that was rolled back settles the submission that
  replaced it, and the queue drains while its run is in flight.

## What is left out

- `PregelRunner`: the values of calls and the ids of their tasks, the cache, `onStepWrite`, and the
  sleep of the back-off. A node writes one value to an abstract channel; what a node goes on doing
  after its run has thrown is outside the tick.
- `PregelAlgo`: values and reducers, `shouldInterrupt`, managed values, the order of tasks, the
  writes of `updateState`. An invalid update ends the thread.
- `PregelResume`: subgraphs, `call()`, error handlers, time travel, maxConcurrency, exit durability
  and the in-memory pending writes. An error is a plain error, retried under any policy. The
  superstep is replaced only when it is complete; an input over an interrupted thread is
  `PregelAlgo!Invoke` and `PregelCheckpoint!Invoke`.
- `PregelCheckpoint`: subgraphs and their namespaces, `Overwrite`, raw channel writes as input,
  updates with END or INPUT, empty updates, reducers other than appending. A client starts the next
  run when the calls of the previous one have settled. Writes that were lost in a crash or a
  rejection are kept in `lost`, and what they leave out is not compared.
- `RunQueue`: `after_seconds`, equal creation times, authorisation, stateless runs, deleting threads,
  webhooks, the retry counter, a crash in the three seconds before the store is written.
- `RunStream`: restarts, the `:control` events, the contents of messages.
- `BatchedStore`: search, deletion, namespaces, vectors, stores that fail half-way.
- `SubmitCoordinator`: changing the thread, threads the SDK creates, optimistic state, errors and the
  loading flag; it is disposed of by `stop()` and clearing the queue, with no calls after.
- Not modelled: step timeouts of single nodes, the streams within a process, protocol sessions, the
  subscriptions and projections of the SDK's controller, for which see the plan; graph builders, the
  functional API and the prebuilt agents, which are sequential and end in graphs that the modules
  take as constants; database savers, whose contract is `MemorySaver`'s and whose rest is SQL;
  serialisation, HTTP, CLI and UI bindings, which are data conversion and I/O. These are most of the
  repository's lines, and the reason why `PROJECT.json` maps a small share of them: what is modelled
  is the part that holds state which several actors change. `PROJECT.json` lists every component.

## Plan

1. Superstep, channels, resumption (`PregelRunner`, `PregelAlgo`, `PregelResume`): done.
2. Checkpoints and durability with `ThreadHistory`: done. Next: subgraphs, whose checkpoints are in
   namespaces of their own.
3. Server and client: runs, streams, submissions, with `RunLifecycle`: done. Next: the protocol
   sessions and the SDK's replay of events after a reconnect, composed with `RunStream`.
4. The store: done for gets and puts.
5. Error handlers across a resume (loop.ts:1345) as part of `PregelResume`, and `timeout.ts`: the
   race of idle and run deadlines with the attempt.
