-------------------------- MODULE PregelCheckpoint --------------------------
(***************************************************************************)
(* One thread of a graph with a checkpointer: runs, one after the other,   *)
(* go through supersteps and store checkpoints and pending writes; the     *)
(* client reads, updates and branches the thread in between.               *)
(*                                                                         *)
(* The graph's state is one list, kept twice: in a reducer channel, whose  *)
(* value every checkpoint holds, and in a DeltaChannel, whose value is     *)
(* left out of most checkpoints and rebuilt from the writes stored under   *)
(* their ancestors.  A write is the triple of the checkpoint it was made   *)
(* at, the task and the number of the run, so no two executions write the  *)
(* same.  The checkpointer's calls are atomic; when they take effect is    *)
(* its own business, except that the loop chains the put of a checkpoint   *)
(* after the previous one.                                                 *)
(***************************************************************************)
EXTENDS Integers, FiniteSets, Sequences, SequencesExt

CONSTANTS
    Tasks,          \* numbers of the tasks that every superstep has
    Silent,         \* those whose nodes write nothing (NO_WRITES)
    Durabilities,   \* of the runs: "sync", "async", "exit"
    SnapshotFrequency, \* DeltaChannel.snapshotFrequency
    MaxSupersteps,  \* DELTA_MAX_SUPERSTEPS_SINCE_SNAPSHOT
    Disorder,       \* what clients may do although the parents of a checkpoint then tell something else than
                    \* its value: "abandon" go on otherwise from a checkpoint whose superstep has begun,
                    \* "blank" update a thread without a checkpoint, "exit" resume with durability "exit"
    MaxFaults,      \* bound on crashes and rejected calls
    MaxRuns,        \* bound on runs and updates
    MaxCheckpoints  \* bound on checkpoint ids

ASSUME CheckpointAssumption ==
    /\ Tasks \subseteq Nat \ {0} /\ IsFiniteSet(Tasks)
    /\ Silent \subseteq Tasks
    /\ Durabilities \subseteq {"sync", "async", "exit"}
    /\ SnapshotFrequency \in Nat \ {0} /\ MaxSupersteps \in Nat \ {0}
    /\ Disorder \subseteq {"abandon", "blank", "exit"}
    /\ MaxFaults \in Nat /\ MaxRuns \in Nat /\ MaxCheckpoints \in Nat

VARIABLES
    \* the checkpointer
    stored,    \* the checkpoints of the thread, by id
    writes,    \* the pending writes of all checkpoints
    \* the process
    phase,     \* "idle"; "tick": between supersteps; "run": tasks execute; "settle": the barrier of "sync";
               \* "drain": the run is over and waits for the checkpointer; "update": updateState is about to put
    loop,      \* PregelLoop
    todo,      \* tasks that have not succeeded; one that throws or interrupts stays in it
    queue,     \* puts chained by _checkpointerPutAfterPrevious
    inflight,  \* other calls of the checkpointer under way: putWrites, and the put of the stub
    rejected,  \* a tracked promise has been rejected; a chained put was
    runs,      \* runs and updates so far
    faults,    \* crashes and rejected calls so far
    nextId,    \* checkpoint ids are handed out in the order of time
    \* history
    lost,      \* writes that never reached the checkpointer
    base,      \* the durable state of the run under way
    returned   \* the last run has returned without an error of the checkpointer

saverVars == <<stored, writes>>
runVars == <<phase, loop, todo>>
pendingVars == <<queue, inflight, rejected>>
countVars == <<runs, faults, nextId>>
historyVars == <<lost, base, returned>>
vars == <<saverVars, runVars, pendingVars, countVars, historyVars>>

-----------------------------------------------------------------------------
None == 0                       \* no checkpoint
Own == MaxCheckpoints + 1000    \* group of an ordinary task id; exitDeltaTaskId gives the superstep's, which sorts first
Endless == <<<<0, 0, 0>>, <<0, 0, 0>>>>  \* the walk over the parents does not end; no state has a mark twice

\* One row of the writes table: the row's key is at, group, of and task, its deltas at most one.
Write(at, group, of, task, deltas) ==
    [at |-> at, group |-> group, of |-> of, task |-> task, deltas |-> deltas]

SameRow(v, w) == v.at = w.at /\ v.group = w.group /\ v.of = w.of /\ v.task = w.task

\* The order of task ids, as far as anything depends on it.
Before(v, w) == \/ v.group < w.group
                \/ v.group = w.group /\ v.of < w.of
                \/ v.group = w.group /\ v.of = w.of /\ v.task < w.task

\* The i-th of some rows.
Nth(rows, i) == CHOOSE w \in rows : Cardinality({v \in rows : Before(v, w)}) = i - 1

\* The DeltaChannel's part of some rows, in the order of their task ids.
Deltas(rows) == FlattenSeq([i \in 1..Cardinality(rows) |-> Nth(rows, i).deltas])

RowsAt(c) == {w \in writes : w.at = c}

\* getDeltaChannelHistory and replayWrites: what a reader makes of checkpoint c.
Rebuild(c) ==
    LET value[n \in 0..Cardinality(DOMAIN stored)] == [i \in DOMAIN stored |->
            LET p == stored[i].parent IN
            CASE stored[i].snapshot # {} -> CHOOSE s \in stored[i].snapshot : TRUE
              [] stored[i].snapshot = {} /\ p \notin DOMAIN stored -> <<>>
              [] stored[i].snapshot = {} /\ p \in DOMAIN stored /\ n = 0 -> Endless
              [] OTHER -> LET before == value[n - 1][p]
                          IN IF before = Endless THEN Endless ELSE before \o Deltas(RowsAt(p))]
    IN value[Cardinality(DOMAIN stored)][c]

Latest == IF stored = <<>> THEN None ELSE CHOOSE c \in DOMAIN stored : \A d \in DOMAIN stored : d <= c

\* A checkpoint's row; counters is counters_since_delta_snapshot.
Checkpoint(id, parent, plain, snapshot, counters, step, more, source) ==
    [id |-> id, parent |-> parent, plain |-> plain, snapshot |-> snapshot, counters |-> counters,
     step |-> step, more |-> more, source |-> source]

\* Mutant of Stub: emptyCheckpoint() without the id that the writes name.
StubWithoutId(id) == Checkpoint(None, None, <<>>, {}, <<0, 0>>, -2, FALSE, "loop")

\* The checkpoint that a new thread's deltas are stored under in "exit".
Stub(id) == Checkpoint(id, None, <<>>, {}, <<0, 0>>, -2, FALSE, "loop")

\* deltaChannelsToSnapshot.
Snapshots(counters) == counters[1] >= SnapshotFrequency \/ counters[2] >= MaxSupersteps

Counted(counters, updated) == <<counters[1] + (IF updated THEN 1 ELSE 0), counters[2] + 1>>

\* MemorySaver.put and putWrites (the first write of a row stays).
Put(st, c) == [i \in DOMAIN st \cup {c.id} |-> IF i = c.id THEN c ELSE st[i]]

PutWrite(ws, w) == IF \E v \in ws : SameRow(v, w) THEN ws ELSE ws \cup {w}

\* A loop that runs nothing.
NoLoop == [durability |-> "sync", skipDone |-> TRUE, head |-> None, config |-> None, initial |-> None,
           empty |-> None, plain |-> <<>>, live |-> <<>>, counters |-> <<0, 0>>, step |-> 0,
           more |-> FALSE, source |-> "loop", pending |-> {}, exitWrites |-> {}]

NoneRejected == [some |-> FALSE, chain |-> FALSE]

Init ==
    /\ stored = <<>> /\ writes = {}
    /\ phase = "idle" /\ loop = NoLoop /\ todo = {}
    /\ queue = <<>> /\ inflight = {}
    /\ rejected = NoneRejected
    /\ runs = 0 /\ faults = 0 /\ nextId = 1
    /\ lost = {} /\ base = <<>> /\ returned = FALSE

-----------------------------------------------------------------------------
\* _putCheckpoint with the loop l, whose fields are those of the superstep just
\* finished: the checkpoint that is stored, and the loop after it.
Exiting(l, id) == id = l.head

NewCounters(l, id, updated) == IF Exiting(l, id) THEN l.counters ELSE Counted(l.counters, updated)

DoCheckpoint(l, id) == l.durability # "exit" \/ Exiting(l, id)

TakesSnapshot(l, id, updated) == DoCheckpoint(l, id) /\ Snapshots(NewCounters(l, id, updated))

CheckpointOf(l, id, updated, more, source) ==
    Checkpoint(id, l.config, l.plain,
               IF TakesSnapshot(l, id, updated) THEN {l.live} ELSE {},
               IF TakesSnapshot(l, id, updated) THEN <<0, 0>> ELSE NewCounters(l, id, updated),
               IF Exiting(l, id) THEN l.step - 1 ELSE l.step, more, source)

AfterPut(l, id, updated, more, source) ==
    [l EXCEPT !.head = id,
              !.config = IF DoCheckpoint(l, id) THEN id ELSE l.config,
              !.counters = CheckpointOf(l, id, updated, more, source).counters,
              !.step = IF Exiting(l, id) THEN l.step ELSE l.step + 1,
              !.more = more, !.source = source]

\* Mutant of Chain: a put overtakes the ones before it.
Overtake(c) == queue' = IF rejected.chain THEN queue ELSE <<c>> \o queue

\* A put chained after a rejected one is never made.
Chain(c) == queue' = IF rejected.chain THEN queue ELSE Append(queue, c)

PutCheckpoint(l, id, updated, more, source) ==
    /\ loop' = AfterPut(l, id, updated, more, source)
    /\ IF DoCheckpoint(l, id) THEN Chain(CheckpointOf(l, id, updated, more, source))
                              ELSE queue' = queue

-----------------------------------------------------------------------------
(* A run starts.                                                             *)

\* PregelLoop.initialize: the state of checkpoint c, or of an empty one.
\* A client that names it has what is done in its superstep done again (skipDoneTasks,
\* which makes a difference only where writes are pending).
Loaded(c, durability, explicit) ==
    IF c = None
    THEN [NoLoop EXCEPT !.durability = durability, !.head = nextId, !.empty = nextId, !.step = -1]
    ELSE [NoLoop EXCEPT !.durability = durability, !.skipDone = ~explicit \/ RowsAt(c) = {},
                        !.head = c, !.config = c, !.initial = c, !.empty = c,
                        !.plain = stored[c].plain, !.live = Rebuild(c),
                        !.counters = stored[c].counters, !.step = stored[c].step + 1,
                        !.more = stored[c].more, !.source = stored[c].source,
                        !.pending = RowsAt(c)]

\* Checkpoints a client can name: the latest, without saying so, or any of them.
CanName(c, explicit) == IF explicit THEN c \in DOMAIN stored ELSE c = Latest

\* The rows under c are all of its own tasks.
OwnRows(c) == \A w \in RowsAt(c) : w.group = Own /\ w.of = c /\ w.task \in Tasks

\* Nothing has been done from c on: it has neither writes nor a child.
Untouched(c) == RowsAt(c) = {} /\ \A d \in DOMAIN stored : stored[d].parent # c

\* The next run can start: nothing of the last one is under way.
Ready(c) == /\ phase = "idle" /\ queue = <<>> /\ inflight = {}
            /\ runs < MaxRuns /\ nextId < MaxCheckpoints
            /\ c \in DOMAIN stored => Rebuild(c) # Endless

Started == /\ phase' = "tick" /\ todo' = {} /\ runs' = runs + 1
           /\ returned' = FALSE
           /\ UNCHANGED <<saverVars, inflight, rejected, faults, lost>>

\* _first with an input, which goes to the channel that starts the graph.
\* The input checkpoint is put without waiting for it, also in "sync".
Invoke(durability, c, explicit) ==
    /\ Ready(c) /\ CanName(c, explicit) /\ (c = None => ~explicit)
    /\ "abandon" \in Disorder \/ (IF durability = "exit" THEN Untouched(c) ELSE RowsAt(c) = {})
    /\ LET l == Loaded(c, durability, explicit)
           id == IF c = None THEN nextId + 1 ELSE nextId
       IN /\ PutCheckpoint(l, id, FALSE, TRUE, "input")
          /\ nextId' = id + 1
          /\ base' = l.plain
    /\ Started

\* _first with null: go on from c.  With an explicit checkpoint_id that is not
\* the head, and that is not itself a branch, the run gets a checkpoint of its own.
Forks(c, explicit) == explicit /\ c # Latest /\ stored[c].source \notin {"update", "fork"}

Resume(durability, c, explicit) ==
    /\ Ready(c) /\ c # None /\ CanName(c, explicit)
    /\ durability = "exit" => "exit" \in Disorder
    /\ \/ "abandon" \in Disorder \/ Untouched(c)
       \/ Forks(c, explicit) /\ RowsAt(c) = {}
       \/ ~explicit /\ OwnRows(c)
    /\ LET l == Loaded(c, durability, explicit) IN
       /\ base' = l.plain
       /\ IF Forks(c, explicit)
          THEN PutCheckpoint(l, nextId, FALSE, l.more, "fork") /\ nextId' = nextId + 1
          ELSE loop' = l /\ UNCHANGED <<queue, nextId>>
    /\ Started

-----------------------------------------------------------------------------
(* Supersteps.                                                               *)

\* Rows of the tasks of the superstep under way.
Current(rows) == {w \in rows : w.group = Own /\ w.of = loop.head /\ w.task \in Tasks}

\* tick, its second half: prepare the tasks; those with pending writes have run.
Prepare ==
    /\ phase = "tick" /\ loop.more
    /\ phase' = "run"
    /\ todo' = IF loop.skipDone THEN Tasks \ {w.task : w \in Current(loop.pending)} ELSE Tasks
    /\ UNCHANGED <<saverVars, loop, pendingVars, countVars, historyVars>>

\* A task succeeds: putWrites of the loop.
TaskSucceeds(t) ==
    /\ phase = "run" /\ t \in todo
    /\ LET row == Write(loop.head, Own, loop.head, t,
                        IF t \in Silent THEN <<>> ELSE <<<<loop.head, t, runs>>>>)
       IN /\ loop' = [loop EXCEPT !.pending =
                          {w \in @ : w.of # row.of \/ w.group # Own \/ w.task # t} \cup {row}]
          /\ inflight' = IF loop.durability = "exit" THEN inflight
                         ELSE inflight \cup {[op |-> "putWrites", row |-> row]}
    /\ todo' = todo \ {t}
    /\ UNCHANGED <<saverVars, phase, queue, rejected, countVars, historyVars>>

\* tick, its first half: apply the writes of the superstep and put its checkpoint.
Apply ==
    /\ phase = "run" /\ todo = {} /\ nextId <= MaxCheckpoints
    /\ LET deltas == Deltas(Current(loop.pending))
           captured == {Write(None, loop.step, w.of, w.task, w.deltas) :
                            w \in {v \in loop.pending : v.deltas # <<>>}}
           l == [loop EXCEPT !.plain = @ \o deltas, !.live = @ \o deltas, !.pending = {},
                             !.exitWrites = IF loop.durability = "exit" THEN @ \cup captured ELSE @]
       IN \E more \in BOOLEAN : PutCheckpoint(l, nextId, deltas # <<>>, more, "loop")
    /\ nextId' = nextId + 1
    /\ phase' = IF loop.durability = "sync" THEN "settle" ELSE "tick"
    /\ UNCHANGED <<saverVars, todo, inflight, rejected, runs, faults, historyVars>>

\* Mutant of Settle: only the puts are awaited.
SettlePuts ==
    /\ phase = "settle" /\ queue = <<>> /\ ~rejected.some
    /\ phase' = "tick"
    /\ UNCHANGED <<saverVars, loop, todo, pendingVars, countVars, historyVars>>

\* _awaitCheckpointerPromises of "sync".
Settle ==
    /\ phase = "settle" /\ queue = <<>> /\ inflight = {} /\ ~rejected.some
    /\ phase' = "tick"
    /\ UNCHANGED <<saverVars, loop, todo, pendingVars, countVars, historyVars>>

-----------------------------------------------------------------------------
(* A run ends: no task is left, or one has thrown or interrupted, or an      *)
(* interrupt before or after a node, a drain, the recursion limit or the     *)
(* client's signal stops the graph, or the barrier of "sync" has thrown.     *)

\* _putExitDeltaWrites: the rows that are anchored, and on what.
ExitRows == IF TakesSnapshot(loop, loop.head, FALSE) THEN {} ELSE loop.exitWrites

\* Mutant of Anchor: the deltas are stored under the checkpoint that has applied them.
AnchorOnHead == loop.head

Anchor == IF loop.initial # None THEN loop.initial ELSE loop.empty

NeedsStub == ExitRows # {} /\ loop.initial = None

Calls(rows, c) == {[op |-> "putWrites", row |-> [w EXCEPT !.at = c]] : w \in rows}

\* finishAndHandleError: in "exit" the deltas, the checkpoint and the pending writes.
Finish ==
    /\ \/ phase \in {"tick", "run"}
       \/ phase = "settle" /\ rejected.some
    /\ phase' = "drain"
    /\ IF loop.durability = "exit"
       THEN /\ PutCheckpoint([loop EXCEPT !.config = IF NeedsStub THEN loop.empty ELSE @],
                             loop.head, FALSE, loop.more, loop.source)
            /\ inflight' = inflight
                   \cup (IF NeedsStub THEN {[op |-> "put", row |-> Stub(loop.empty)]} ELSE {})
                   \cup Calls(ExitRows, Anchor) \cup Calls(loop.pending, loop.head)
       ELSE UNCHANGED <<loop, queue, inflight>>
    /\ UNCHANGED <<saverVars, todo, rejected, countVars, historyVars>>

\* Mutant of Return: the puts are awaited, the writes are not.
ReturnEarly ==
    /\ phase = "drain"
    /\ rejected.some \/ queue = <<>>
    /\ phase' = "idle" /\ returned' = ~rejected.some
    /\ rejected' = NoneRejected
    /\ UNCHANGED <<saverVars, loop, todo, queue, inflight, countVars, lost, base>>

\* The stream's last step: await all promises, or throw what one was rejected with.
Return ==
    /\ phase = "drain"
    /\ \/ rejected.some
       \/ queue = <<>> /\ inflight = {}
    /\ phase' = "idle" /\ returned' = ~rejected.some
    /\ rejected' = NoneRejected
    /\ UNCHANGED <<saverVars, loop, todo, queue, inflight, countVars, lost, base>>

-----------------------------------------------------------------------------
(* updateState as a node: the write is stored under the checkpoint, if there  *)
(* is one, then the new checkpoint is put.  As COPY: only the put.            *)

StartUpdate(c, explicit) ==
    /\ Ready(c) /\ CanName(c, explicit) /\ (c = None => ~explicit)
    /\ c = None => "blank" \in Disorder
    /\ "abandon" \in Disorder \/ Untouched(c)
    /\ LET u == Write(c, Own, c, 0, <<<<c, 0, runs + 1>>>>)
           l == Loaded(c, "sync", explicit)
           deltas == (IF explicit \/ c = None THEN <<>> ELSE Deltas({w \in RowsAt(c) : w.task \in Tasks}))
                         \o u.deltas
       IN /\ writes' = IF c = None THEN writes ELSE PutWrite(writes, u)
          /\ loop' = [l EXCEPT !.plain = @ \o deltas, !.live = @ \o deltas, !.source = "update"]
          /\ base' = l.plain
    /\ phase' = "update" /\ runs' = runs + 1 /\ todo' = {}
    /\ returned' = FALSE
    /\ UNCHANGED <<stored, pendingVars, faults, nextId, lost>>

StartCopy(c) ==
    /\ Ready(c) /\ c \in DOMAIN stored
    /\ loop' = [Loaded(c, "sync", TRUE) EXCEPT !.config = stored[c].parent, !.source = "fork", !.pending = {}]
    /\ base' = stored[c].plain
    /\ phase' = "update" /\ runs' = runs + 1 /\ todo' = {}
    /\ returned' = FALSE
    /\ UNCHANGED <<saverVars, pendingVars, faults, nextId, lost>>

FinishUpdate ==
    /\ phase = "update"
    /\ \E more \in IF loop.source = "fork" THEN {loop.more} ELSE BOOLEAN :
           stored' = Put(stored, Checkpoint(nextId, loop.config, loop.plain,
                                            IF loop.source = "fork" THEN stored[loop.initial].snapshot ELSE {},
                                            <<0, 0>>, loop.step, more, loop.source))
    /\ loop' = [loop EXCEPT !.head = nextId, !.pending = {}]
    /\ base' = loop.plain
    /\ phase' = "idle" /\ nextId' = nextId + 1 /\ returned' = TRUE
    /\ UNCHANGED <<writes, todo, pendingVars, runs, faults, lost>>

-----------------------------------------------------------------------------
(* The checkpointer's calls take effect, or are rejected; the process dies.  *)

PutLands ==
    /\ queue # <<>>
    /\ stored' = Put(stored, Head(queue))
    /\ queue' = Tail(queue)
    /\ base' = Head(queue).plain
    /\ UNCHANGED <<writes, runVars, inflight, rejected, countVars, lost, returned>>

CallLands(call) ==
    /\ call \in inflight
    /\ inflight' = inflight \ {call}
    /\ IF call.op = "put" THEN stored' = Put(stored, call.row) /\ UNCHANGED writes
                          ELSE writes' = PutWrite(writes, call.row) /\ UNCHANGED stored
    /\ UNCHANGED <<runVars, queue, rejected, countVars, historyVars>>

Fault == faults < MaxFaults /\ faults' = faults + 1

LostRows(calls) == {call.row : call \in {k \in calls : k.op = "putWrites"}}

PutIsRejected ==
    /\ Fault /\ queue # <<>>
    /\ queue' = <<>>
    /\ rejected' = IF phase = "idle" THEN rejected ELSE [some |-> TRUE, chain |-> TRUE]
    /\ UNCHANGED <<saverVars, runVars, inflight, runs, nextId, historyVars>>

CallIsRejected(call) ==
    /\ Fault /\ call \in inflight
    /\ inflight' = inflight \ {call}
    /\ rejected' = IF phase = "idle" THEN rejected ELSE [rejected EXCEPT !.some = TRUE]
    /\ lost' = lost \cup LostRows({call})
    /\ UNCHANGED <<saverVars, runVars, queue, runs, nextId, base, returned>>

Crash ==
    /\ Fault
    /\ \/ phase # "idle"
       \/ queue # <<>>
       \/ inflight # {}
    /\ phase' = "idle" /\ loop' = NoLoop /\ todo' = {}
    /\ queue' = <<>> /\ inflight' = {} /\ rejected' = NoneRejected
    /\ lost' = lost \cup LostRows(inflight)
    /\ returned' = FALSE
    /\ UNCHANGED <<saverVars, runs, nextId, base>>

Next ==
    \/ \E c \in DOMAIN stored \cup {None}, explicit \in BOOLEAN :
          \/ \E d \in Durabilities : Invoke(d, c, explicit) \/ Resume(d, c, explicit)
          \/ StartUpdate(c, explicit)
    \/ \E c \in DOMAIN stored : StartCopy(c)
    \/ Prepare
    \/ \E t \in todo : TaskSucceeds(t)
    \/ Apply \/ Settle \/ Finish \/ Return \/ FinishUpdate
    \/ PutLands \/ (\E call \in inflight : CallLands(call))
    \/ PutIsRejected \/ (\E call \in inflight : CallIsRejected(call))
    \/ Crash

Spec == Init /\ [][Next]_vars

-----------------------------------------------------------------------------
\* Every checkpoint and write is a row of its table, a loop is a loop.
TypeOK ==
    /\ \A c \in DOMAIN stored : /\ c \in 1..(nextId - 1) /\ stored[c].id = c
                                /\ stored[c].parent \in 0..(nextId - 1)
    /\ \A w \in writes : w.at \in 1..(nextId - 1) /\ Len(w.deltas) <= 1
    /\ phase \in {"idle", "tick", "run", "settle", "drain", "update"}
    /\ todo \subseteq Tasks
    /\ runs \in 0..MaxRuns /\ faults \in 0..MaxFaults /\ nextId \in 1..(MaxCheckpoints + 2)
    /\ DOMAIN rejected = {"some", "chain"} /\ returned \in BOOLEAN

\* Every call has settled, and what it was to store is stored.
Settled ==
    /\ queue = <<>> /\ inflight = {}
    /\ \A w \in lost : \E v \in writes : SameRow(v, w)
    /\ \A c \in DOMAIN stored : stored[c].parent \in DOMAIN stored \cup {None}

\* What a reader rebuilds of a DeltaChannel at any checkpoint of the thread,
\* the latest or an old one, is what a reducer channel fed with the same writes
\* holds there (getDeltaChannelHistory against _applyWrites), whatever the
\* durability of the runs and wherever they were cut off or branched.
ReconstructionMatchesLive ==
    Settled => \A c \in DOMAIN stored : Rebuild(c) = stored[c].plain

\* When a run returns, its last checkpoint and the writes of every task that
\* succeeded after it are stored (the awaits at the end of _streamIterator).
ReturnedIsDurable ==
    phase = "idle" /\ returned =>
        /\ loop.head \in DOMAIN stored
        /\ stored[loop.head].plain = loop.plain
        /\ \A w \in Current(loop.pending) : \E v \in writes : SameRow(v, w)

\* In "sync" no task runs before the supersteps behind it are durable: at most
\* the checkpoint of the input, or of the branch, is still to be put.
SyncWaits ==
    phase = "run" /\ loop.durability = "sync" =>
        /\ loop.plain = base
        /\ \A call \in inflight : call.row.at = loop.head
        /\ \A i \in 1..Len(queue) : queue[i].source # "loop"

\* The thread keeps what ThreadHistory promises.
Thread == INSTANCE ThreadHistory WITH
    value <- IF stored = <<>> THEN <<>> ELSE stored[Latest].plain,
    past <- {<<>>} \cup {stored[c].plain : c \in DOMAIN stored},
    base <- base

ThreadSpec == Thread!Spec
=============================================================================
