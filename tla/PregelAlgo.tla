----------------------------- MODULE PregelAlgo -----------------------------
(***************************************************************************)
(* The bulk-synchronous core: channels with versions, _applyWrites, which  *)
(* ends a superstep, and _prepareNextTasks, which begins the next one.     *)
(* Runs of a thread start with an input or a Command, stop between         *)
(* supersteps (an interrupt, a drain, a crash, the recursion limit) and    *)
(* resume from the checkpoint, where updatedChannels is not known.         *)
(*                                                                         *)
(* Values are abstract: a channel holds the set of the values it was       *)
(* given, a barrier the names it has seen, the TASKS topic its Sends.      *)
(***************************************************************************)
EXTENDS Integers, Sequences, FiniteSets

CONSTANTS
    Channels,
    Kind,          \* Kind[c]: the channel's class
    Names,         \* Names[c]: the names a barrier waits for
    Nodes,
    Triggers,      \* Triggers[n]: PregelNode.triggers, a sequence of channels
    Options,       \* Options[n]: the sets of writes a run of node n may make
    Inputs,        \* the sets of writes an input maps to
    Gotos,         \* the sets of writes a Command(update, goto) maps to
    MaxSteps,      \* bound: inputs, commands and supersteps in a behaviour
    MaxStops,      \* bound: how often a run stops early
    None           \* "undefined"

Kinds == {"LastValue", "EphemeralValue", "Topic", "NamedBarrierValue",
          "NamedBarrierValueAfterFinish", "LastValueAfterFinish"}
Barriers == {"NamedBarrierValue", "NamedBarrierValueAfterFinish"}
AfterFinish == {"NamedBarrierValueAfterFinish", "LastValueAfterFinish"}

ASSUME GraphAssumption ==
    /\ IsFiniteSet(Channels) /\ Channels # {} /\ IsFiniteSet(Nodes)
    /\ Kind \in [Channels -> Kinds]
    /\ DOMAIN Names = Channels
    /\ DOMAIN Triggers = Nodes
    /\ \A n \in Nodes : Triggers[n] \in Seq(Channels)
    /\ None \notin Channels
    /\ MaxSteps \in Nat /\ MaxStops \in Nat

VARIABLES
    content,    \* content[c]: what channel c holds
    finished,   \* finished[c]: the flag of the AfterFinish channels
    versions,   \* checkpoint.channel_versions, 0 when absent
    seen,       \* checkpoint.versions_seen, 0 when absent
    updated,    \* loop.updatedChannels, None when undefined
    tasks,      \* loop.tasks of the superstep that is under way
    status,     \* "stopped", "running", or "failed" in an invalid update
    steps, stops,
    since,      \* history: the values written to c since n was last started by c
    sends       \* history: the Sends made since a superstep last ended

checkpointVars == <<content, finished, versions, seen>>
vars == <<checkpointVars, updated, tasks, status, steps, stops, since, sends>>

TriggersOf(n) == {Triggers[n][i] : i \in DOMAIN Triggers[n]}
TriggerToNodes(c) == {n \in Nodes : c \in TriggersOf(n)}

-----------------------------------------------------------------------------
\* Channels, as records of the content and the finished flag.

\* Mutant of IsFull: a barrier opens at the first name.
AnyName(c, k) == k.value # {}

IsFull(c, k) == k.value = Names[c]

IsAvailable(c, k) ==
    CASE Kind[c] = "NamedBarrierValue" -> IsFull(c, k)
      [] Kind[c] = "NamedBarrierValueAfterFinish" -> k.finished /\ IsFull(c, k)
      [] Kind[c] = "LastValueAfterFinish" -> k.finished /\ k.value # {}
      [] OTHER -> k.value # {}

Cleared == [value |-> {}, finished |-> FALSE]

\* Mutant of Consumes: consume() of the barriers is a no-op.
ConsumesDeferredOnly(c, k) == Kind[c] = "LastValueAfterFinish" /\ k.finished

\* consume(): a barrier that was waited for and a deferred value start over.
Consumes(c, k) ==
    \/ Kind[c] \in Barriers /\ IsAvailable(c, k)
    \/ Kind[c] = "LastValueAfterFinish" /\ k.finished

\* update(values) with values: the new channel, and whether it changed.
Update(c, k, values) ==
    IF Kind[c] \in Barriers THEN [k EXCEPT !.value = @ \cup values]
    ELSE [value |-> values, finished |-> FALSE]
Updates(c, k, values) == Kind[c] \in Barriers => ~(values \subseteq k.value)

\* update([]) at a new step wipes the channels that last one step.
Wipes(c, k) == Kind[c] \in {"EphemeralValue", "Topic"} /\ k.value # {}

\* finish(): what was deferred becomes available.
Finishes(c, k) ==
    /\ Kind[c] \in AfterFinish /\ ~k.finished
    /\ IF Kind[c] \in Barriers THEN IsFull(c, k) ELSE k.value # {}

-----------------------------------------------------------------------------
\* _applyWrites.  Here ts are the tasks whose triggers are used up, W[c] the
\* values written to c, and step tells whether a task had triggers.

\* Mutant of MaxVersion: the comparison is the wrong way round.
MinVersion ==
    CHOOSE v \in {versions[c] : c \in Channels} : \A c \in Channels : versions[c] >= v

Channel == [c \in Channels |-> [value |-> content[c], finished |-> finished[c]]]

MaxVersion ==
    CHOOSE v \in {versions[c] : c \in Channels} : \A c \in Channels : versions[c] <= v

SeenAfter(ts) ==
    [n \in Nodes |-> [c \in Channels |->
        IF \E t \in ts : t.name = n /\ t.trigger = c THEN versions[c] ELSE seen[n][c]]]

UsedUp(ts) == {t.trigger : t \in ts} \cap Channels
Consumed(ts) == {c \in UsedUp(ts) : Consumes(c, Channel[c])}

AfterConsume(ts) ==
    LET consumed == Consumed(ts)
    IN  [c \in Channels |-> IF c \in consumed THEN Cleared ELSE Channel[c]]

Written(W) == {c \in Channels : W[c] # {}}
AfterWrites(ts, W) ==
    LET ch == AfterConsume(ts)
    IN  [c \in Channels |-> IF c \in Written(W) THEN Update(c, ch[c], W[c]) ELSE ch[c]]
ChangedByWrites(ts, W) ==
    LET ch == AfterConsume(ts) IN {c \in Written(W) : Updates(c, ch[c], W[c])}
UpdatedByWrites(ts, W) ==
    LET ch == AfterWrites(ts, W) IN {c \in ChangedByWrites(ts, W) : IsAvailable(c, ch[c])}

\* Mutant of WipedBy: channels that were not written keep their value.
WipesNothing(ts, W, step) == {}

WipedBy(ts, W, step) ==
    LET ch == AfterWrites(ts, W)
    IN  {c \in Channels \ UpdatedByWrites(ts, W) : step /\ Wipes(c, ch[c])}
AfterStep(ts, W, step) ==
    LET ch == AfterWrites(ts, W)
        wiped == WipedBy(ts, W, step)
    IN  [c \in Channels |-> IF c \in wiped THEN Cleared ELSE ch[c]]

\* Mutant of IsLast: any updated channel puts off the finish.
QuietIsLast(ts, W, step) == step /\ UpdatedByWrites(ts, W) = {}

\* Tentatively the last superstep: no updated channel triggers a node.
IsLast(ts, W, step) ==
    step /\ \A c \in UpdatedByWrites(ts, W) : TriggerToNodes(c) = {}

FinishedBy(ts, W, step) ==
    LET ch == AfterStep(ts, W, step)
    IN  IF IsLast(ts, W, step) THEN {c \in Channels : Finishes(c, ch[c])} ELSE {}
AfterApply(ts, W, step) ==
    LET ch == AfterStep(ts, W, step)
        done == FinishedBy(ts, W, step)
    IN  [c \in Channels |-> IF c \in done THEN [ch[c] EXCEPT !.finished = TRUE] ELSE ch[c]]

UpdatedAfter(ts, W, step) ==
    LET ch == AfterApply(ts, W, step)
    IN  UpdatedByWrites(ts, W) \cup {c \in FinishedBy(ts, W, step) : IsAvailable(c, ch[c])}

\* Consumed channels get the version after the highest, written channels the
\* one after that.
WriteVersion(ts) == IF Consumed(ts) = {} THEN MaxVersion + 1 ELSE MaxVersion + 2

VersionsAfter(ts, W, step) ==
    LET changed == ChangedByWrites(ts, W) \cup WipedBy(ts, W, step) \cup FinishedBy(ts, W, step)
        consumed == Consumed(ts)
        next == WriteVersion(ts)
    IN  [c \in Channels |-> IF c \in changed THEN next
                            ELSE IF c \in consumed THEN MaxVersion + 1 ELSE versions[c]]

\* The Sends among the writes.
NewSends(W) == UNION {W[c] : c \in {d \in Channels : Kind[d] = "Topic"}}

Apply(ts, W, step) ==
    /\ LET ch == AfterApply(ts, W, step)
       IN  /\ content' = [c \in Channels |-> ch[c].value]
           /\ finished' = [c \in Channels |-> ch[c].finished]
    /\ versions' = VersionsAfter(ts, W, step)
    /\ seen' = SeenAfter(ts)
    /\ since' = [n \in Nodes |-> [c \in Channels |->
                    W[c] \cup (IF \E t \in ts : t.name = n /\ t.trigger = c
                               THEN {} ELSE since[n][c])]]
    /\ sends' = NewSends(W) \cup (IF step THEN {} ELSE sends)

-----------------------------------------------------------------------------
\* _prepareNextTasks and _prepareSingleTask over channels ch, versions v and
\* versions_seen s.

IsTriggered(n, c, ch, v, s) == IsAvailable(c, ch[c]) /\ v[c] > s[n][c]

\* The first trigger that is available and has a version not yet seen.
FirstTrigger(n, ch, v, s) ==
    LET fires == {i \in DOMAIN Triggers[n] : IsTriggered(n, Triggers[n][i], ch, v, s)}
    IN  IF fires = {} THEN None
        ELSE Triggers[n][CHOOSE i \in fires : \A j \in fires : i <= j]

PullTask(n, c) == [name |-> n, trigger |-> c, send |-> None]
PullTasks(candidates, ch, v, s) ==
    {PullTask(n, FirstTrigger(n, ch, v, s)) :
        n \in {m \in candidates : FirstTrigger(m, ch, v, s) # None}}

PushTask(send) == [name |-> send.node, trigger |-> None, send |-> send]
Sends(ch) == UNION {ch[c].value : c \in {d \in Channels : Kind[d] = "Topic"}}

\* One PUSH task for each Send in TASKS; its trigger is no channel.
PushTasks(ch) == {PushTask(send) : send \in {x \in Sends(ch) : x.node \in Nodes}}

\* Mutant of CandidateNodes: a node is looked up by its first trigger only.
ByFirstTrigger(u) == {n \in Nodes : u = None \/ Triggers[n][1] \in u}

\* candidateNodes: the nodes of the updated channels, when these are known.
CandidateNodes(u) == IF u = None THEN Nodes ELSE UNION {TriggerToNodes(c) : c \in u}

Prepare(u, ch, v, s) ==
    PushTasks(ch) \cup PullTasks(CandidateNodes(u), ch, v, s)

\* The tasks of the next superstep, from the state it starts in.
PrepareNext(u) == LET ch == Channel' IN tasks' = Prepare(u, ch, versions', seen')
-----------------------------------------------------------------------------
Init ==
    /\ content = [c \in Channels |-> {}] /\ finished = [c \in Channels |-> FALSE]
    /\ versions = [c \in Channels |-> 0]
    /\ seen = [n \in Nodes |-> [c \in Channels |-> 0]]
    /\ updated = None /\ tasks = {} /\ status = "stopped"
    /\ steps = 0 /\ stops = 0
    /\ since = [n \in Nodes |-> [c \in Channels |-> {}]]
    /\ sends = {}

\* What the writes w, sets of [chan, value] records, write to each channel.
Values(w) == [c \in Channels |-> {x.value : x \in {y \in w : y.chan = c}}]

\* _first with an input: the tasks that were due are discarded, their triggers
\* are used up, and the input is written.
Invoke(input) ==
    /\ status = "stopped" /\ steps < MaxSteps
    /\ LET discarded == Prepare(None, Channel, versions, seen)
       IN  /\ Apply(discarded, Values(input), discarded # {})
           /\ updated' = UpdatedAfter(discarded, Values(input), discarded # {})
    /\ PrepareNext(updated')
    /\ status' = "running" /\ steps' = steps + 1
    /\ UNCHANGED stops

\* _first with a Command(update, goto): its writes are applied without a task,
\* and what they updated is not kept.
Command(writes) ==
    /\ status = "stopped" /\ steps < MaxSteps
    /\ \E c \in Channels : versions[c] > 0
    /\ Apply({}, Values(writes), FALSE)
    /\ updated' = None
    /\ PrepareNext(None)
    /\ status' = "running" /\ steps' = steps + 1
    /\ UNCHANGED stops

\* _first without input: the checkpoint is loaded and its tasks are due again.
Resume ==
    /\ status = "stopped"
    /\ \E c \in Channels : versions[c] > 0
    /\ updated' = None
    /\ tasks' = Prepare(None, Channel, versions, seen)
    /\ status' = "running"
    /\ UNCHANGED <<checkpointVars, steps, stops, since, sends>>

\* LastValue accepts the write of one task in a superstep.
IsInvalid(plan) ==
    \E c \in Channels, t, u \in tasks :
        /\ Kind[c] = "LastValue" /\ t # u
        /\ (\E x \in plan[t] : x.chan = c) /\ (\E x \in plan[u] : x.chan = c)

\* What the runs of tasks ts may write: each one of its node's options.
Plans(ts) ==
    {plan \in [ts -> UNION {Options[t.name] : t \in ts}] : \A t \in ts : plan[t] \in Options[t.name]}

\* All tasks have run: their writes are applied and the next tasks prepared.
Superstep ==
    /\ status = "running" /\ tasks # {} /\ steps < MaxSteps
    /\ \E plan \in Plans(tasks) :
          LET W == Values(UNION {plan[t] : t \in tasks})
          IN  IF IsInvalid(plan)
              THEN /\ status' = "failed" /\ tasks' = {} /\ updated' = None
                   /\ UNCHANGED <<checkpointVars, since, sends>>
              ELSE /\ Apply(tasks, W, TRUE)
                   /\ updated' = UpdatedAfter(tasks, W, TRUE)
                   /\ PrepareNext(updated')
                   /\ UNCHANGED status
    /\ steps' = steps + 1
    /\ UNCHANGED stops

\* No tasks: the run is done.
Done ==
    /\ status = "running" /\ tasks = {}
    /\ status' = "stopped" /\ updated' = None
    /\ UNCHANGED <<checkpointVars, tasks, steps, stops, since, sends>>

\* The run ends before its next superstep is applied: an interrupt, a drain, a
\* failed task, a crash, the recursion limit.
Stop ==
    /\ status = "running" /\ tasks # {} /\ stops < MaxStops
    /\ status' = "stopped" /\ updated' = None /\ tasks' = {}
    /\ stops' = stops + 1
    /\ UNCHANGED <<checkpointVars, steps, since, sends>>

Next ==
    \/ \E input \in Inputs : Invoke(input)
    \/ \E writes \in Gotos : Command(writes)
    \/ Resume \/ Superstep \/ Done \/ Stop

Spec == Init /\ [][Next]_vars
-----------------------------------------------------------------------------
\* What the theorems assume of a graph.  The builder sees to the names of a
\* barrier (CompiledStateGraph.attachEdge), unless an edge comes from no node;
\* the others exclude graphs and Commands for which the properties below fail.

\* The sets of writes that a node, an input or a Command may make, and the
\* channels that any of them writes.
Writers == (UNION {Options[n] : n \in Nodes}) \cup Inputs \cup Gotos
Ever == {x.chan : x \in UNION Writers}

\* What lasts one superstep, and what is consumed when it has started a node.
Wiping == {"EphemeralValue", "Topic"}
Kept == Barriers \cup {"LastValueAfterFinish"}

\* A barrier waits for a name, and gets nothing but its names.
BarriersHaveNames == \A c \in Channels : Kind[c] \in Barriers => Names[c] # {}
OnlyNamesArrive ==
    \A x \in UNION Writers : \A c \in Channels :
        x.chan = c /\ Kind[c] \in Barriers => x.value \in Names[c]

\* Of the triggers of a node that anyone writes, all but the first last one
\* superstep: a node that is joined has no branch to it, nor a second join.
OneWayIn ==
    \A n \in Nodes : \A i, j \in DOMAIN Triggers[n] :
        /\ i < j /\ Triggers[n][i] # Triggers[n][j]
        /\ Triggers[n][i] \in Ever /\ Triggers[n][j] \in Ever
        => Kind[Triggers[n][j]] \in Wiping

\* A Command has no Sends, and only nodes write to what is deferred.
CommandsSendNothing ==
    \A x \in UNION Gotos : \A c \in Channels : x.chan = c => Kind[c] # "Topic"
NodesDefer ==
    \A x \in UNION (Inputs \cup Gotos) : \A c \in Channels : x.chan = c => Kind[c] \notin AfterFinish
-----------------------------------------------------------------------------
\* Every variable has its type.
TypeOK ==
    /\ DOMAIN content = Channels
    /\ finished \in [Channels -> BOOLEAN]
    /\ versions \in [Channels -> Nat]
    /\ seen \in [Nodes -> [Channels -> Nat]]
    /\ updated \in (SUBSET Channels) \cup {None}
    /\ \A t \in tasks : t.name \in Nodes /\ t.trigger \in Channels \cup {None}
    /\ status \in {"stopped", "running", "failed"}
    /\ steps \in 0..MaxSteps /\ stops \in 0..MaxStops

\* A channel that changes gets a version above every version there was and
\* above what any node has seen of it: no change goes unnoticed, not even one
\* made in the superstep that uses the channel up (algo.ts:320-331, 368-396).
ChangesAreUnseen ==
    [][\A c \in Channels : versions'[c] # versions[c] =>
          /\ \A d \in Channels : versions'[c] > versions[d]
          /\ \A n \in Nodes : versions'[c] > seen'[n][c]]_vars

\* A node is started by a channel only for what was written to the channel
\* since it was last started by it; a barrier only for all its names.
TriggersAreFresh ==
    \A t \in tasks : t.trigger # None =>
        /\ since[t.name][t.trigger] # {}
        /\ Kind[t.trigger] \in Barriers => Names[t.trigger] \subseteq since[t.name][t.trigger]

\* When every name has been written to a barrier since its node was last
\* started by it, the node is started: no arrival is lost, not even one that
\* is written in the superstep in which the node itself runs.
JoinsFire ==
    status = "running" =>
        \A n \in Nodes : \A c \in TriggersOf(n) :
            Kind[c] = "NamedBarrierValue" /\ Names[c] \subseteq since[n][c]
                => \E t \in tasks : t.name = n

\* A Send to a node of the graph runs in the superstep after the one that made
\* it, and in no other, however often the run stops and resumes in between.
SendsRunOnce ==
    status = "running" =>
        {t.send : t \in {u \in tasks : u.trigger = None}}
            = {send \in sends : send.node \in Nodes}

\* A deferred node is not forgotten: when nothing is left to run, no deferred
\* node has been navigated to, or its barrier reached by all names, without
\* having been started since.
DeferredRuns ==
    status = "running" /\ tasks = {} =>
        \A n \in Nodes : \A c \in TriggersOf(n) :
            /\ Kind[c] = "LastValueAfterFinish" => since[n][c] = {}
            /\ Kind[c] = "NamedBarrierValueAfterFinish" => ~(Names[c] \subseteq since[n][c])

\* "An optimization": the candidate nodes of the updated channels give the
\* tasks that going through all nodes gives (algo.ts:446-452).
CandidatesAreExact ==
    status = "running" => tasks = Prepare(None, Channel, versions, seen)
=============================================================================
