---------------------------- MODULE BatchedStore ----------------------------
(***************************************************************************)
(* The store that nodes see: every run wraps the store of the graph in an  *)
(* AsyncBatchedStore, which collects the calls of its tasks and hands them *)
(* to the store in batches, one batch at a time.  Several runs share one   *)
(* InMemoryStore; one of its items is modelled.  A run that ends stops its *)
(* batched store, while tasks that it no longer waits for may go on.       *)
(***************************************************************************)
EXTENDS Naturals, SequencesExt, FiniteSets

CONSTANTS
    Clients,  \* concurrent callers: tasks, or calls that a task does not await
    Runs,     \* each with a batched store
    RunOf,    \* the run of each client
    MaxCalls  \* bound on the calls of all clients

ASSUME StoreAssumption ==
    /\ IsFiniteSet(Clients) /\ IsFiniteSet(Runs)
    /\ RunOf \in [Clients -> Runs] /\ MaxCalls \in Nat

VARIABLES
    running,  \* running of each batched store
    at,       \* processBatchQueue: "sleep", "batch" while the store works, "off"
    queue,    \* clients whose calls are queued
    batch,    \* clients whose calls were handed to the store
    results,  \* what the store has read for them
    item,     \* the item in the store
    op,       \* each client's last call, "get" or "put", or "none"
    calls,    \* the number of its calls
    answer,   \* what that call has returned, or Unanswered
    seen,     \* history: the values of the item since its last call
    late      \* history: was it made during a batch or after stop()

vars == <<running, at, queue, batch, results, item, op, calls, answer, seen, late>>

Nothing == <<"nothing">>      \* get() of an item that is not there
Null == <<"null">>            \* what a put returns
Item == <<"item">>            \* get() of an item that is there: the stored object
Error == <<"error">>
Unanswered == <<"unanswered">>
Written(c) == <<c, calls[c]>>  \* the value that the client's put writes

Init ==
    /\ running = [s \in Runs |-> TRUE] /\ at = [s \in Runs |-> "sleep"]
    /\ queue = [s \in Runs |-> <<>>] /\ batch = [s \in Runs |-> <<>>] /\ results = [s \in Runs |-> <<>>]
    /\ item = Nothing
    /\ op = [c \in Clients |-> "none"] /\ calls = [c \in Clients |-> 0]
    /\ answer = [c \in Clients |-> Unanswered]
    /\ seen = [c \in Clients |-> {}] /\ late = [c \in Clients |-> FALSE]

Pending(c) == op[c] # "none" /\ answer[c] = Unanswered

\* enqueueOperation
Call(c, kind) ==
    LET s == RunOf[c] IN
    /\ ~Pending(c) /\ FoldFunction(+, 0, calls) < MaxCalls
    /\ op' = [op EXCEPT ![c] = kind] /\ calls' = [calls EXCEPT ![c] = @ + 1]
    /\ queue' = [queue EXCEPT ![s] = Append(@, c)]
    /\ answer' = [answer EXCEPT ![c] = Unanswered]
    /\ seen' = [seen EXCEPT ![c] = {item}]
    /\ late' = [late EXCEPT ![c] = ~running[s] \/ at[s] = "batch"]
    /\ UNCHANGED <<running, at, batch, results, item>>

\* stop(), whose caller then waits until the loop is off.
Stop(s) ==
    /\ running[s]
    /\ running' = [running EXCEPT ![s] = FALSE]
    /\ UNCHANGED <<at, queue, batch, results, item, op, calls, answer, seen, late>>

\* Mutant of Goes: the loop looks whether it is to stop when it wakes up.
GoesUnlessStopped(s) == running[s] /\ queue[s] # <<>>

\* The loop handles what is queued when its timer fires, even if it is to stop.
Goes(s) == queue[s] # <<>>

AfterBatch(s) == IF running[s] THEN "sleep" ELSE "off"

\* The timer has fired.  InMemoryStore.batch looks the item up for all gets first.
Wake(s) ==
    /\ at[s] = "sleep"
    /\ IF Goes(s)
       THEN /\ at' = [at EXCEPT ![s] = "batch"]
            /\ batch' = [batch EXCEPT ![s] = queue[s]]
            /\ queue' = [queue EXCEPT ![s] = <<>>]
            /\ results' = [results EXCEPT ![s] =
                               [i \in DOMAIN queue[s] |-> IF op[queue[s][i]] = "put" THEN Null
                                                          ELSE IF item = Nothing THEN Nothing ELSE Item]]
       ELSE /\ at' = [at EXCEPT ![s] = AfterBatch(s)]
            /\ UNCHANGED <<queue, batch, results>>
    /\ UNCHANGED <<running, item, op, calls, answer, seen, late>>

InBatch(s, c) == Contains(batch[s], c)

\* Mutant of ResultOf: results are taken in the opposite order.
ResultFromEnd(s, c) == results[s][Len(batch[s]) + 1 - SelectInSeq(batch[s], LAMBDA d : d = c)]

\* The result at the index that the call's key has in the batch.
ResultOf(s, c) == results[s][SelectInSeq(batch[s], LAMBDA d : d = c)]

Closes(s) ==
    /\ at' = [at EXCEPT ![s] = AfterBatch(s)]
    /\ batch' = [batch EXCEPT ![s] = <<>>] /\ results' = [results EXCEPT ![s] = <<>>]
    /\ UNCHANGED <<running, queue, op, calls, late>>

Puts(s) == {i \in DOMAIN batch[s] : op[batch[s][i]] = "put"}

\* The last put of the batch is what the item becomes (putOps): it changes the
\* stored object, which gets have been given.  Then all are answered.
Complete(s) ==
    /\ at[s] = "batch"
    /\ \/ Puts(s) = {} /\ UNCHANGED item
       \/ \E i \in Puts(s) : (\A j \in Puts(s) : j <= i) /\ item' = Written(batch[s][i])
    /\ seen' = [c \in Clients |-> IF Pending(c) THEN seen[c] \cup {item'} ELSE seen[c]]
    /\ answer' = [c \in Clients |-> IF InBatch(s, c) THEN (IF ResultOf(s, c) = Item THEN item' ELSE ResultOf(s, c))
                                   ELSE answer[c]]
    /\ Closes(s)

\* store.batch throws before it has put anything, as when texts cannot be
\* embedded: every call of the batch is rejected.
Fail(s) ==
    /\ at[s] = "batch"
    /\ answer' = [c \in Clients |-> IF InBatch(s, c) THEN Error ELSE answer[c]]
    /\ UNCHANGED <<item, seen>>
    /\ Closes(s)

Next ==
    \/ \E c \in Clients, kind \in {"get", "put"} : Call(c, kind)
    \/ \E s \in Runs : Stop(s) \/ Wake(s) \/ Complete(s) \/ Fail(s)

\* Timers fire and the store answers.
StoreFairness == \A s \in Runs : WF_vars(Wake(s)) /\ WF_vars(Complete(s) \/ Fail(s))

Spec == Init /\ [][Next]_vars /\ StoreFairness

-----------------------------------------------------------------------------
\* Queues and batches hold calls of their own run, each call is in one of them,
\* and there is a result for each call of a batch.
TypeOK ==
    /\ running \in [Runs -> BOOLEAN] /\ at \in [Runs -> {"sleep", "batch", "off"}]
    /\ op \in [Clients -> {"none", "get", "put"}] /\ calls \in [Clients -> Nat]
    /\ \A s \in Runs :
        /\ queue[s] \in Seq({c \in Clients : RunOf[c] = s /\ Pending(c)})
        /\ batch[s] \in Seq({c \in Clients : RunOf[c] = s /\ Pending(c)})
        /\ IsInjective(queue[s] \o batch[s]) /\ DOMAIN results[s] = DOMAIN batch[s]
        /\ at[s] # "batch" => batch[s] = <<>>

\* Calls behave as if each took effect at one moment between its beginning and
\* its end, although gets and puts are done in bulk and several runs share the
\* item: a get returns a value the item has had meanwhile, and when a put has
\* been answered the item has changed since it was called.
AnswersAreCurrent ==
    \A c \in Clients : answer[c] \notin {Unanswered, Error} =>
        IF op[c] = "get" THEN answer[c] \in seen[c] ELSE answer[c] = Null /\ Cardinality(seen[c]) > 1

\* Every call is answered, also those that stop() finds in the queue; only what
\* is called after stop(), or during the batch that stop() waits for, is not.
EveryCallReturns ==
    \A c \in Clients : Pending(c) ~> (~Pending(c) \/ (late[c] /\ ~running[RunOf[c]]))
=============================================================================
