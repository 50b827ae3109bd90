----------------------------- MODULE RunStream -----------------------------
(***************************************************************************)
(* The output of one run of the API server: the worker that executes it    *)
(* publishes messages to a queue in memory, and clients read them with     *)
(* Stream.join().  A resumable queue keeps its messages and every reader   *)
(* has a position of its own; of any other queue the readers take messages *)
(* away.  A reader that waits in vain looks the run up and ends if the run *)
(* has.  The queue is made by whoever comes first, with what that one says.*)
(*                                                                         *)
(* Messages are numbered in the order they are published in.  What a       *)
(* waiting reader does when a message comes is done before anything else.  *)
(***************************************************************************)
EXTENDS Integers, Sequences, SequencesExt, FiniteSets

CONSTANTS
    Readers,     \* calls of Stream.join()
    MaxMessages  \* bound on messages

ASSUME StreamAssumption == IsFiniteSet(Readers) /\ MaxMessages \in Nat

VARIABLES
    config,  \* was the run created as resumable; does authorisation take time
    status,  \* "active" while the run is pending or running, "ended", "deleted"
    queue,   \* StreamManager.readers[runId]
    reader   \* the state of each reader

vars == <<config, status, queue, reader>>

NoId == -2                 \* a client without Last-Event-ID
Ids == -1..MaxMessages     \* the others; "-1" asks for everything
Messages == 0..MaxMessages - 1

NoQueue == [made |-> FALSE, resumable |-> FALSE, log |-> <<>>, nextId |-> 0]

\* from and last: the ids it began with and has got to; got: what it was given;
\* mark: the messages that were published when it gave up waiting for one.
NoReader == [at |-> "none", from |-> NoId, last |-> NoId, got |-> <<>>, mark |-> 0]

Init ==
    /\ config \in [resumable : BOOLEAN, authWaits : BOOLEAN]
    /\ status = "active"
    /\ queue = NoQueue
    /\ reader = [r \in Readers |-> NoReader]

-----------------------------------------------------------------------------
\* StreamManager.getQueue with ifNotFound: "create"
QueueFor(resumable) == IF queue.made THEN queue
                       ELSE [NoQueue EXCEPT !.made = TRUE, !.resumable = resumable]

Given(s, id) == [s EXCEPT !.at = "get", !.last = id, !.got = Append(@, id), !.mark = 0]

\* Two readers wait for the same message: for the second there is nothing to
\* take, and its TypeError is taken for a timeout.
Empty(s, q) == [s EXCEPT !.at = "lookup", !.last = q.nextId, !.mark = q.nextId]

Waiting == {r \in Readers : reader[r].at = "wait"}

\* The id that push() tells its listeners.
IdOf(q) == q.nextId

Publish ==
    LET q == QueueFor(config.resumable)
        pushed == [q EXCEPT !.log = Append(@, q.nextId), !.nextId = @ + 1] IN
    /\ status # "ended" /\ q.nextId < MaxMessages
    /\ \/ /\ q.resumable \/ Waiting = {}
          /\ queue' = pushed
          /\ reader' = [r \in Readers |-> IF r \in Waiting THEN Given(reader[r], IdOf(q)) ELSE reader[r]]
       \/ /\ ~q.resumable
          /\ queue' = [pushed EXCEPT !.log = <<>>]
          /\ \E first \in Waiting :
                 reader' = [r \in Readers |-> CASE r = first -> Given(reader[r], q.nextId)
                                                [] r \in Waiting \ {first} -> Empty(reader[r], pushed)
                                                [] OTHER -> reader[r]]
    /\ UNCHANGED <<config, status>>

\* The worker stores the run's status; or the run is cancelled before it begins.
End ==
    /\ status = "active"
    /\ status' = "ended"
    /\ UNCHANGED <<config, queue, reader>>

\* A client deletes the run; a worker that executes it goes on.
Delete ==
    /\ status # "deleted"
    /\ status' = "deleted"
    /\ UNCHANGED <<config, queue, reader>>

-----------------------------------------------------------------------------
\* A client joins, without an id or with one it has seen.
Join(r, id) ==
    /\ reader[r].at = "none"
    /\ queue' = QueueFor(id # NoId)
    /\ reader' = [reader EXCEPT ![r] = [NoReader EXCEPT !.at = "get", !.from = id, !.last = id]]
    /\ UNCHANGED <<config, status>>

\* Mutant of Target: the last id is taken for the index of the next message.
SameId(r) == IF reader[r].last < 0 THEN 0 ELSE reader[r].last

Target(r) == reader[r].last + 1

\* Mutant of Available: the newest message is not looked at.
AvailableButLast(r) == reader[r].last # NoId /\ Target(r) < Len(queue.log) - 1

\* Does a resumable queue have the reader's next message?
Available(r) == reader[r].last # NoId /\ Target(r) < Len(queue.log)

\* Mutant of TakeFirst: the message stays in the log.
PeekFirst == UNCHANGED queue

TakeFirst == queue' = [queue EXCEPT !.log = Tail(@)]

\* Queue.get: the next message if there is one, or wait for the next that comes.
Get(r) ==
    /\ reader[r].at = "get"
    /\ \/ /\ queue.resumable /\ Available(r)
          /\ reader' = [reader EXCEPT ![r] = Given(@, queue.log[Target(r) + 1])]
          /\ UNCHANGED queue
       \/ /\ ~queue.resumable /\ queue.log # <<>>
          /\ reader' = [reader EXCEPT ![r] = Given(@, queue.nextId - Len(queue.log))]
          /\ TakeFirst
       \/ /\ IF queue.resumable THEN ~Available(r) ELSE queue.log = <<>>
          /\ reader' = [reader EXCEPT ![r].at = "wait"]
          /\ UNCHANGED queue
    /\ UNCHANGED <<config, status>>

\* Mutant of AfterLookup: a run that is not in the store is waited for.
GoesOnUnlessEnded == IF status = "ended" THEN "over" ELSE "get"

\* join() ends if the run is not there or neither pending nor running.
AfterLookup == IF status = "active" THEN "get" ELSE "over"

\* 500 ms have passed.  Runs.get asks for authorisation first, which may take time.
Timeout(r) ==
    /\ reader[r].at = "wait"
    /\ reader' = [reader EXCEPT ![r].at = IF config.authWaits THEN "lookup" ELSE AfterLookup,
                                ![r].mark = queue.nextId]
    /\ UNCHANGED <<config, status, queue>>

Lookup(r) ==
    /\ reader[r].at = "lookup"
    /\ reader' = [reader EXCEPT ![r].at = AfterLookup]
    /\ UNCHANGED <<config, status, queue>>

\* The client has disconnected and join() was given a signal; without one the
\* reader goes on although nobody listens.
Abort(r) ==
    /\ reader[r].at \in {"get", "wait", "lookup"}
    /\ reader' = [reader EXCEPT ![r].at = "aborted", ![r].mark = 0]
    /\ UNCHANGED <<config, status, queue>>

Next ==
    \/ Publish \/ End \/ Delete
    \/ \E r \in Readers : \/ \E id \in {NoId} \cup -1..queue.nextId - 1 : Join(r, id)
                          \/ Get(r) \/ Timeout(r) \/ Lookup(r) \/ Abort(r)

\* Timers fire, authorisation answers, and clients read what they are sent.
StreamFairness == \A r \in Readers : WF_vars(Get(r)) /\ WF_vars(Timeout(r)) /\ WF_vars(Lookup(r))

Spec == Init /\ [][Next]_vars /\ StreamFairness

-----------------------------------------------------------------------------
\* The queue, its readers and the ids they are told are of the kinds above.
TypeOK ==
    /\ config \in [resumable : BOOLEAN, authWaits : BOOLEAN]
    /\ status \in {"active", "ended", "deleted"}
    /\ queue \in [made : BOOLEAN, resumable : BOOLEAN, log : Seq(Messages), nextId : 0..MaxMessages]
    /\ reader \in [Readers -> [at : {"none", "get", "wait", "lookup", "over", "aborted"},
                               from : {NoId} \cup Ids, last : {NoId} \cup Ids,
                               got : Seq(Messages), mark : 0..MaxMessages]]

\* A reader of a resumable queue is given consecutive messages, from the one
\* after the id it came with, whether they were in the log, came while it
\* waited, or came while it looked the run up.
NoGaps ==
    queue.resumable => \A r \in Readers :
        LET got == reader[r].got IN
        \A i \in 1..Len(got) : got[i] = IF i > 1 THEN got[i - 1] + 1
                                        ELSE IF reader[r].from = NoId THEN got[i] ELSE reader[r].from + 1

\* A message of any other queue is given to one reader, never to two and never
\* to none, however many wait for it, give up or are aborted.
SharedOnce ==
    ~queue.resumable => \A m \in 0..queue.nextId - 1 :
        Cardinality({r \in Readers : Contains(reader[r].got, m)})
            = IF Contains(queue.log, m) THEN 0 ELSE 1

\* A reader that came with an id and ends because the run has ended was given
\* all that was published before it gave up waiting; that is everything if
\* authorisation takes no time and the run was not deleted.
EndsComplete ==
    queue.resumable => \A r \in Readers : reader[r].at = "over" /\ reader[r].from # NoId =>
        /\ reader[r].last >= reader[r].mark - 1
        /\ ~config.authWaits /\ status = "ended" => reader[r].mark = queue.nextId

\* Nobody reads for ever: when the run has ended or was deleted, so do its readers.
ReadersEnd ==
    \A r \in Readers : (status # "active" /\ reader[r].at # "none") ~> reader[r].at \in {"over", "aborted"}

\* A client that asks for the whole stream of a resumable run gets it.
Replayable ==
    config = [resumable |-> TRUE, authWaits |-> FALSE] /\ status = "ended" =>
        \A r \in Readers : reader[r].from = -1 /\ reader[r].at = "over" =>
            reader[r].got = [i \in 1..queue.nextId |-> i - 1]
=============================================================================
