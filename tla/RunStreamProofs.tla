-------------------------- MODULE RunStreamProofs --------------------------
(***************************************************************************)
(* NoGaps, SharedOnce and EndsComplete for any number of readers and       *)
(* messages.  The argument: the log of a resumable queue holds every id at *)
(* the place of that id, any other log the newest ids; and a reader waits  *)
(* only when it has been given all there is, so the message that ends its  *)
(* wait is the one after the last it got.                                  *)
(***************************************************************************)
EXTENDS RunStream, FiniteSetTheorems, TLAPS

\* The log holds the newest ids, and all of them if the queue is resumable.
QueueFits ==
    /\ ~queue.made => queue = NoQueue
    /\ queue.resumable => Len(queue.log) = queue.nextId
    /\ Len(queue.log) <= queue.nextId
    /\ \A i \in 1..Len(queue.log) : queue.log[i] = queue.nextId - Len(queue.log) + i - 1

\* What a reader has got to is what it was given last, or what it came with.
ReachedFits(r) ==
    queue.resumable =>
        /\ reader[r].last < queue.nextId
        /\ reader[r].got = <<>> => reader[r].last = reader[r].from
        /\ reader[r].got # <<>> => reader[r].last = reader[r].got[Len(reader[r].got)]

\* A reader waits when there is nothing for it, and gives up only then.
WaitFits(r) ==
    /\ reader[r].at = "wait" =>
           IF queue.resumable THEN reader[r].last \in {NoId, queue.nextId - 1} ELSE queue.log = <<>>
    /\ queue.resumable => /\ reader[r].from # NoId => reader[r].last >= reader[r].mark - 1
                          /\ ~config.authWaits => reader[r].at # "lookup"
    /\ reader[r].at = "over" => status # "active"

\* No reader precedes the queue, or was given anything before it has joined.
ReaderFits(r) ==
    /\ ~queue.made \/ reader[r].at = "none" => reader[r] = NoReader
    /\ ReachedFits(r)
    /\ WaitFits(r)

\* Who was given message m.
Holders(m) == {r \in Readers : Contains(reader[r].got, m)}

\* Readers have only what was published, and each message is in the log or
\* with one reader.
Shared ==
    /\ \A r \in Readers : \A i \in 1..Len(reader[r].got) : reader[r].got[i] < queue.nextId
    /\ ~queue.resumable => \A m \in 0..queue.nextId - 1 :
           IF Contains(queue.log, m) THEN Holders(m) = {} ELSE \E r \in Readers : Holders(m) = {r}

IInv ==
    /\ TypeOK /\ QueueFits /\ Shared /\ NoGaps /\ EndsComplete
    /\ \A r \in Readers : ReaderFits(r)

LEMMA Initially == Init => IInv
<1> SUFFICES ASSUME Init PROVE IInv
    OBVIOUS
<1>1. TypeOK
    BY StreamAssumption DEF Init, TypeOK, NoQueue, NoReader, Messages, Ids
<1>2. QueueFits
    BY DEF Init, QueueFits, NoQueue
<1>3. Shared /\ NoGaps /\ EndsComplete
    BY DEF Init, Shared, NoGaps, EndsComplete, NoQueue, NoReader
<1>4. \A r \in Readers : ReaderFits(r)
    BY DEF Init, ReaderFits, ReachedFits, WaitFits, NoQueue, NoReader
<1> QED BY <1>1, <1>2, <1>3, <1>4 DEF IInv

\* A step that only moves one reader, giving it nothing, keeps what was given.
LEMMA MoveKeeps ==
    ASSUME IInv, NEW r \in Readers, NEW s, reader' = [reader EXCEPT ![r] = s],
           s \in [at : {"get", "wait", "lookup", "over", "aborted"}, from : {reader[r].from},
                  last : {reader[r].last}, got : {reader[r].got}, mark : 0..MaxMessages],
           queue.made, UNCHANGED <<config, status, queue>>,
           WaitFits(r)',
           queue.resumable /\ s.at = "over" /\ ~config.authWaits /\ status = "ended" => s.mark = queue.nextId
    PROVE  IInv'
<1> USE DEF IInv
<1>1. TypeOK'
    <2>1. reader[r] \in [at : {"none", "get", "wait", "lookup", "over", "aborted"},
                         from : {NoId} \cup Ids, last : {NoId} \cup Ids, got : Seq(Messages), mark : 0..MaxMessages]
        BY DEF TypeOK
    <2>2. s \in [at : {"none", "get", "wait", "lookup", "over", "aborted"},
                 from : {NoId} \cup Ids, last : {NoId} \cup Ids, got : Seq(Messages), mark : 0..MaxMessages]
        BY <2>1
    <2> QED BY <2>2 DEF TypeOK
<1>2. \A q \in Readers : /\ reader'[q].got = reader[q].got /\ reader'[q].last = reader[q].last
                         /\ reader'[q].from = reader[q].from
                         /\ q # r => reader'[q] = reader[q]
    BY DEF TypeOK
<1>3. QueueFits'
    BY DEF QueueFits
<1>4. Shared' 
    BY <1>2 DEF Shared, Holders
<1>5. NoGaps'
    BY <1>2 DEF NoGaps
<1>6. ASSUME NEW q \in Readers PROVE ReaderFits(q)'
    BY <1>2 DEF ReaderFits, ReachedFits, WaitFits
<1>7. EndsComplete'
    BY <1>2, <1>6 DEF EndsComplete, ReaderFits, WaitFits, TypeOK
<1> QED BY <1>1, <1>3, <1>4, <1>5, <1>6, <1>7

LEMMA EndKeeps == ASSUME IInv, End \/ Delete PROVE IInv'
<1> USE DEF IInv
<1>1. UNCHANGED <<config, queue, reader>> /\ status' \in {"ended", "deleted"} /\ (status' = "ended" => status = "active")
    BY DEF End, Delete
<1>2. TypeOK' /\ QueueFits' /\ NoGaps'
    BY <1>1 DEF TypeOK, QueueFits, NoGaps
<1>3. Shared'
    BY <1>1 DEF Shared, Holders
<1>4. \A r \in Readers : ReaderFits(r)'
    BY <1>1 DEF ReaderFits, ReachedFits, WaitFits
<1>5. EndsComplete'
    BY <1>1 DEF EndsComplete, ReaderFits, WaitFits
<1> QED BY <1>2, <1>3, <1>4, <1>5

\* The state of a reader.
Typed(s) == s \in [at : {"none", "get", "wait", "lookup", "over", "aborted"},
                   from : {NoId} \cup Ids, last : {NoId} \cup Ids, got : Seq(Messages), mark : 0..MaxMessages]

\* What a reader with an id has got to is an id.
LEMMA ReachedIsId ==
    ASSUME IInv, NEW r \in Readers, queue.resumable, reader[r].from # NoId
    PROVE  reader[r].last # NoId
<1> USE DEF IInv
<1>1. CASE reader[r].got = <<>>
    BY <1>1 DEF ReaderFits, ReachedFits
<1>2. CASE reader[r].got # <<>>
    <2>1. reader[r].got \in Seq(Messages)
        BY DEF TypeOK
    <2>2. reader[r].got[Len(reader[r].got)] \in Messages
        BY <1>2, <2>1
    <2> QED BY <1>2, <2>2 DEF ReaderFits, ReachedFits, Messages, NoId
<1> QED BY <1>1, <1>2

\* A reader gives up waiting, looks the run up, or its client leaves.
LEMMA TimeoutKeeps == ASSUME IInv, NEW r \in Readers, Timeout(r) PROVE IInv'
<1> USE DEF IInv
<1> DEFINE next == IF config.authWaits THEN "lookup" ELSE AfterLookup
           s == [reader[r] EXCEPT !.at = next, !.mark = queue.nextId]
<1>1. Typed(reader[r]) /\ queue.nextId \in 0..MaxMessages
    BY DEF TypeOK, Typed
<1>2. queue.made /\ reader[r].at = "wait" /\ UNCHANGED <<config, status, queue>>
    BY DEF Timeout, ReaderFits, NoReader
<1>3. reader' = [reader EXCEPT ![r] = s]
    BY <1>1 DEF Timeout, TypeOK
<1>4. next \in {"get", "lookup", "over"}
    BY DEF AfterLookup
<1>5. s \in [at : {"get", "wait", "lookup", "over", "aborted"}, from : {reader[r].from},
             last : {reader[r].last}, got : {reader[r].got}, mark : 0..MaxMessages]
    <2> HIDE DEF next
    <2> QED BY <1>1, <1>4 DEF Typed
<1>6. reader'[r] = s
    BY <1>3 DEF TypeOK
<1>7. queue.resumable /\ s.from # NoId => s.last = queue.nextId - 1
    BY <1>1, <1>2, ReachedIsId DEF ReaderFits, WaitFits, Typed
<1>8. WaitFits(r)'
    BY <1>1, <1>2, <1>6, <1>7 DEF WaitFits, AfterLookup, Typed
<1> QED BY <1>1, <1>2, <1>3, <1>5, <1>8, MoveKeeps DEF Typed

LEMMA LookupKeeps == ASSUME IInv, NEW r \in Readers, Lookup(r) PROVE IInv'
<1> USE DEF IInv
<1> DEFINE s == [reader[r] EXCEPT !.at = AfterLookup]
<1>1. Typed(reader[r]) /\ AfterLookup \in {"get", "over"}
    BY DEF TypeOK, Typed, AfterLookup
<1>2. queue.made /\ reader[r].at = "lookup" /\ UNCHANGED <<config, status, queue>>
    BY DEF Lookup, ReaderFits, NoReader
<1>3. reader' = [reader EXCEPT ![r] = s] /\ reader'[r] = s
    BY DEF Lookup, TypeOK
<1>4. s \in [at : {"get", "wait", "lookup", "over", "aborted"}, from : {reader[r].from},
             last : {reader[r].last}, got : {reader[r].got}, mark : 0..MaxMessages]
    BY <1>1 DEF Typed
<1>5. queue.resumable => config.authWaits
    BY <1>2 DEF ReaderFits, WaitFits
<1>6. WaitFits(r)'
    BY <1>1, <1>2, <1>3, <1>5 DEF ReaderFits, WaitFits, AfterLookup, Typed
<1> QED BY <1>2, <1>3, <1>4, <1>5, <1>6, MoveKeeps

LEMMA AbortKeeps == ASSUME IInv, NEW r \in Readers, Abort(r) PROVE IInv'
<1> USE DEF IInv
<1> DEFINE s == [reader[r] EXCEPT !.at = "aborted", !.mark = 0]
<1>1. Typed(reader[r]) /\ 0 \in 0..MaxMessages
    BY StreamAssumption DEF TypeOK, Typed
<1>2. queue.made /\ UNCHANGED <<config, status, queue>>
    BY DEF Abort, ReaderFits, NoReader
<1>3. reader' = [reader EXCEPT ![r] = s] /\ reader'[r] = s
    BY <1>1 DEF Abort, TypeOK
<1>4. s \in [at : {"get", "wait", "lookup", "over", "aborted"}, from : {reader[r].from},
             last : {reader[r].last}, got : {reader[r].got}, mark : 0..MaxMessages]
    BY <1>1 DEF Typed
<1>5. WaitFits(r)'
    <2>1. reader[r].last \in {NoId} \cup Ids /\ s.mark = 0
        BY <1>1 DEF Typed
    <2>2. queue.resumable /\ s.from # NoId => s.last >= s.mark - 1
        BY <1>1, <2>1, ReachedIsId, StreamAssumption DEF Ids, Typed
    <2>3. s.at = "aborted" /\ s.from = reader[r].from
        BY <1>1 DEF Typed
    <2>4. WaitFits(r)' <=> (queue.resumable /\ s.from # NoId => s.last >= s.mark - 1)
        <3> HIDE DEF s
        <3> QED BY <1>2, <1>3, <2>3 DEF WaitFits
    <2> QED BY <2>2, <2>4
<1> QED BY <1>2, <1>3, <1>4, <1>5, MoveKeeps


\* A client joins, and may be the one that makes the queue.
LEMMA JoinKeeps ==
    ASSUME IInv, NEW r \in Readers, NEW id \in {NoId} \cup -1..queue.nextId - 1, Join(r, id)
    PROVE  IInv'
<1> USE DEF IInv
<1> DEFINE s == [NoReader EXCEPT !.at = "get", !.from = id, !.last = id]
<1>1. id \in {NoId} \cup Ids /\ 0 \in 0..MaxMessages /\ id < queue.nextId
    BY StreamAssumption DEF TypeOK, Ids, NoId
<1>2. Typed(s) /\ s.at = "get" /\ s.from = id /\ s.last = id /\ s.got = <<>> /\ s.mark = 0
    <2>1. Typed(NoReader) /\ NoReader.got = <<>> /\ NoReader.mark = 0
        BY <1>1 DEF NoReader, Typed, NoId
    <2> QED BY <1>1, <2>1 DEF Typed
<1>3. \A q \in Readers : reader'[q] = IF q = r THEN s ELSE reader[q]
    BY DEF Join, TypeOK
<1>4. UNCHANGED <<config, status>> /\ reader[r].got = <<>>
    BY DEF Join, ReaderFits, NoReader
<1>5. queue'.made /\ queue'.log = queue.log /\ queue'.nextId = queue.nextId
    BY DEF Join, QueueFor, QueueFits, NoQueue, TypeOK
<1>6. queue.made => queue' = queue
    BY DEF Join, QueueFor
<1>7. ~queue.made => queue.log = <<>> /\ queue.nextId = 0 /\ \A q \in Readers : reader[q] = NoReader
    BY DEF QueueFits, NoQueue, ReaderFits
<1>8. TypeOK'
    <2>1. reader' \in [Readers -> [at : {"none", "get", "wait", "lookup", "over", "aborted"},
                               from : {NoId} \cup Ids, last : {NoId} \cup Ids,
                               got : Seq(Messages), mark : 0..MaxMessages]]
        BY <1>2 DEF Join, Typed, TypeOK
    <2>2. queue' \in [made : BOOLEAN, resumable : BOOLEAN, log : Seq(Messages), nextId : 0..MaxMessages]
        <3>1. NoQueue \in [made : BOOLEAN, resumable : BOOLEAN, log : Seq(Messages), nextId : 0..MaxMessages]
            BY <1>1 DEF NoQueue
        <3>2. ASSUME NEW b \in BOOLEAN
              PROVE QueueFor(b) \in [made : BOOLEAN, resumable : BOOLEAN, log : Seq(Messages), nextId : 0..MaxMessages]
            BY <3>1 DEF QueueFor, TypeOK
        <3> QED BY <3>2 DEF Join
    <2> QED BY <1>4, <2>1, <2>2 DEF TypeOK
<1>9. QueueFits'
    BY <1>5, <1>6, <1>7 DEF QueueFits
<1> HIDE DEF s
<1>10. /\ NoReader.at = "none" /\ NoReader.got = <<>> /\ NoReader.mark = 0
       /\ NoReader.from = NoId /\ NoReader.last = NoId
    BY DEF NoReader
<1>11. Shared' /\ NoGaps'
    <2>1. \A q \in Readers : reader'[q].got = reader[q].got
        BY <1>2, <1>3, <1>4
    <2>2. Shared'
        BY <2>1, <1>5, <1>6, <1>7 DEF Shared, Holders
    <2>3. NoGaps'
        <3> SUFFICES ASSUME queue'.resumable, NEW q \in Readers, NEW i \in 1..Len(reader'[q].got)
                     PROVE  reader'[q].got[i] = IF i > 1 THEN reader'[q].got[i - 1] + 1
                                ELSE IF reader'[q].from = NoId THEN reader'[q].got[i] ELSE reader'[q].from + 1
            BY DEF NoGaps
        <3>1. q # r /\ queue.made
            BY <1>2, <1>3, <1>7, <1>10
        <3> QED BY <3>1, <1>3, <1>6 DEF NoGaps
    <2> QED BY <2>2, <2>3
<1>12. ASSUME NEW q \in Readers PROVE ReaderFits(q)'
    <2>1. CASE q = r
        BY <2>1, <1>1, <1>2, <1>3, <1>5 DEF ReaderFits, ReachedFits, WaitFits, Ids, NoId
    <2>2. CASE q # r /\ queue.made
        BY <2>2, <1>3, <1>4, <1>6 DEF ReaderFits, ReachedFits, WaitFits
    <2>3. CASE q # r /\ ~queue.made
        BY <2>3, <1>3, <1>5, <1>7, <1>10 DEF ReaderFits, ReachedFits, WaitFits, NoId
    <2> QED BY <2>1, <2>2, <2>3
<1>13. EndsComplete'
    <2> SUFFICES ASSUME queue'.resumable, NEW q \in Readers, reader'[q].at = "over", reader'[q].from # NoId
                 PROVE  /\ reader'[q].last >= reader'[q].mark - 1
                        /\ ~config'.authWaits /\ status' = "ended" => reader'[q].mark = queue'.nextId
        BY DEF EndsComplete
    <2>1. q # r /\ queue.made
        BY <1>2, <1>3, <1>7, <1>10
    <2> QED BY <2>1, <1>3, <1>4, <1>6 DEF EndsComplete
<1> QED BY <1>8, <1>9, <1>11, <1>12, <1>13

\* What a reader is given goes to the end of what it has.
LEMMA GivenFields ==
    ASSUME NEW s, Typed(s), NEW id \in Messages, NEW g, g = Given(s, id)
    PROVE  /\ Typed(g) /\ g.at = "get" /\ g.from = s.from /\ g.last = id /\ g.mark = 0
           /\ g.got = Append(s.got, id)
<1>1. id \in Ids /\ 0 \in 0..MaxMessages
    BY StreamAssumption DEF Messages, Ids
<1>2. Append(s.got, id) \in Seq(Messages)
    BY DEF Typed
<1> QED BY <1>1, <1>2 DEF Given, Typed

LEMMA AppendHolds ==
    ASSUME NEW s \in Seq(Messages), NEW e \in Messages, NEW x
    PROVE  Contains(Append(s, e), x) <=> Contains(s, x) \/ x = e
<1>1. Len(Append(s, e)) = Len(s) + 1 /\ \A i \in 1..Len(s) : Append(s, e)[i] = s[i]
    OBVIOUS
<1>2. Append(s, e)[Len(s) + 1] = e /\ Len(s) \in Nat
    OBVIOUS
<1> QED BY <1>1, <1>2 DEF Contains

\* A reader that is given the message after the last it has keeps everything
\* in order: the common step of Get and Publish on a resumable queue.
LEMMA NextFits ==
    ASSUME IInv, NEW q \in Readers, NEW id \in Messages, NEW g, g = Given(reader[q], id), queue.resumable,
           reader[q].last = NoId \/ id = reader[q].last + 1
    PROVE  \A i \in 1..Len(g.got) : /\ g.got[i] = IF i > 1 THEN g.got[i - 1] + 1
                                                 ELSE IF g.from = NoId THEN g.got[i] ELSE g.from + 1
                                    /\ g.got[i] \in Messages
<1> USE DEF IInv
<1>1. Typed(reader[q])
    BY DEF TypeOK, Typed
<1> DEFINE got == reader[q].got
<1>2. got \in Seq(Messages) /\ Len(got) \in Nat
    BY <1>1 DEF Typed
<1>3. g.got = Append(got, id) /\ g.from = reader[q].from
    BY <1>1, GivenFields
<1>4. /\ Len(g.got) = Len(got) + 1 /\ g.got[Len(got) + 1] = id
      /\ \A i \in 1..Len(got) : g.got[i] = got[i] /\ got[i] \in Messages
    BY <1>2, <1>3
<1>5. CASE got = <<>>
    <2>1. Len(got) = 0 /\ reader[q].last = reader[q].from
        BY <1>5 DEF ReaderFits, ReachedFits
    <2> QED BY <2>1, <1>3, <1>4
<1>6. CASE got # <<>>
    <2>1. Len(got) > 0 /\ got[Len(got)] \in Messages /\ reader[q].last = got[Len(got)]
        BY <1>2, <1>6 DEF ReaderFits, ReachedFits
    <2>2. id = got[Len(got)] + 1
        BY <2>1 DEF Messages, NoId
    <2>3. \A i \in 1..Len(got) : got[i] = IF i > 1 THEN got[i - 1] + 1
                                 ELSE IF reader[q].from = NoId THEN got[i] ELSE reader[q].from + 1
        BY DEF NoGaps
    <2> SUFFICES ASSUME NEW i \in 1..Len(g.got)
                 PROVE  /\ g.got[i] = IF i > 1 THEN g.got[i - 1] + 1
                                      ELSE IF g.from = NoId THEN g.got[i] ELSE g.from + 1
                        /\ g.got[i] \in Messages
        OBVIOUS
    <2>4. CASE i = Len(got) + 1
        <3>1. i > 1 /\ i - 1 \in 1..Len(got) /\ i - 1 = Len(got)
            BY <2>4, <2>1, <1>2
        <3> QED BY <2>4, <3>1, <2>2, <1>4
    <2>5. CASE i \in 1..Len(got)
        <3>1. i > 1 => i - 1 \in 1..Len(got)
            BY <2>5, <1>2
        <3> QED BY <2>5, <3>1, <2>3, <1>3, <1>4
    <2> QED BY <2>4, <2>5, <1>2, <1>4
<1> QED BY <1>5, <1>6

\* Queue.get of a resumable queue that has the reader's next message.
LEMMA GetAvailableKeeps ==
    ASSUME IInv, NEW r \in Readers, reader[r].at = "get", queue.resumable, Available(r),
           reader' = [reader EXCEPT ![r] = Given(@, queue.log[Target(r) + 1])],
           UNCHANGED <<config, status, queue>>
    PROVE  IInv'
<1> USE DEF IInv
<1> DEFINE id == queue.log[Target(r) + 1]
<1>0. PICK g : g = Given(reader[r], id)
    OBVIOUS
<1>1. Typed(reader[r]) /\ queue.nextId \in 0..MaxMessages /\ queue.made
    BY DEF TypeOK, Typed, ReaderFits, NoReader
<1>2. id = reader[r].last + 1 /\ id \in Messages /\ id < queue.nextId
    <2>1. Target(r) \in Nat /\ Target(r) < queue.nextId /\ Len(queue.log) = queue.nextId
        BY <1>1, StreamAssumption DEF Available, Target, Typed, Ids, QueueFits
    <2>2. Target(r) + 1 \in 1..Len(queue.log)
        BY <2>1, <1>1
    <2>3. id = queue.nextId - Len(queue.log) + (Target(r) + 1) - 1
        BY <2>2 DEF QueueFits
    <2> QED BY <2>1, <2>3, <1>1, StreamAssumption DEF Target, Messages
<1> HIDE DEF id
<1>3. Typed(g) /\ g.at = "get" /\ g.last = id /\ g.mark = 0 /\ g.from = reader[r].from
    BY <1>1, <1>0, <1>2, GivenFields
<1>4. \A i \in 1..Len(g.got) : /\ g.got[i] = IF i > 1 THEN g.got[i - 1] + 1
                                             ELSE IF g.from = NoId THEN g.got[i] ELSE g.from + 1
                               /\ g.got[i] \in Messages
    BY <1>0, <1>2, NextFits
<1>5. g.got = Append(reader[r].got, id) /\ Len(reader[r].got) \in Nat
    <2>1. reader[r].got \in Seq(Messages)
        BY <1>1 DEF Typed
    <2>2. g.got = Append(reader[r].got, id)
        BY <1>0, <1>1, <1>2, GivenFields
    <2> QED BY <2>1, <2>2
<1>6. Len(g.got) = Len(reader[r].got) + 1 /\ g.got[Len(g.got)] = id
    BY <1>1, <1>2, <1>5 DEF Typed
<1>7. \A q \in Readers : reader'[q] = IF q = r THEN g ELSE reader[q]
    BY <1>0 DEF TypeOK, id
<1>8. TypeOK' /\ QueueFits'
    <2>1. reader' = [reader EXCEPT ![r] = g]
        BY <1>0 DEF id
    <2> QED BY <2>1, <1>3 DEF TypeOK, Typed, QueueFits
<1>9. Shared'
    <2> SUFFICES ASSUME NEW q \in Readers, NEW i \in 1..Len(reader'[q].got)
                 PROVE  reader'[q].got[i] < queue.nextId
        BY DEF Shared, Holders
    <2>1. CASE q # r
        BY <2>1, <1>7 DEF Shared
    <2>2. CASE q = r
        <3>1. \A k \in 1..Len(reader[r].got) : g.got[k] = reader[r].got[k]
            BY <1>1, <1>2, <1>5 DEF Typed
        <3>2. i \in 1..Len(reader[r].got) \/ i = Len(g.got)
            BY <2>2, <1>5, <1>6, <1>7
        <3> QED BY <2>2, <3>1, <3>2, <1>2, <1>6, <1>7 DEF Shared
    <2> QED BY <2>1, <2>2
<1>10. NoGaps'
    BY <1>4, <1>7 DEF NoGaps
<1>11. ASSUME NEW q \in Readers PROVE ReaderFits(q)'
    <2>1. CASE q = r
        <3>1. g.got # <<>>
            BY <1>5, <1>6
        <3>2. g.from # NoId => g.last >= g.mark - 1
            BY <1>2, <1>3, StreamAssumption DEF Messages
        <3> QED BY <2>1, <3>1, <3>2, <1>1, <1>2, <1>3, <1>6, <1>7 DEF ReaderFits, ReachedFits, WaitFits
    <2>2. CASE q # r
        BY <2>2, <1>7 DEF ReaderFits, ReachedFits, WaitFits
    <2> QED BY <2>1, <2>2
<1>12. EndsComplete'
    BY <1>3, <1>7 DEF EndsComplete
<1> QED BY <1>8, <1>9, <1>10, <1>11, <1>12

\* Queue.get of a queue that is not resumable and has a message.
LEMMA TakeKeeps ==
    ASSUME IInv, NEW r \in Readers, reader[r].at = "get", ~queue.resumable, queue.log # <<>>,
           reader' = [reader EXCEPT ![r] = Given(@, queue.nextId - Len(queue.log))], TakeFirst,
           UNCHANGED <<config, status>>
    PROVE  IInv'
<1> USE DEF IInv
<1> DEFINE id == queue.nextId - Len(queue.log)
<1>0. PICK g : g = Given(reader[r], id)
    OBVIOUS
<1>1. Typed(reader[r]) /\ queue.nextId \in 0..MaxMessages /\ queue.made
    BY DEF TypeOK, Typed, ReaderFits, NoReader
<1>2. queue.log \in Seq(Messages) /\ Len(queue.log) \in 1..queue.nextId
    BY <1>1 DEF TypeOK, QueueFits
<1>3. id \in Messages /\ id < queue.nextId /\ queue.log[1] = id
    BY <1>1, <1>2, StreamAssumption DEF Messages, QueueFits
<1> HIDE DEF id
<1>4. /\ Typed(g) /\ g.at = "get" /\ g.mark = 0 /\ g.got = Append(reader[r].got, id)
      /\ reader[r].got \in Seq(Messages)
    <2>1. reader[r].got \in Seq(Messages)
        BY <1>1 DEF Typed
    <2>2. /\ Typed(g) /\ g.at = "get" /\ g.mark = 0
          /\ g.got = Append(reader[r].got, id)
        BY SMTT(30), <1>0, <1>1, <1>3, GivenFields
    <2> QED BY <2>1, <2>2
<1>5. \A q \in Readers : reader'[q] = IF q = r THEN g ELSE reader[q]
    BY <1>0 DEF TypeOK, id
<1>6. /\ queue' = [queue EXCEPT !.log = Tail(@)]
      /\ queue'.log = Tail(queue.log) /\ queue'.nextId = queue.nextId /\ ~queue'.resumable /\ queue'.made
    BY <1>1 DEF TakeFirst, TypeOK
<1>7. Len(Tail(queue.log)) = Len(queue.log) - 1 /\ \A i \in 1..Len(queue.log) - 1 : Tail(queue.log)[i] = queue.log[i + 1]
    BY <1>2
<1>8. TypeOK'
    <2>1. reader' = [reader EXCEPT ![r] = g]
        BY <1>0 DEF id
    <2>2. Tail(queue.log) \in Seq(Messages)
        BY <1>2
    <2>3. queue' \in [made : BOOLEAN, resumable : BOOLEAN, log : Seq(Messages), nextId : 0..MaxMessages]
        <3>1. queue \in [made : BOOLEAN, resumable : BOOLEAN, log : Seq(Messages), nextId : 0..MaxMessages]
            BY DEF TypeOK
        <3> QED BY <3>1, <2>2, <1>6
    <2>4. reader' \in [Readers -> [at : {"none", "get", "wait", "lookup", "over", "aborted"},
                               from : {NoId} \cup Ids, last : {NoId} \cup Ids,
                               got : Seq(Messages), mark : 0..MaxMessages]]
        BY <2>1, <1>4 DEF TypeOK, Typed
    <2> QED BY <2>3, <2>4 DEF TypeOK
<1>9. QueueFits'
    <2>1. ASSUME NEW i \in 1..Len(queue.log) - 1
          PROVE  Tail(queue.log)[i] = queue.nextId - (Len(queue.log) - 1) + i - 1
        <3>1. i + 1 \in 1..Len(queue.log) /\ Tail(queue.log)[i] = queue.log[i + 1]
            BY <1>2, <1>7
        <3>2. queue.log[i + 1] = queue.nextId - Len(queue.log) + (i + 1) - 1
            BY <3>1 DEF QueueFits
        <3> QED BY <3>1, <3>2, <1>1, <1>2
    <2> QED BY <2>1, <1>1, <1>2, <1>6, <1>7 DEF QueueFits
<1>10. Shared'
    <2>1. \A q \in Readers : \A m : Contains(reader'[q].got, m) <=> Contains(reader[q].got, m) \/ (q = r /\ m = id)
        <3> SUFFICES ASSUME NEW q \in Readers, NEW m
                     PROVE  Contains(reader'[q].got, m) <=> Contains(reader[q].got, m) \/ (q = r /\ m = id)
            OBVIOUS
        <3>1. CASE q = r
            <4>1. reader'[q].got = Append(reader[r].got, id)
                BY <3>1, <1>4, <1>5
            <4>2. Contains(Append(reader[r].got, id), m) <=> Contains(reader[r].got, m) \/ m = id
                BY <1>3, <1>4, AppendHolds
            <4> QED BY <3>1, <4>1, <4>2
        <3>2. CASE q # r
            BY <3>2, <1>5
        <3> QED BY <3>1, <3>2
    <2>2. \A m \in 0..queue.nextId - 1 : Contains(queue.log, m) <=> m >= id
        <3> SUFFICES ASSUME NEW m \in 0..queue.nextId - 1 PROVE Contains(queue.log, m) <=> m >= id
            OBVIOUS
        <3>1. ASSUME m >= id PROVE Contains(queue.log, m)
            <4>1. m - id + 1 \in 1..Len(queue.log)
                BY <3>1, <1>1, <1>2 DEF id
            <4>2. queue.log[m - id + 1] = m
                BY <4>1, <1>1, <1>2 DEF QueueFits, id
            <4> QED BY <4>1, <4>2 DEF Contains
        <3>2. ASSUME Contains(queue.log, m) PROVE m >= id
            BY <3>2, <1>1, <1>2 DEF Contains, QueueFits, id
        <3> QED BY <3>1, <3>2
    <2>3. \A m \in 0..queue.nextId - 1 : Contains(queue'.log, m) <=> Contains(queue.log, m) /\ m # id
        <3> SUFFICES ASSUME NEW m \in 0..queue.nextId - 1
                     PROVE  Contains(queue'.log, m) <=> Contains(queue.log, m) /\ m # id
            OBVIOUS
        <3>1. ASSUME Contains(queue'.log, m) PROVE Contains(queue.log, m) /\ m # id
            <4>1. PICK i \in 1..Len(queue.log) - 1 : queue.log[i + 1] = m
                BY <3>1, <1>6, <1>7 DEF Contains
            <4>2. i + 1 \in 1..Len(queue.log) /\ queue.log[i + 1] = id + i
                BY <1>1, <1>2 DEF QueueFits, id
            <4> QED BY <4>1, <4>2, <1>3 DEF Contains, Messages
        <3>2. ASSUME Contains(queue.log, m), m # id PROVE Contains(queue'.log, m)
            <4>1. PICK i \in 1..Len(queue.log) : queue.log[i] = m
                BY <3>2 DEF Contains
            <4>2. i # 1
                BY <4>1, <3>2, <1>3
            <4>3. i - 1 \in 1..Len(queue.log) - 1 /\ (i - 1) + 1 = i
                BY <4>2, <1>2
            <4> QED BY <4>1, <4>3, <1>6, <1>7 DEF Contains
        <3> QED BY <3>1, <3>2
    <2>4. \A q \in Readers : \A i \in 1..Len(reader'[q].got) : reader'[q].got[i] < queue'.nextId
        <3> SUFFICES ASSUME NEW q \in Readers, NEW i \in 1..Len(reader'[q].got)
                     PROVE  reader'[q].got[i] < queue.nextId
            BY <1>6
        <3>1. Contains(reader'[q].got, reader'[q].got[i])
            BY DEF Contains
        <3>2. Contains(reader[q].got, reader'[q].got[i]) \/ reader'[q].got[i] = id
            BY <2>1, <3>1
        <3> QED BY <3>2, <1>3 DEF Contains, Shared
    <2>5. ASSUME NEW m \in 0..queue.nextId - 1
          PROVE  IF Contains(queue'.log, m) THEN Holders(m)' = {} ELSE \E q \in Readers : Holders(m)' = {q}
        <3>1. CASE m = id
            <4>1. Holders(m) = {}
                BY <3>1, <2>2, <1>1, <1>3 DEF Shared, Messages
            <4>2. Holders(m)' = {r}
                BY <4>1, <2>1, <3>1 DEF Holders
            <4> QED BY <4>2, <2>3, <3>1
        <3>2. CASE m # id
            <4>1. Holders(m)' = Holders(m)
                BY <2>1, <3>2 DEF Holders
            <4> QED BY <4>1, <2>3, <3>2 DEF Shared
        <3> QED BY <3>1, <3>2
    <2> QED BY <2>4, <2>5, <1>6 DEF Shared
<1>11. NoGaps' /\ EndsComplete'
    BY <1>6 DEF NoGaps, EndsComplete
<1>12. ASSUME NEW q \in Readers PROVE ReaderFits(q)'
    <2>1. reader[q].at = "wait" => FALSE
        BY DEF ReaderFits, WaitFits
    <2>2. CASE q = r
        BY <2>2, <1>4, <1>5, <1>6 DEF ReaderFits, ReachedFits, WaitFits
    <2>3. CASE q # r
        BY <2>1, <2>3, <1>5, <1>6, <1>1 DEF ReaderFits, ReachedFits, WaitFits
    <2> QED BY <2>2, <2>3
<1> QED BY <1>8, <1>9, <1>10, <1>11, <1>12

LEMMA GetKeeps == ASSUME IInv, NEW r \in Readers, Get(r) PROVE IInv'
<1> USE DEF IInv
<1>1. CASE UNCHANGED queue /\ reader' = [reader EXCEPT ![r].at = "wait"]
    <2> DEFINE s == [reader[r] EXCEPT !.at = "wait"]
    <2>1. Typed(reader[r]) /\ queue.made /\ UNCHANGED <<config, status, queue>>
        BY <1>1 DEF TypeOK, Typed, Get, ReaderFits, NoReader
    <2>2. reader' = [reader EXCEPT ![r] = s] /\ reader'[r] = s
        BY <1>1 DEF TypeOK
    <2>3. s \in [at : {"get", "wait", "lookup", "over", "aborted"}, from : {reader[r].from},
                 last : {reader[r].last}, got : {reader[r].got}, mark : 0..MaxMessages]
        BY <2>1 DEF Typed
    <2>4. /\ reader'[r].last = reader[r].last /\ reader'[r].from = reader[r].from
          /\ reader'[r].mark = reader[r].mark /\ reader'[r].at = "wait"
        BY <2>1, <2>2 DEF Typed
    <2>5. IF queue.resumable THEN reader[r].last \in {NoId, queue.nextId - 1} ELSE queue.log = <<>>
        <3>1. reader[r].at = "get"
            BY DEF Get
        <3>2. reader'[r] # reader[r]
            BY <2>4, <3>1
        <3>3. CASE queue.resumable /\ ~Available(r)
            BY <3>3, <2>1, StreamAssumption DEF Available, Target, ReaderFits, ReachedFits, QueueFits, Typed, Ids, TypeOK
        <3>4. CASE ~queue.resumable /\ queue.log = <<>>
            BY <3>4
        <3>5. CASE queue.resumable /\ Available(r) /\ reader' = [reader EXCEPT ![r] = Given(@, queue.log[Target(r) + 1])]
            <4>1. reader'[r] = Given(reader[r], queue.log[Target(r) + 1])
                BY <3>5 DEF TypeOK
            <4>2. reader'[r].at = "get"
                BY <4>1, <2>1 DEF Given, Typed
            <4> QED BY <4>2, <2>4
        <3>6. CASE ~queue.resumable /\ reader' = [reader EXCEPT ![r] = Given(@, queue.nextId - Len(queue.log))]
            <4>1. reader'[r] = Given(reader[r], queue.nextId - Len(queue.log))
                BY <3>6 DEF TypeOK
            <4>2. reader'[r].at = "get"
                BY <4>1, <2>1 DEF Given, Typed
            <4> QED BY <4>2, <2>4
        <3> QED BY <3>3, <3>4, <3>5, <3>6 DEF Get
    <2>6. WaitFits(r)'
        BY <2>1, <2>4, <2>5 DEF WaitFits, ReaderFits
    <2>7. s.at # "over"
        BY <2>1 DEF Typed
    <2> QED BY <2>1, <2>2, <2>3, <2>6, <2>7, MoveKeeps
<1>2. CASE queue.resumable /\ Available(r) /\ reader' = [reader EXCEPT ![r] = Given(@, queue.log[Target(r) + 1])]
           /\ UNCHANGED queue
    BY <1>2, GetAvailableKeeps DEF Get
<1>3. CASE ~queue.resumable /\ queue.log # <<>> /\ TakeFirst
           /\ reader' = [reader EXCEPT ![r] = Given(@, queue.nextId - Len(queue.log))]
    BY <1>3, TakeKeeps DEF Get
<1> QED BY <1>1, <1>2, <1>3 DEF Get

\* The queue that push() finds or makes.
LEMMA QueueForFits ==
    ASSUME IInv, NEW q, q = QueueFor(config.resumable)
    PROVE  /\ q \in [made : BOOLEAN, resumable : BOOLEAN, log : Seq(Messages), nextId : 0..MaxMessages]
           /\ q.made /\ q.log = queue.log /\ q.nextId = queue.nextId
           /\ queue.made => q = queue
           /\ ~queue.made => queue.log = <<>> /\ queue.nextId = 0 /\ \A r \in Readers : reader[r] = NoReader
<1> USE DEF IInv
<1>1. ~queue.made => queue = NoQueue /\ \A r \in Readers : reader[r] = NoReader
    BY DEF QueueFits, ReaderFits
<1>2. /\ NoQueue \in [made : BOOLEAN, resumable : BOOLEAN, log : Seq(Messages), nextId : 0..MaxMessages]
      /\ NoQueue.log = <<>> /\ NoQueue.nextId = 0
    BY StreamAssumption DEF NoQueue
<1> QED BY <1>1, <1>2 DEF QueueFor, TypeOK

\* The queue after push(): its type, its log and its next id.
LEMMA PushedFits ==
    ASSUME IInv, NEW q, q = QueueFor(config.resumable), q.nextId < MaxMessages,
           NEW p, p = [q EXCEPT !.log = Append(@, q.nextId), !.nextId = @ + 1]
    PROVE  /\ p \in [made : BOOLEAN, resumable : BOOLEAN, log : Seq(Messages), nextId : 0..MaxMessages]
           /\ p.made /\ p.resumable = q.resumable /\ p.nextId = queue.nextId + 1
           /\ p.log = Append(queue.log, queue.nextId)
           /\ queue.nextId \in Messages /\ queue.nextId \in Nat /\ queue.nextId + 1 \in 0..MaxMessages
           /\ queue.log \in Seq(Messages)
<1> USE DEF IInv
<1>1. /\ q \in [made : BOOLEAN, resumable : BOOLEAN, log : Seq(Messages), nextId : 0..MaxMessages]
      /\ q.made /\ q.log = queue.log /\ q.nextId = queue.nextId
    BY QueueForFits
<1>2. /\ queue.nextId \in Messages /\ queue.nextId \in Nat /\ queue.nextId + 1 \in 0..MaxMessages
      /\ queue.log \in Seq(Messages)
    BY <1>1, StreamAssumption DEF Messages, TypeOK
<1>3. Append(queue.log, queue.nextId) \in Seq(Messages)
    BY <1>2
<1> QED BY <1>1, <1>2, <1>3

\* A message that is given to every waiting reader, of a resumable queue or of
\* one for which nobody waits.
LEMMA PublishToAllKeeps ==
    ASSUME IInv, NEW q, q = QueueFor(config.resumable), q.nextId < MaxMessages, status # "ended",
           NEW p, p = [q EXCEPT !.log = Append(@, q.nextId), !.nextId = @ + 1],
           q.resumable \/ Waiting = {}, queue' = p,
           reader' = [r \in Readers |-> IF r \in Waiting THEN Given(reader[r], IdOf(q)) ELSE reader[r]],
           UNCHANGED <<config, status>>
    PROVE  IInv'
<1> USE DEF IInv
<1> DEFINE id == queue.nextId
<1>1. /\ p \in [made : BOOLEAN, resumable : BOOLEAN, log : Seq(Messages), nextId : 0..MaxMessages]
      /\ queue'.made /\ queue'.resumable = q.resumable /\ queue'.nextId = id + 1
      /\ queue'.log = Append(queue.log, id)
      /\ id \in Messages /\ id \in Nat /\ queue.log \in Seq(Messages)
    BY PushedFits
<1>2. IdOf(q) = id /\ (queue.made => q = queue)
      /\ (~queue.made => queue.log = <<>> /\ id = 0 /\ \A r \in Readers : reader[r] = NoReader)
    BY QueueForFits DEF IdOf
<1>3. \A r \in Readers : Typed(reader[r])
    BY DEF TypeOK, Typed
<1>4. ASSUME NEW r \in Readers, r \in Waiting
      PROVE  /\ queue.made /\ queue.resumable /\ reader[r].last \in {NoId, id - 1}
             /\ reader'[r] = Given(reader[r], id)
             /\ Typed(reader'[r]) /\ reader'[r].at = "get" /\ reader'[r].from = reader[r].from
             /\ reader'[r].last = id /\ reader'[r].mark = 0
             /\ reader'[r].got = Append(reader[r].got, id)
             /\ reader[r].got \in Seq(Messages) /\ Len(reader'[r].got) = Len(reader[r].got) + 1
             /\ reader'[r].got[Len(reader[r].got) + 1] = id
             /\ \A i \in 1..Len(reader[r].got) : reader'[r].got[i] = reader[r].got[i]
    <2>1. queue.made /\ queue.resumable
        BY <1>2, <1>4 DEF Waiting, NoReader
    <2>2. reader[r].last \in {NoId, id - 1}
        BY <1>4, <2>1 DEF Waiting, ReaderFits, WaitFits
    <2>3. reader'[r] = Given(reader[r], id)
        BY <1>2, <1>4
    <2>4. PICK g : g = Given(reader[r], id)
        OBVIOUS
    <2> HIDE DEF id
    <2>5. /\ Typed(g) /\ g.at = "get" /\ g.from = reader[r].from /\ g.last = id /\ g.mark = 0
          /\ g.got = Append(reader[r].got, id)
        <3>1. Typed(reader[r]) /\ id \in Messages
            BY <1>1, <1>3
        <3> QED BY <3>1, <2>4, GivenFields
    <2>6. reader[r].got \in Seq(Messages)
        BY <1>3 DEF Typed
    <2>7. /\ Len(g.got) = Len(reader[r].got) + 1 /\ g.got[Len(reader[r].got) + 1] = id
          /\ \A i \in 1..Len(reader[r].got) : g.got[i] = reader[r].got[i]
        BY <1>1, <2>5, <2>6
    <2>8. reader'[r] = g
        BY <2>3, <2>4
    <2> QED BY <2>1, <2>2, <2>3, <2>5, <2>6, <2>7, <2>8
<1>5. \A r \in Readers : r \notin Waiting => reader'[r] = reader[r]
    OBVIOUS
<1> HIDE DEF id
<1>6. TypeOK'
    <2>1. \A r \in Readers : Typed(reader'[r])
        BY <1>3, <1>4, <1>5
    <2> QED BY <1>1, <2>1 DEF TypeOK, Typed
<1>7. QueueFits'
    <2>1. Len(queue'.log) = Len(queue.log) + 1 /\ Len(queue.log) \in Nat /\ queue'.log[Len(queue.log) + 1] = id
          /\ \A i \in 1..Len(queue.log) : queue'.log[i] = queue.log[i]
        BY <1>1
    <2>2. q.resumable => Len(queue.log) = id
        BY <1>2 DEF QueueFits, id
    <2>3. ASSUME NEW i \in 1..Len(queue'.log)
          PROVE  queue'.log[i] = queue'.nextId - Len(queue'.log) + i - 1
        <3>1. CASE i = Len(queue.log) + 1
            BY <3>1, <2>1, <1>1
        <3>2. CASE i \in 1..Len(queue.log)
            BY SMTT(30), <3>2, <2>1, <1>1 DEF QueueFits, id
        <3> QED BY <3>1, <3>2, <2>1
    <2>4. Len(queue.log) <= id
        BY DEF QueueFits, id
    <2> QED BY SMTT(30), <1>1, <2>1, <2>2, <2>3, <2>4 DEF QueueFits
<1>8. Shared'
    <2>1. ASSUME NEW r \in Readers, NEW i \in 1..Len(reader'[r].got)
          PROVE  reader'[r].got[i] < queue'.nextId
        <3>1. CASE r \notin Waiting
            <4>1. reader'[r].got = reader[r].got /\ Len(reader[r].got) \in Nat
                BY <3>1, <1>3, <1>5 DEF Typed
            <4>2. reader[r].got[i] < id /\ reader[r].got[i] \in Messages
                BY <4>1, <1>3 DEF Shared, Typed, id
            <4> QED BY SMTT(30), <4>1, <4>2, <1>1 DEF Messages
        <3>2. CASE r \in Waiting
            <4>1. Len(reader[r].got) \in Nat /\ \A k \in 1..Len(reader[r].got) : reader[r].got[k] \in Messages
                BY <1>3 DEF Typed
            <4>2. i \in 1..Len(reader[r].got) \/ i = Len(reader[r].got) + 1
                BY <3>2, <1>4, <4>1
            <4>3. CASE i = Len(reader[r].got) + 1
                BY <4>3, <3>2, <1>4, <1>1
            <4>4. CASE i \in 1..Len(reader[r].got)
                <5>1. reader'[r].got[i] = reader[r].got[i]
                    BY <4>4, <3>2, <1>4
                <5>2. reader[r].got[i] < id /\ reader[r].got[i] \in Messages
                    BY <4>1, <4>4 DEF Shared, id
                <5> QED BY <5>1, <5>2, <1>1 DEF Messages
            <4> QED BY <4>2, <4>3, <4>4
        <3> QED BY <3>1, <3>2
    <2>2. ASSUME ~queue'.resumable, NEW m \in 0..queue'.nextId - 1
          PROVE  IF Contains(queue'.log, m) THEN Holders(m)' = {} ELSE \E r \in Readers : Holders(m)' = {r}
        <3>1. Waiting = {} /\ ~queue.resumable
            BY <2>2, <1>1, <1>2 DEF QueueFits, NoQueue
        <3>2. \A k : Holders(k)' = Holders(k)
            BY <3>1, <1>5 DEF Holders
        <3>3. Contains(queue'.log, m) <=> Contains(queue.log, m) \/ m = id
            <4>1. Contains(Append(queue.log, id), m) <=> Contains(queue.log, m) \/ m = id
                BY <1>1, AppendHolds
            <4> QED BY <4>1, <1>1
        <3>4. CASE m = id
            <4>1. Holders(m) = {}
                BY <3>4, <1>1, <1>3 DEF Holders, Contains, Shared, Typed, id
            <4> QED BY <4>1, <3>2, <3>3, <3>4
        <3>5. CASE m # id
            <4>1. m \in 0..queue.nextId - 1
                BY <3>5, <1>1 DEF id
            <4> QED BY <4>1, <3>1, <3>2, <3>3, <3>5 DEF Shared
        <3> QED BY <3>4, <3>5
    <2> QED BY <2>1, <2>2 DEF Shared
<1>9. NoGaps'
    <2> SUFFICES ASSUME queue'.resumable, NEW r \in Readers, NEW i \in 1..Len(reader'[r].got)
                 PROVE  reader'[r].got[i] = IF i > 1 THEN reader'[r].got[i - 1] + 1
                            ELSE IF reader'[r].from = NoId THEN reader'[r].got[i] ELSE reader'[r].from + 1
        BY DEF NoGaps
    <2>1. CASE r \in Waiting
        <3>1. reader[r].last = NoId \/ id = reader[r].last + 1
            BY <2>1, <1>1, <1>4
        <3>2. queue.resumable /\ reader'[r] = Given(reader[r], id)
            BY <2>1, <1>4
        <3> QED BY <3>1, <3>2, <1>1, NextFits
    <2>2. CASE r \notin Waiting /\ queue.made
        BY <2>2, <1>1, <1>2, <1>5 DEF NoGaps
    <2>3. CASE ~queue.made
        <3>1. reader'[r].got = <<>>
            BY <2>3, <1>2, <1>5, <1>4 DEF NoReader
        <3> QED BY <3>1
    <2> QED BY <2>1, <2>2, <2>3
<1>10. ASSUME NEW r \in Readers PROVE ReaderFits(r)'
    <2>1. CASE r \in Waiting
        <3>1. reader'[r].got # <<>> /\ Len(reader'[r].got) = Len(reader[r].got) + 1
            BY <2>1, <1>4, <1>3 DEF Typed
        <3>2. reader'[r].last < queue'.nextId /\ reader'[r].last >= reader'[r].mark - 1
            BY <2>1, <1>1, <1>4
        <3> QED BY ZenonT(30), <2>1, <3>1, <3>2, <1>1, <1>4 DEF ReaderFits, ReachedFits, WaitFits
    <2>2. CASE r \notin Waiting /\ queue.made
        <3>1. reader'[r] = reader[r] /\ reader[r].at # "wait" /\ queue'.resumable = queue.resumable
            BY <2>2, <1>1, <1>2, <1>5 DEF Waiting
        <3>2. queue.resumable => reader[r].last < queue'.nextId
            BY <1>1, <1>3 DEF ReaderFits, ReachedFits, Typed, Ids, NoId, id
        <3> QED BY <2>2, <3>1, <3>2, <1>1 DEF ReaderFits, ReachedFits, WaitFits
    <2>3. CASE r \notin Waiting /\ ~queue.made
        <3>1. reader'[r] = NoReader
            BY <2>3, <1>2, <1>5
        <3>2. /\ NoReader.at = "none" /\ NoReader.got = <<>> /\ NoReader.mark = 0
              /\ NoReader.from = NoId /\ NoReader.last = NoId
            BY DEF NoReader
        <3> QED BY <3>1, <3>2, <1>1 DEF ReaderFits, ReachedFits, WaitFits, NoId
    <2> QED BY <2>1, <2>2, <2>3
<1>11. EndsComplete'
    <2> SUFFICES ASSUME queue'.resumable, NEW r \in Readers, reader'[r].at = "over", reader'[r].from # NoId
                 PROVE  reader'[r].last >= reader'[r].mark - 1
        BY DEF EndsComplete
    <2> QED BY <1>10 DEF ReaderFits, WaitFits
<1> QED BY <1>6, <1>7, <1>8, <1>9, <1>10, <1>11

\* A reader that finds nothing to take goes and looks the run up.
LEMMA EmptyFields ==
    ASSUME NEW s, Typed(s), NEW q, q.nextId \in 0..MaxMessages, NEW e, e = Empty(s, q)
    PROVE  Typed(e) /\ e.at = "lookup" /\ e.got = s.got
<1>1. q.nextId \in Ids
    BY StreamAssumption DEF Ids
<1> QED BY <1>1 DEF Empty, Typed

\* The readers when the first that waits is given the message.
ToFirst(first, q, p) ==
    [r \in Readers |-> CASE r = first -> Given(reader[r], q.nextId)
                         [] r \in Waiting \ {first} -> Empty(reader[r], p)
                         [] OTHER -> reader[r]]

\* A message that is given to the first reader that waits for it; the others
\* find nothing to take.
LEMMA PublishToFirstKeeps ==
    ASSUME IInv, NEW q, q = QueueFor(config.resumable), q.nextId < MaxMessages, status # "ended",
           NEW p, p = [q EXCEPT !.log = Append(@, q.nextId), !.nextId = @ + 1],
           ~q.resumable, queue' = [p EXCEPT !.log = <<>>], NEW first \in Waiting,
           reader' = ToFirst(first, q, p),
           UNCHANGED <<config, status>>
    PROVE  IInv'
<1> USE DEF IInv, ToFirst
<1> DEFINE id == queue.nextId
<1>1. /\ p \in [made : BOOLEAN, resumable : BOOLEAN, log : Seq(Messages), nextId : 0..MaxMessages]
      /\ p.made /\ ~p.resumable /\ p.nextId = id + 1 /\ q.nextId = id
      /\ id \in Messages /\ id \in Nat /\ id + 1 \in 0..MaxMessages
    BY PushedFits, QueueForFits
<1>2. queue' \in [made : BOOLEAN, resumable : BOOLEAN, log : Seq(Messages), nextId : 0..MaxMessages]
      /\ queue'.made /\ ~queue'.resumable /\ queue'.nextId = id + 1 /\ queue'.log = <<>>
    <2>1. <<>> \in Seq(Messages)
        OBVIOUS
    <2> HIDE DEF id
    <2> QED BY <2>1, <1>1
<1>3. \A r \in Readers : Typed(reader[r])
    BY DEF TypeOK, Typed
<1>4. first \in Readers /\ queue.made /\ ~queue.resumable /\ queue.log = <<>>
    <2>1. first \in Readers /\ reader[first].at = "wait"
        BY DEF Waiting
    <2>2. queue.made
        BY <2>1 DEF ReaderFits, NoReader
    <2>3. ~queue.resumable
        BY <2>2, QueueForFits
    <2> QED BY <2>1, <2>2, <2>3 DEF ReaderFits, WaitFits
<1> HIDE DEF id
<1>5. /\ Typed(reader'[first]) /\ reader'[first].at = "get"
      /\ reader'[first].got = Append(reader[first].got, id) /\ reader[first].got \in Seq(Messages)
    <2>1. reader'[first] = Given(reader[first], id)
        BY <1>1, <1>4
    <2>2. Typed(reader[first]) /\ id \in Messages
        BY <1>1, <1>3, <1>4
    <2>5. reader[first].got \in Seq(Messages)
        BY <2>2 DEF Typed
    <2>3. PICK g : g = Given(reader[first], id)
        OBVIOUS
    <2>4. Typed(g) /\ g.at = "get" /\ g.got = Append(reader[first].got, id)
        BY <2>2, <2>3, GivenFields
    <2> QED BY <2>1, <2>3, <2>4, <2>5
<1>6. ASSUME NEW r \in Readers, r # first
      PROVE  /\ Typed(reader'[r]) /\ reader'[r].got = reader[r].got
             /\ reader'[r].at = "lookup" \/ (reader'[r] = reader[r] /\ r \notin Waiting)
             /\ reader'[r].at = "over" => reader[r].at = "over"
    <2>1. CASE r \in Waiting
        <3>1. reader'[r] = Empty(reader[r], p)
            BY <1>6, <2>1
        <3>2. Typed(reader[r]) /\ p.nextId \in 0..MaxMessages
            BY <1>1, <1>3
        <3>3. PICK e : e = Empty(reader[r], p)
            OBVIOUS
        <3>4. Typed(e) /\ e.at = "lookup" /\ e.got = reader[r].got
            BY ZenonT(30), <3>2, <3>3, EmptyFields
        <3> QED BY <3>1, <3>3, <3>4
    <2>2. CASE r \notin Waiting
        BY <1>6, <2>2, <1>3
    <2> QED BY <2>1, <2>2
<1>7. TypeOK'
    <2>1. \A r \in Readers : Typed(reader'[r])
        BY <1>5, <1>6
    <2> QED BY <1>2, <2>1 DEF TypeOK, Typed
<1>8. QueueFits' /\ NoGaps' /\ EndsComplete'
    <2>1. queue'.resumable = FALSE
        BY <1>1, <1>2
    <2>2. NoGaps' /\ EndsComplete'
        BY <2>1 DEF NoGaps, EndsComplete
    <2>3. QueueFits'
        BY SMTT(30), <1>1, <1>2, <2>1 DEF QueueFits
    <2> QED BY <2>2, <2>3
<1>9. \A r \in Readers : \A m : Contains(reader'[r].got, m) <=> Contains(reader[r].got, m) \/ (r = first /\ m = id)
    <2> SUFFICES ASSUME NEW r \in Readers, NEW m
                 PROVE  Contains(reader'[r].got, m) <=> Contains(reader[r].got, m) \/ (r = first /\ m = id)
        OBVIOUS
    <2>1. CASE r = first
        <3>1. Contains(Append(reader[first].got, id), m) <=> Contains(reader[first].got, m) \/ m = id
            BY <1>1, <1>5, AppendHolds
        <3> QED BY <2>1, <3>1, <1>5
    <2>2. CASE r # first
        BY <2>2, <1>6
    <2> QED BY <2>1, <2>2
<1>10. Shared'
    <2>1. ASSUME NEW r \in Readers, NEW x, Contains(reader[r].got, x) PROVE x < id /\ x \in Messages
        <3>1. reader[r].got \in Seq(Messages)
            BY <1>3 DEF Typed
        <3> QED BY <2>1, <3>1 DEF Contains, Shared, id
    <2>2. ASSUME NEW r \in Readers, NEW i \in 1..Len(reader'[r].got)
          PROVE  reader'[r].got[i] < queue'.nextId
        <3>1. Contains(reader'[r].got, reader'[r].got[i])
            BY DEF Contains
        <3>2. CASE Contains(reader[r].got, reader'[r].got[i])
            <4>1. reader'[r].got[i] < id /\ reader'[r].got[i] \in Messages
                BY <3>2, <2>1
            <4> QED BY SMTT(30), <4>1, <1>1, <1>2 DEF Messages
        <3>3. CASE reader'[r].got[i] = id
            BY <3>3, <1>1, <1>2
        <3> QED BY <3>1, <3>2, <3>3, <1>9
    <2>3. ASSUME NEW m \in 0..queue'.nextId - 1
          PROVE  IF Contains(queue'.log, m) THEN Holders(m)' = {} ELSE \E r \in Readers : Holders(m)' = {r}
        <3>1. ~Contains(queue'.log, m) /\ ~Contains(queue.log, m)
            BY <1>2, <1>4 DEF Contains
        <3>2. CASE m = id
            <4>1. Holders(m)' = {first}
                <5>1. \A r \in Readers : ~Contains(reader[r].got, id)
                    BY <2>1, <1>1
                <5>2. \A r \in Readers : Contains(reader'[r].got, id) <=> r = first
                    BY <5>1, <1>4, <1>9
                <5> QED BY <5>2, <3>2, <1>4 DEF Holders
            <4> QED BY <4>1, <3>1, <1>4
        <3>3. CASE m # id
            <4>1. m \in 0..queue.nextId - 1
                BY <3>3, <1>1, <1>2 DEF id
            <4>2. Holders(m)' = Holders(m)
                BY <3>3, <1>9 DEF Holders
            <4> QED BY <4>1, <4>2, <3>1, <1>4 DEF Shared
        <3> QED BY <3>2, <3>3
    <2> QED BY <2>2, <2>3 DEF Shared
<1>11. ASSUME NEW r \in Readers PROVE ReaderFits(r)'
    <2>1. CASE r = first
        BY <2>1, <1>2, <1>5 DEF ReaderFits, ReachedFits, WaitFits
    <2>2. CASE r # first
        BY <2>2, <1>2, <1>4, <1>6 DEF ReaderFits, ReachedFits, WaitFits
    <2> QED BY <2>1, <2>2
<1> QED BY <1>7, <1>8, <1>10, <1>11

LEMMA PublishKeeps == ASSUME IInv, Publish PROVE IInv'
<1>1. PICK q, p : q = QueueFor(config.resumable) /\ p = [q EXCEPT !.log = Append(@, q.nextId), !.nextId = @ + 1]
    OBVIOUS
<1>2. q.nextId < MaxMessages /\ status # "ended" /\ UNCHANGED <<config, status>>
    BY <1>1 DEF Publish
<1>3. CASE /\ q.resumable \/ Waiting = {}
           /\ queue' = p
           /\ reader' = [r \in Readers |-> IF r \in Waiting THEN Given(reader[r], IdOf(q)) ELSE reader[r]]
    BY <1>1, <1>2, <1>3, PublishToAllKeeps
<1>4. ASSUME /\ ~q.resumable
             /\ queue' = [p EXCEPT !.log = <<>>],
             NEW first \in Waiting,
             reader' = ToFirst(first, q, p)
      PROVE  IInv'
    BY <1>1, <1>2, <1>4, PublishToFirstKeeps
<1> QED BY <1>1, <1>3, <1>4 DEF Publish, ToFirst

LEMMA Inductive == IInv /\ [Next]_vars => IInv'
<1> SUFFICES ASSUME IInv, [Next]_vars PROVE IInv'
    OBVIOUS
<1>1. CASE UNCHANGED vars
    <2>1. TypeOK' /\ QueueFits' /\ NoGaps' /\ EndsComplete'
        BY <1>1 DEF vars, IInv, TypeOK, QueueFits, NoGaps, EndsComplete
    <2>2. Shared' /\ \A r \in Readers : ReaderFits(r)'
        BY <1>1 DEF vars, IInv, Shared, Holders, ReaderFits, ReachedFits, WaitFits
    <2> QED BY <2>1, <2>2 DEF IInv
<1>2. CASE Publish
    BY <1>2, PublishKeeps
<1>3. CASE End \/ Delete
    BY <1>3, EndKeeps
<1>4. ASSUME NEW r \in Readers, NEW id \in {NoId} \cup -1..queue.nextId - 1, Join(r, id) PROVE IInv'
    BY <1>4, JoinKeeps
<1>5. ASSUME NEW r \in Readers, Get(r) \/ Timeout(r) \/ Lookup(r) \/ Abort(r) PROVE IInv'
    BY <1>5, GetKeeps, TimeoutKeeps, LookupKeeps, AbortKeeps
<1> QED BY <1>1, <1>2, <1>3, <1>4, <1>5 DEF Next

LEMMA Invariance == Spec => []IInv
<1> QED BY Initially, Inductive, PTL DEF Spec

\* The queue, its readers and the ids they are told are always of their kinds.
THEOREM TypeCorrect == Spec => []TypeOK
<1>1. IInv => TypeOK
    BY DEF IInv
<1> QED BY <1>1, Invariance, PTL

\* Whoever reads a resumable run, and however it waits, misses no message
\* between two that it was given, and none after the id it came with.
THEOREM NothingIsMissed == Spec => []NoGaps
<1>1. IInv => NoGaps
    BY DEF IInv
<1> QED BY <1>1, Invariance, PTL

\* Readers of a run that is not resumable share its messages: none is given to
\* two of them and none is lost between them.
THEOREM MessagesAreShared == Spec => []SharedOnce
<1>1. IInv => SharedOnce
    <2> SUFFICES ASSUME IInv, ~queue.resumable, NEW m \in 0..queue.nextId - 1
                 PROVE  Cardinality(Holders(m)) = IF Contains(queue.log, m) THEN 0 ELSE 1
        BY DEF SharedOnce, Holders
    <2>1. CASE Contains(queue.log, m)
        <3>1. Holders(m) = {}
            BY <2>1 DEF IInv, Shared
        <3> QED BY <2>1, <3>1, FS_EmptySet
    <2>2. CASE ~Contains(queue.log, m)
        <3>1. PICK r \in Readers : Holders(m) = {r}
            BY <2>2 DEF IInv, Shared
        <3> QED BY <2>2, <3>1, FS_Singleton
    <2> QED BY <2>1, <2>2
<1> QED BY <1>1, Invariance, PTL

\* A reader with an id that ends with the run was given all that was published
\* before it gave up waiting.
THEOREM EndsWithEverything == Spec => []EndsComplete
<1>1. IInv => EndsComplete
    BY DEF IInv
<1> QED BY <1>1, Invariance, PTL
=============================================================================
