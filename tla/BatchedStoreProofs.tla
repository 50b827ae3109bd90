------------------------ MODULE BatchedStoreProofs ------------------------
(***************************************************************************)
(* AnswersAreCurrent for any number of clients, runs and calls.  The       *)
(* argument: a call is in one place of one queue or batch (CallsPlaced),   *)
(* so its result is found at its index; whoever waits sees every value     *)
(* that the item takes (SeesItem); and a value is new when it is put,      *)
(* since it carries the number of the put's call (PutsAreNew).             *)
(***************************************************************************)
EXTENDS BatchedStore, FiniteSetTheorems, TLAPS

Values == {Nothing} \cup (Clients \X Nat)

Types ==
    /\ running \in [Runs -> BOOLEAN] /\ at \in [Runs -> {"sleep", "batch", "off"}]
    /\ op \in [Clients -> {"none", "get", "put"}] /\ calls \in [Clients -> Nat]
    /\ queue \in [Runs -> Seq(Clients)] /\ batch \in [Runs -> Seq(Clients)]
    /\ results \in [Runs -> Seq({Nothing, Null, Item})]
    /\ answer \in [Clients -> Values \cup {Null, Error, Unanswered}]
    /\ item \in Values
    /\ seen \in [Clients -> SUBSET Values]
    /\ late \in [Clients -> BOOLEAN]

Waiting == {c \in Clients : Pending(c)}

\* A queue q and a batch b of run s hold calls of s that are in W, each once.
Placed(q, b, s, W) ==
    /\ \A i \in 1..Len(q) : q[i] \in W /\ RunOf[q[i]] = s
    /\ \A i \in 1..Len(b) : b[i] \in W /\ RunOf[b[i]] = s
    /\ \A i, j \in 1..Len(q) : q[i] = q[j] => i = j
    /\ \A i, j \in 1..Len(b) : b[i] = b[j] => i = j
    /\ \A i \in 1..Len(q), j \in 1..Len(b) : q[i] # b[j]

CallsPlaced ==
    \A s \in Runs : (at[s] # "batch" => batch[s] = <<>>) /\ Placed(queue[s], batch[s], s, Waiting)

\* What the store has read for a get is the item, or it has seen that there was none.
ResultsFit ==
    \A s \in Runs :
        /\ Len(results[s]) = Len(batch[s])
        /\ \A i \in 1..Len(batch[s]) :
              LET c == batch[s][i] IN
              IF op[c] = "put" THEN results[s][i] = Null
              ELSE results[s][i] = Item \/ (results[s][i] = Nothing /\ Nothing \in seen[c])

SeesItem == \A c \in Clients : IsFiniteSet(seen[c]) /\ (Pending(c) => item \in seen[c])

\* Is v the value of a put that was called?
Called(v) == v = Nothing \/ \E d \in Clients, n \in Nat : v = <<d, n>> /\ n <= calls[d]

PutsAreNew ==
    /\ Called(item) /\ \A c \in Clients : \A v \in seen[c] : Called(v)
    /\ \A d \in Clients : Pending(d) /\ op[d] = "put" =>
           item # Written(d) /\ \A c \in Clients : Written(d) \notin seen[c]

IInv == Types /\ CallsPlaced /\ ResultsFit /\ SeesItem /\ PutsAreNew /\ AnswersAreCurrent

\* The tuples that stand for results are different.
LEMMA Different ==
    /\ Null # Unanswered /\ Nothing # Unanswered /\ Item # Unanswered /\ Error # Unanswered
    /\ Null # Item /\ Nothing # Item /\ Null # Nothing /\ Error # Nothing /\ Error # Null
    /\ \A v \in Clients \X Nat : v # Nothing /\ v # Unanswered /\ v # Null /\ v # Error /\ v # Item
<1>1. \A v \in Clients \X Nat : Len(v) = 2
    OBVIOUS
<1>2. Len(Nothing) = 1 /\ Len(Unanswered) = 1 /\ Len(Null) = 1 /\ Len(Error) = 1 /\ Len(Item) = 1
    BY DEF Nothing, Unanswered, Null, Error, Item
<1>3. /\ Null # Unanswered /\ Nothing # Unanswered /\ Item # Unanswered /\ Error # Unanswered
      /\ Null # Item /\ Nothing # Item /\ Null # Nothing /\ Error # Nothing /\ Error # Null
    BY DEF Nothing, Unanswered, Null, Error, Item
<1> QED BY <1>1, <1>2, <1>3

\* A new call is queued.
LEMMA Queued ==
    ASSUME NEW s, NEW W, NEW c, c \notin W, RunOf[c] = s,
           NEW q \in Seq(Clients), NEW b \in Seq(Clients), Placed(q, b, s, W), c \in Clients
    PROVE  Placed(Append(q, c), b, s, W \cup {c})
<1> DEFINE q2 == Append(q, c)
<1>1. /\ Len(q2) = Len(q) + 1 /\ q2[Len(q) + 1] = c /\ Len(q) \in Nat
      /\ \A i \in 1..Len(q) : q2[i] = q[i]
    OBVIOUS
<1>2. \A i \in 1..Len(q2) : i \in 1..Len(q) \/ i = Len(q) + 1
    BY <1>1
<1>3. (\A i \in 1..Len(q) : q[i] # c) /\ \A i \in 1..Len(b) : b[i] # c
    BY DEF Placed
<1> HIDE DEF q2
<1>4. \A i \in 1..Len(q2) : q2[i] \in W \cup {c} /\ RunOf[q2[i]] = s
    BY <1>1, <1>2 DEF Placed
<1>5. \A i, j \in 1..Len(q2) : q2[i] = q2[j] => i = j
    BY <1>1, <1>2, <1>3 DEF Placed
<1>6. \A i \in 1..Len(q2), j \in 1..Len(b) : q2[i] # b[j]
    BY <1>1, <1>2, <1>3 DEF Placed
<1>7. Placed(q2, b, s, W \cup {c})
    BY <1>4, <1>5, <1>6 DEF Placed
<1> QED BY <1>7 DEF q2

\* A run's calls stay where they are while they wait.
LEMMA StillPlaced ==
    ASSUME NEW s, NEW W, NEW V, NEW q, NEW b, Placed(q, b, s, W), \A c \in W : RunOf[c] = s => c \in V
    PROVE  Placed(q, b, s, V)
BY DEF Placed

\* What was queued is the batch.
LEMMA Batched == ASSUME NEW s, NEW W, NEW q, NEW b, Placed(q, b, s, W) PROVE Placed(<<>>, q, s, W)
BY DEF Placed

\* The calls of a batch wait no more, the others do.
LEMMA Answered ==
    ASSUME NEW s, NEW W, NEW V, NEW q, NEW b, Placed(q, b, s, W),
           \A c \in W : (\A i \in 1..Len(b) : b[i] # c) => c \in V
    PROVE  Placed(q, <<>>, s, V)
<1>1. \A i \in 1..Len(q) : q[i] \in V /\ RunOf[q[i]] = s
    BY DEF Placed
<1> QED BY <1>1 DEF Placed

LEMMA Initially == Init => IInv
<1> SUFFICES ASSUME Init PROVE IInv
    OBVIOUS
<1>1. Types
    BY DEF Init, Types, Values
<1>2. CallsPlaced /\ ResultsFit
    BY DEF Init, CallsPlaced, Placed, ResultsFit
<1>3. SeesItem
    BY FS_EmptySet DEF Init, SeesItem, Pending
<1>4. PutsAreNew /\ AnswersAreCurrent
    BY DEF Init, PutsAreNew, Called, Pending, AnswersAreCurrent
<1> QED BY <1>1, <1>2, <1>3, <1>4 DEF IInv

LEMMA CallKeeps == ASSUME IInv, NEW c \in Clients, NEW kind \in {"get", "put"}, Call(c, kind) PROVE IInv'
<1> USE DEF IInv
<1> DEFINE s == RunOf[c]
<1>1. /\ s \in Runs /\ ~Pending(c) /\ op' = [op EXCEPT ![c] = kind] /\ calls' = [calls EXCEPT ![c] = @ + 1]
      /\ queue' = [queue EXCEPT ![s] = Append(@, c)] /\ answer' = [answer EXCEPT ![c] = Unanswered]
      /\ seen' = [seen EXCEPT ![c] = {item}] /\ UNCHANGED <<running, at, batch, results, item>>
    BY StoreAssumption DEF Call
<1>2. Types'
    <2>1. queue' \in [Runs -> Seq(Clients)]
        BY <1>1 DEF Types
    <2>2. op' \in [Clients -> {"none", "get", "put"}] /\ calls' \in [Clients -> Nat]
        BY <1>1 DEF Types
    <2>3. answer' \in [Clients -> Values \cup {Null, Error, Unanswered}] /\ seen' \in [Clients -> SUBSET Values]
        BY <1>1 DEF Types
    <2>4. late' \in [Clients -> BOOLEAN]
        BY StoreAssumption DEF Types, Call
    <2> QED BY <1>1, <2>1, <2>2, <2>3, <2>4 DEF Types
<1>3. \A d \in Clients : /\ d # c => op'[d] = op[d] /\ answer'[d] = answer[d] /\ calls'[d] = calls[d]
                                   /\ seen'[d] = seen[d] /\ Pending(d)' = Pending(d)
                         /\ d = c => op'[d] = kind /\ answer'[d] = Unanswered /\ calls'[d] = calls[d] + 1
                                   /\ seen'[d] = {item} /\ Pending(d)'
    BY <1>1 DEF Types, Pending
<1>4. /\ queue[s] \in Seq(Clients) /\ queue'[s] = Append(queue[s], c)
      /\ \A r \in Runs : r # s => queue'[r] = queue[r]
    BY <1>1 DEF Types
<1>6. \A r \in Runs : \A i \in 1..Len(batch[r]) : batch[r][i] \in Clients /\ batch[r][i] # c
    BY <1>1 DEF CallsPlaced, Placed, Waiting
<1>5. Waiting' = Waiting \cup {c} /\ c \notin Waiting
    BY <1>1, <1>3 DEF Waiting
<1>7. CallsPlaced'
    <2> SUFFICES ASSUME NEW r \in Runs PROVE Placed(queue'[r], batch[r], r, Waiting')
        BY <1>1 DEF CallsPlaced
    <2>1. Placed(queue[r], batch[r], r, Waiting)
        BY DEF CallsPlaced
    <2>2. CASE r # s
        BY <2>1, <2>2, <1>4, <1>5, StillPlaced
    <2>3. CASE r = s
        <3>1. batch[s] \in Seq(Clients) /\ queue[s] \in Seq(Clients) /\ RunOf[c] = s
            BY <1>1 DEF Types
        <3>2. Placed(queue[s], batch[s], s, Waiting)
            BY <2>1, <2>3
        <3> HIDE DEF s
        <3>3. Placed(Append(queue[s], c), batch[s], s, Waiting \cup {c})
            BY <3>1, <3>2, <1>5, Queued
        <3> QED BY <3>3, <2>3, <1>4, <1>5
    <2> QED BY <2>2, <2>3
<1>8. ResultsFit'
    BY <1>1, <1>3, <1>6 DEF ResultsFit
<1>9. SeesItem'
    <2>1. \A d \in Clients : IsFiniteSet(seen'[d])
        <3>1. IsFiniteSet({item})
            BY FS_Singleton
        <3> QED BY <3>1, <1>3 DEF SeesItem
    <2>2. \A d \in Clients : Pending(d)' => item \in seen'[d]
        BY <1>3 DEF SeesItem
    <2> QED BY <1>1, <2>1, <2>2 DEF SeesItem
<1>10. \A v : Called(v) => Called(v)'
    <2>1. \A d \in Clients : calls[d] \in Nat /\ (calls'[d] = calls[d] \/ calls'[d] = calls[d] + 1)
        BY <1>3 DEF Types
    <2>2. \A d \in Clients, n \in Nat : n <= calls[d] => n <= calls'[d]
        BY <2>1
    <2> QED BY <2>2 DEF Called
<1>11. \A v : Called(v) => v # Written(c)'
    <2> SUFFICES ASSUME NEW v, Called(v), v = Written(c)' PROVE FALSE
        OBVIOUS
    <2>1. v = <<c, calls[c] + 1>> /\ calls[c] \in Nat
        BY <1>3 DEF Written, Types
    <2>2. v \in Clients \X Nat
        BY <2>1
    <2>3. PICK d \in Clients, n \in Nat : v = <<d, n>> /\ n <= calls[d]
        BY <2>2, Different DEF Called
    <2> QED BY <2>1, <2>3
<1>12. PutsAreNew'
    <2>1. Called(item)' /\ \A d \in Clients : \A v \in seen'[d] : Called(v)'
        BY <1>1, <1>3, <1>10 DEF PutsAreNew
    <2>2. ASSUME NEW d \in Clients, Pending(d)', op'[d] = "put"
          PROVE  item' # Written(d)' /\ \A e \in Clients : Written(d)' \notin seen'[e]
        <3>1. CASE d = c
            BY <3>1, <1>1, <1>3, <1>11 DEF PutsAreNew
        <3>2. CASE d # c
            <4>1. Written(d)' = Written(d) /\ Pending(d) /\ op[d] = "put"
                BY <3>2, <2>2, <1>3 DEF Written
            <4> QED BY <4>1, <1>1, <1>3 DEF PutsAreNew
        <3> QED BY <3>1, <3>2
    <2> QED BY <2>1, <2>2 DEF PutsAreNew
<1>13. AnswersAreCurrent'
    BY <1>3 DEF AnswersAreCurrent
<1> QED BY <1>2, <1>7, <1>8, <1>9, <1>12, <1>13

\* stop() changes nothing that is read here.
LEMMA StopKeeps == ASSUME IInv, NEW s \in Runs, Stop(s) PROVE IInv'
<1> USE DEF IInv
<1>1. UNCHANGED <<at, queue, batch, results, item, op, calls, answer, seen, late>> /\ running' \in [Runs -> BOOLEAN]
    BY DEF Stop, Types
<1>2. Types' /\ CallsPlaced' /\ ResultsFit'
    BY <1>1 DEF Types, CallsPlaced, Waiting, ResultsFit, Pending
<1>3. SeesItem' /\ PutsAreNew' /\ AnswersAreCurrent'
    BY <1>1 DEF SeesItem, PutsAreNew, AnswersAreCurrent, Pending, Called, Written
<1> QED BY <1>2, <1>3

LEMMA WakeKeeps == ASSUME IInv, NEW s \in Runs, Wake(s) PROVE IInv'
<1> USE DEF IInv
<1>1. at[s] = "sleep" /\ UNCHANGED <<running, item, op, calls, answer, seen, late>> /\ batch[s] = <<>>
    BY DEF Wake, CallsPlaced
<1>2. SeesItem' /\ PutsAreNew' /\ AnswersAreCurrent'
    BY <1>1 DEF SeesItem, PutsAreNew, AnswersAreCurrent, Pending, Called, Written
<1>3. CASE ~Goes(s)
    <2>1. UNCHANGED <<queue, batch, results>> /\ at' \in [Runs -> {"sleep", "batch", "off"}]
          /\ \A r \in Runs : at'[r] # "batch" => at[r] # "batch"
        BY <1>1, <1>3 DEF Wake, AfterBatch, Types
    <2>2. Types' /\ CallsPlaced' /\ ResultsFit'
        BY <1>1, <2>1 DEF Types, CallsPlaced, Waiting, ResultsFit, Pending
    <2> QED BY <1>2, <2>2
<1>4. CASE Goes(s)
    <2> DEFINE q == queue[s]
               read == [i \in DOMAIN q |-> IF op[q[i]] = "put" THEN Null
                                           ELSE IF item = Nothing THEN Nothing ELSE Item]
    <2>1. /\ at' = [at EXCEPT ![s] = "batch"] /\ batch' = [batch EXCEPT ![s] = q]
          /\ queue' = [queue EXCEPT ![s] = <<>>] /\ results' = [results EXCEPT ![s] = read]
        BY <1>4 DEF Wake
    <2>2. q \in Seq(Clients) /\ DOMAIN q = 1..Len(q)
        BY DEF Types
    <2>3. read \in Seq({Nothing, Null, Item}) /\ Len(read) = Len(q)
          /\ \A i \in 1..Len(q) : IF op[q[i]] = "put" THEN read[i] = Null
                                  ELSE read[i] = Item \/ (read[i] = Nothing /\ item = Nothing)
        <3>1. \A i \in 1..Len(q) : /\ read[i] \in {Nothing, Null, Item}
                                   /\ IF op[q[i]] = "put" THEN read[i] = Null
                                      ELSE read[i] = Item \/ (read[i] = Nothing /\ item = Nothing)
            BY <2>2
        <3>2. Len(q) \in Nat /\ DOMAIN read = 1..Len(q) /\ read \in [1..Len(q) -> {Nothing, Null, Item}]
            BY <2>2, <3>1
        <3> QED BY <3>1, <3>2
    <2> HIDE DEF read
    <2>4. Types'
        BY <1>1, <2>1, <2>2, <2>3 DEF Types
    <2>5. /\ at'[s] = "batch" /\ batch'[s] = q /\ queue'[s] = <<>> /\ results'[s] = read
          /\ \A r \in Runs : r # s => at'[r] = at[r] /\ batch'[r] = batch[r] /\ queue'[r] = queue[r]
                                      /\ results'[r] = results[r]
        BY <2>1 DEF Types
    <2>6. Waiting' = Waiting
        BY <1>1 DEF Waiting, Pending
    <2>7. \A i \in 1..Len(q) : q[i] \in Clients /\ Pending(q[i])
        BY DEF CallsPlaced, Placed, Waiting
    <2>8. CallsPlaced'
        BY <2>5, <2>6, Batched DEF CallsPlaced
    <2>9. ResultsFit'
        <3> SUFFICES ASSUME NEW r \in Runs
                     PROVE  /\ Len(results'[r]) = Len(batch'[r])
                            /\ \A i \in 1..Len(batch'[r]) :
                                  IF op'[batch'[r][i]] = "put" THEN results'[r][i] = Null
                                  ELSE results'[r][i] = Item
                                       \/ (results'[r][i] = Nothing /\ Nothing \in seen'[batch'[r][i]])
            BY DEF ResultsFit
        <3>1. CASE r # s
            BY <3>1, <2>5, <1>1 DEF ResultsFit
        <3>2. CASE r = s
            <4>1. \A i \in 1..Len(q) : item \in seen[q[i]]
                BY <2>7 DEF CallsPlaced, SeesItem
            <4> QED BY <3>2, <4>1, <2>3, <2>5, <1>1
        <3> QED BY <3>1, <3>2
    <2> QED BY <1>2, <2>4, <2>8, <2>9
<1> QED BY <1>3, <1>4

\* What a batch's end leaves as it is, and what waits after it.
LEMMA Closed ==
    ASSUME IInv, NEW s \in Runs, at[s] = "batch", Closes(s), answer' \in [Clients -> Values \cup {Null, Error, Unanswered}],
           \A c \in Clients : InBatch(s, c) => answer'[c] # Unanswered,
           \A c \in Clients : ~InBatch(s, c) => answer'[c] = answer[c]
    PROVE  /\ CallsPlaced'
           /\ Waiting' = {c \in Waiting : ~InBatch(s, c)}
           /\ \A r \in Runs : r # s => batch'[r] = batch[r] /\ results'[r] = results[r]
           /\ batch'[s] = <<>> /\ results'[s] = <<>>
           /\ at' \in [Runs -> {"sleep", "batch", "off"}]
           /\ batch' \in [Runs -> Seq(Clients)] /\ results' \in [Runs -> Seq({Nothing, Null, Item})]
<1>1. /\ at' = [at EXCEPT ![s] = AfterBatch(s)] /\ batch' = [batch EXCEPT ![s] = <<>>]
      /\ results' = [results EXCEPT ![s] = <<>>] /\ UNCHANGED <<queue, op>>
    BY DEF Closes
<1>2. /\ at' \in [Runs -> {"sleep", "batch", "off"}] /\ at'[s] # "batch"
      /\ \A r \in Runs : r # s => at'[r] = at[r]
    BY <1>1 DEF AfterBatch, IInv, Types
<1>3. batch' \in [Runs -> Seq(Clients)] /\ batch'[s] = <<>> /\ \A r \in Runs : r # s => batch'[r] = batch[r]
    BY <1>1 DEF IInv, Types
<1>4. /\ results' \in [Runs -> Seq({Nothing, Null, Item})] /\ results'[s] = <<>>
      /\ \A r \in Runs : r # s => results'[r] = results[r]
    BY <1>1 DEF IInv, Types
<1>5. Waiting' = {c \in Waiting : ~InBatch(s, c)}
    BY <1>1 DEF Waiting, Pending
<1>6. \A c \in Clients : InBatch(s, c) <=> \E i \in 1..Len(batch[s]) : batch[s][i] = c
    BY DEF InBatch, Contains
<1>7. Placed(queue[s], batch[s], s, Waiting)
    BY DEF IInv, CallsPlaced
<1>8. Placed(queue[s], <<>>, s, Waiting')
    <2>1. \A c \in Waiting : (\A i \in 1..Len(batch[s]) : batch[s][i] # c) => c \in Waiting'
        BY <1>5, <1>6 DEF Waiting
    <2> QED BY <2>1, <1>7, Answered
<1>9. \A c \in Clients : InBatch(s, c) => RunOf[c] = s
    BY <1>6, <1>7 DEF Placed
<1>10. ASSUME NEW r \in Runs, r # s PROVE Placed(queue[r], batch[r], r, Waiting')
    <2>1. \A c \in Waiting : RunOf[c] = r => c \in Waiting'
        BY <1>5, <1>9, <1>10 DEF Waiting
    <2>2. Placed(queue[r], batch[r], r, Waiting)
        BY DEF IInv, CallsPlaced
    <2> QED BY <2>1, <2>2, StillPlaced
<1>11. CallsPlaced'
    BY <1>1, <1>2, <1>3, <1>8, <1>10 DEF IInv, CallsPlaced
<1> QED BY <1>2, <1>3, <1>4, <1>5, <1>11

LEMMA FailKeeps == ASSUME IInv, NEW s \in Runs, Fail(s) PROVE IInv'
<1> USE DEF IInv
<1>1. /\ at[s] = "batch" /\ Closes(s) /\ UNCHANGED <<running, queue, item, op, calls, seen, late>>
      /\ answer' = [c \in Clients |-> IF InBatch(s, c) THEN Error ELSE answer[c]]
    BY DEF Fail, Closes
<1>2. answer' \in [Clients -> Values \cup {Null, Error, Unanswered}]
    BY <1>1 DEF Types
<1>3. \A c \in Clients : /\ InBatch(s, c) => answer'[c] = Error /\ answer'[c] # Unanswered
                         /\ ~InBatch(s, c) => answer'[c] = answer[c]
    BY <1>1, Different
<1>4. /\ CallsPlaced' /\ Waiting' = {c \in Waiting : ~InBatch(s, c)}
      /\ \A r \in Runs : r # s => batch'[r] = batch[r] /\ results'[r] = results[r]
      /\ batch'[s] = <<>> /\ results'[s] = <<>> /\ at' \in [Runs -> {"sleep", "batch", "off"}]
      /\ batch' \in [Runs -> Seq(Clients)] /\ results' \in [Runs -> Seq({Nothing, Null, Item})]
    BY <1>1, <1>2, <1>3, Closed
<1>5. Types'
    BY <1>1, <1>2, <1>4 DEF Types
<1>6. ResultsFit'
    <2> SUFFICES ASSUME NEW r \in Runs
                 PROVE  /\ Len(results'[r]) = Len(batch'[r])
                        /\ \A i \in 1..Len(batch'[r]) :
                              IF op'[batch'[r][i]] = "put" THEN results'[r][i] = Null
                              ELSE results'[r][i] = Item
                                   \/ (results'[r][i] = Nothing /\ Nothing \in seen'[batch'[r][i]])
        BY DEF ResultsFit
    <2>1. CASE r = s
        BY <2>1, <1>4
    <2>2. CASE r # s
        <3>1. batch'[r] = batch[r] /\ results'[r] = results[r] /\ op' = op /\ seen' = seen
            BY <2>2, <1>1, <1>4
        <3> QED BY <3>1 DEF ResultsFit
    <2> QED BY <2>1, <2>2
<1>7. \A c \in Clients : Pending(c)' => Pending(c)
    BY <1>4 DEF Waiting
<1>8. SeesItem' /\ PutsAreNew'
    BY <1>1, <1>7 DEF SeesItem, PutsAreNew, Called, Written
<1>9. AnswersAreCurrent'
    BY <1>1, <1>3 DEF AnswersAreCurrent
<1> QED BY <1>4, <1>5, <1>6, <1>8, <1>9

\* The call's result is the one at its place in the batch.
LEMMA ResultAt ==
    ASSUME IInv, NEW s \in Runs, NEW i \in 1..Len(batch[s])
    PROVE  ResultOf(s, batch[s][i]) = results[s][i]
<1> DEFINE b == batch[s]
           I == {k \in 1..Len(b) : b[k] = b[i]}
<1>1. \A k, m \in 1..Len(b) : b[k] = b[m] => k = m
    BY DEF IInv, CallsPlaced, Placed
<1>2. I = {i}
    BY <1>1
<1>3. Min(I) = i
    <2>1. i \in Int
        OBVIOUS
    <2>2. \E x \in {i} : \A y \in {i} : x =< y
        BY <2>1
    <2> QED BY <1>2, <2>2 DEF Min
<1>4. SelectInSeq(b, LAMBDA d : d = b[i]) = i
    BY <1>2, <1>3 DEF SelectInSeq
<1> QED BY <1>4 DEF ResultOf

LEMMA CompleteKeeps == ASSUME IInv, NEW s \in Runs, Complete(s) PROVE IInv'
<1> USE DEF IInv
<1>1. /\ at[s] = "batch" /\ Closes(s) /\ UNCHANGED <<running, queue, op, calls, late>>
      /\ seen' = [c \in Clients |-> IF Pending(c) THEN seen[c] \cup {item'} ELSE seen[c]]
      /\ answer' = [c \in Clients |-> IF InBatch(s, c) THEN (IF ResultOf(s, c) = Item THEN item' ELSE ResultOf(s, c))
                                      ELSE answer[c]]
    BY DEF Complete, Closes
<1>2. \A i \in 1..Len(batch[s]) : batch[s][i] \in Clients /\ Pending(batch[s][i]) /\ batch[s][i] \in Waiting
    BY DEF CallsPlaced, Placed, Waiting
<1>3. Puts(s) = {i \in 1..Len(batch[s]) : op[batch[s][i]] = "put"}
    BY DEF Puts, Types
\* What the item becomes.
<1>4. \/ Puts(s) = {} /\ item' = item
      \/ \E d \in Clients : InBatch(s, d) /\ Pending(d) /\ op[d] = "put" /\ item' = Written(d)
    <2>1. CASE Puts(s) = {} /\ item' = item
        BY <2>1
    <2>2. CASE \E i \in Puts(s) : item' = Written(batch[s][i])
        BY <2>2, <1>2, <1>3 DEF InBatch, Contains
    <2> QED BY <2>1, <2>2 DEF Complete
<1>5. item' \in Values /\ item' # Unanswered /\ item' # Null /\ item' # Error
    <2>1. \A d \in Clients : Written(d) \in Clients \X Nat
        BY DEF Written, Types
    <2>2. item' \in Values
        BY <1>4, <2>1 DEF Types, Values
    <2> QED BY <2>2, Different DEF Values
\* What a call of the batch is answered.
<1>6. ASSUME NEW c \in Clients, InBatch(s, c)
      PROVE  /\ Pending(c)
             /\ op[c] = "put" => Puts(s) # {} /\ answer'[c] = Null
             /\ op[c] # "put" => answer'[c] = item' \/ (answer'[c] = Nothing /\ Nothing \in seen[c])
    <2>1. PICK i \in 1..Len(batch[s]) : batch[s][i] = c
        BY <1>6 DEF InBatch, Contains
    <2>2. ResultOf(s, c) = results[s][i]
        BY <2>1, ResultAt
    <2>3. IF op[c] = "put" THEN results[s][i] = Null
          ELSE results[s][i] = Item \/ (results[s][i] = Nothing /\ Nothing \in seen[c])
        BY <2>1 DEF ResultsFit
    <2>4. answer'[c] = IF results[s][i] = Item THEN item' ELSE results[s][i]
        BY <1>1, <1>6, <2>2
    <2>5. Pending(c) /\ (op[c] = "put" => Puts(s) # {})
        BY <1>2, <1>3, <2>1
    <2> QED BY <2>3, <2>4, <2>5, Different
<1>7. answer' \in [Clients -> Values \cup {Null, Error, Unanswered}]
    <2>1. \A c \in Clients : answer'[c] \in Values \cup {Null, Error, Unanswered}
        BY <1>1, <1>5, <1>6 DEF Types, Values
    <2> QED BY <2>1, <1>1
<1>8. \A c \in Clients : /\ InBatch(s, c) => answer'[c] # Unanswered
                         /\ ~InBatch(s, c) => answer'[c] = answer[c]
    BY <1>1, <1>5, <1>6, Different
<1>9. /\ CallsPlaced' /\ Waiting' = {c \in Waiting : ~InBatch(s, c)}
      /\ \A r \in Runs : r # s => batch'[r] = batch[r] /\ results'[r] = results[r]
      /\ batch'[s] = <<>> /\ results'[s] = <<>> /\ at' \in [Runs -> {"sleep", "batch", "off"}]
      /\ batch' \in [Runs -> Seq(Clients)] /\ results' \in [Runs -> Seq({Nothing, Null, Item})]
    BY <1>1, <1>7, <1>8, Closed
<1>10. \A c \in Clients : /\ Pending(c)' => Pending(c) /\ ~InBatch(s, c)
                          /\ Pending(c) => seen'[c] = seen[c] \cup {item'}
                          /\ ~Pending(c) => seen'[c] = seen[c]
    BY <1>1, <1>9 DEF Waiting
<1>11. Types'
    <2>1. \A c \in Clients : seen'[c] \in SUBSET Values
        <3>1. \A c \in Clients : seen[c] \in SUBSET Values
            BY DEF Types
        <3> QED BY <3>1, <1>5, <1>10
    <2>2. seen' \in [Clients -> SUBSET Values]
        BY <2>1, <1>1
    <2> QED BY <1>1, <1>5, <1>7, <1>9, <2>2 DEF Types
<1>12. ResultsFit'
    <2> SUFFICES ASSUME NEW r \in Runs
                 PROVE  /\ Len(results'[r]) = Len(batch'[r])
                        /\ \A i \in 1..Len(batch'[r]) :
                              IF op'[batch'[r][i]] = "put" THEN results'[r][i] = Null
                              ELSE results'[r][i] = Item
                                   \/ (results'[r][i] = Nothing /\ Nothing \in seen'[batch'[r][i]])
        BY DEF ResultsFit
    <2>1. CASE r = s
        BY <2>1, <1>9
    <2>2. CASE r # s
        <3>1. batch'[r] = batch[r] /\ results'[r] = results[r] /\ op' = op
            BY <2>2, <1>1, <1>9
        <3>2. \A i \in 1..Len(batch[r]) : batch[r][i] \in Clients
            BY DEF Types
        <3>3. \A c \in Clients : seen[c] \subseteq seen'[c]
            BY <1>10
        <3> QED BY <3>1, <3>2, <3>3 DEF ResultsFit
    <2> QED BY <2>1, <2>2
<1>13. SeesItem'
    <2>1. \A c \in Clients : IsFiniteSet(seen'[c])
        <3> SUFFICES ASSUME NEW c \in Clients PROVE IsFiniteSet(seen'[c])
            OBVIOUS
        <3>1. IsFiniteSet(seen[c])
            BY DEF SeesItem
        <3>2. IsFiniteSet(seen[c] \cup {item'})
            BY <3>1, FS_AddElement
        <3> QED BY <3>1, <3>2, <1>10
    <2>2. \A c \in Clients : Pending(c)' => item' \in seen'[c]
        BY <1>10
    <2> QED BY <2>1, <2>2 DEF SeesItem
<1>14. PutsAreNew'
    <2>1. \A v : Called(v) => Called(v)'
        BY <1>1 DEF Called
    <2>2. Called(item')
        <3>1. \A d \in Clients : Called(Written(d))
            <4> SUFFICES ASSUME NEW d \in Clients PROVE Called(Written(d))
                OBVIOUS
            <4>1. calls[d] \in Nat /\ calls[d] <= calls[d]
                BY DEF Types
            <4> QED BY <4>1 DEF Called, Written
        <3> QED BY <1>4, <3>1 DEF PutsAreNew
    <2>3. \A c \in Clients : \A v \in seen'[c] : Called(v)
        BY <2>2, <1>10 DEF PutsAreNew
    <2>4. ASSUME NEW d \in Clients, Pending(d)', op'[d] = "put"
          PROVE  item' # Written(d)' /\ \A c \in Clients : Written(d)' \notin seen'[c]
        <3>1. Written(d)' = Written(d) /\ Pending(d) /\ op[d] = "put" /\ ~InBatch(s, d)
            BY <2>4, <1>1, <1>10 DEF Written
        <3>2. item' # Written(d)
            BY <3>1, <1>4 DEF PutsAreNew, Written
        <3> QED BY <3>1, <3>2, <1>10 DEF PutsAreNew
    <2>5. Called(item)' /\ \A c \in Clients : \A v \in seen'[c] : Called(v)'
        BY <2>1, <2>2, <2>3
    <2> QED BY <2>4, <2>5 DEF PutsAreNew
\* A put of the batch has seen the item before and after it, which differ.
<1>15. ASSUME NEW c \in Clients, InBatch(s, c), op[c] = "put" PROVE Cardinality(seen'[c]) > 1
    <2>1. Pending(c) /\ Puts(s) # {}
        BY <1>6, <1>15
    <2>2. PICK d \in Clients : Pending(d) /\ op[d] = "put" /\ item' = Written(d)
        BY <2>1, <1>4
    <2>3. IsFiniteSet(seen[c]) /\ item \in seen[c] /\ item' \notin seen[c] /\ seen'[c] = seen[c] \cup {item'}
        BY <2>1, <2>2, <1>10 DEF SeesItem, PutsAreNew
    <2>4. Cardinality(seen[c]) \in Nat /\ Cardinality(seen[c]) # 0
        BY <2>3, FS_CardinalityType, FS_EmptySet
    <2>5. Cardinality(seen'[c]) = Cardinality(seen[c]) + 1
        <3> DEFINE S == seen[c]
                   x == item'
        <3>1. IsFiniteSet(S) /\ x \notin S /\ seen'[c] = S \cup {x}
            BY <2>3
        <3> HIDE DEF S, x
        <3>2. Cardinality(S \cup {x}) = Cardinality(S) + 1
            BY <3>1, FS_AddElement
        <3>3. Cardinality(seen'[c]) = Cardinality(S) + 1
            BY <3>1, <3>2
        <3> QED BY <3>3 DEF S
    <2> QED BY <2>4, <2>5
<1>16. AnswersAreCurrent'
    <2> SUFFICES ASSUME NEW c \in Clients, answer'[c] \notin {Unanswered, Error}
                 PROVE  IF op'[c] = "get" THEN answer'[c] \in seen'[c]
                        ELSE answer'[c] = Null /\ Cardinality(seen'[c]) > 1
        BY DEF AnswersAreCurrent
    <2>1. CASE InBatch(s, c)
        <3>1. op[c] \in {"get", "put"} /\ Pending(c)
            BY <2>1, <1>6 DEF Pending, Types
        <3>2. CASE op[c] = "get"
            BY <3>1, <3>2, <2>1, <1>1, <1>6, <1>10
        <3>3. CASE op[c] = "put"
            BY <3>3, <2>1, <1>1, <1>6, <1>15
        <3> QED BY <3>1, <3>2, <3>3
    <2>2. CASE ~InBatch(s, c)
        <3>1. answer'[c] = answer[c] /\ ~Pending(c) /\ op' = op
            BY <2>2, <1>1, <1>8, <1>9 DEF Waiting, Pending
        <3> QED BY <3>1, <1>10 DEF AnswersAreCurrent
    <2> QED BY <2>1, <2>2
<1> QED BY <1>9, <1>11, <1>12, <1>13, <1>14, <1>16

LEMMA Inductive == IInv /\ [Next]_vars => IInv'
<1> SUFFICES ASSUME IInv, [Next]_vars PROVE IInv'
    OBVIOUS
<1>1. CASE UNCHANGED vars
    BY <1>1 DEF IInv, vars, Types, CallsPlaced, Waiting, ResultsFit, SeesItem, PutsAreNew, AnswersAreCurrent,
                Pending, Called, Written
<1>2. CASE \E c \in Clients, kind \in {"get", "put"} : Call(c, kind)
    BY <1>2, CallKeeps
<1>3. CASE \E s \in Runs : Stop(s)
    BY <1>3, StopKeeps
<1>4. CASE \E s \in Runs : Wake(s)
    BY <1>4, WakeKeeps
<1>5. CASE \E s \in Runs : Complete(s)
    BY <1>5, CompleteKeeps
<1>6. CASE \E s \in Runs : Fail(s)
    BY <1>6, FailKeeps
<1> QED BY <1>1, <1>2, <1>3, <1>4, <1>5, <1>6 DEF Next

\* Every variable has its type, and each call that waits is in one place of one
\* queue or batch of its run (enqueueOperation, processBatchQueue).
THEOREM TypeCorrect == Spec => []TypeOK
<1>1. IInv => TypeOK
  <2> SUFFICES ASSUME IInv PROVE TypeOK
      OBVIOUS
  <2>1. Types
      BY DEF IInv
  <2>2. ASSUME NEW s \in Runs
        PROVE  /\ queue[s] \in Seq({c \in Clients : RunOf[c] = s /\ Pending(c)})
               /\ batch[s] \in Seq({c \in Clients : RunOf[c] = s /\ Pending(c)})
               /\ IsInjective(queue[s] \o batch[s]) /\ DOMAIN results[s] = DOMAIN batch[s]
               /\ at[s] # "batch" => batch[s] = <<>>
    <3> DEFINE q == queue[s]
               b == batch[s]
               Here == {c \in Clients : RunOf[c] = s /\ Pending(c)}
    <3>1. q \in Seq(Clients) /\ b \in Seq(Clients) /\ results[s] \in Seq({Nothing, Null, Item})
        BY <2>1, <2>2 DEF Types
    <3>2. Placed(q, b, s, Waiting) /\ Len(results[s]) = Len(b) /\ (at[s] # "batch" => b = <<>>)
        BY <2>2 DEF IInv, CallsPlaced, ResultsFit
    <3>3. \A c \in Waiting : RunOf[c] = s => c \in Here
        BY DEF Waiting
    <3> HIDE DEF q, b, Here
    <3>4. q \in Seq(Here) /\ b \in Seq(Here)
        BY SMTT(30), <3>1, <3>2, <3>3 DEF Placed
    <3>5. DOMAIN results[s] = DOMAIN b
        BY <3>1, <3>2
    <3>6. IsInjective(q \o b)
      <4> DEFINE z == q \o b
      <4>1. /\ Len(q) \in Nat /\ Len(b) \in Nat /\ DOMAIN z = 1..(Len(q) + Len(b))
            /\ \A i \in 1..Len(q) : z[i] = q[i]
            /\ \A i \in (Len(q) + 1)..(Len(q) + Len(b)) : z[i] = b[i - Len(q)] /\ i - Len(q) \in 1..Len(b)
          BY <3>1
      <4> HIDE DEF z
      <4>2. ASSUME NEW i \in DOMAIN z, NEW j \in DOMAIN z, z[i] = z[j], i < j
            PROVE  FALSE
        <5>1. CASE j <= Len(q)
            BY <4>1, <4>2, <5>1, <3>2 DEF Placed
        <5>2. CASE i > Len(q)
          <6>1. z[i] = b[i - Len(q)] /\ i - Len(q) \in 1..Len(b) /\ z[j] = b[j - Len(q)] /\ j - Len(q) \in 1..Len(b)
              BY SMTT(30), <4>1, <4>2, <5>2
          <6>2. i - Len(q) = j - Len(q)
              BY <3>2, <4>2, <6>1 DEF Placed
          <6> QED BY <4>1, <4>2, <6>2
        <5>3. CASE i <= Len(q) /\ j > Len(q)
            BY <4>1, <4>2, <5>3, <3>2 DEF Placed
        <5> QED BY <4>1, <4>2, <5>1, <5>2, <5>3
      <4>3. \A i, j \in DOMAIN z : z[i] = z[j] => i = j
          BY <4>1, <4>2
      <4> QED BY <4>3 DEF IsInjective, z
    <3> QED BY <3>2, <3>4, <3>5, <3>6 DEF q, b, Here
  <2> QED BY <2>1, <2>2 DEF Types, TypeOK
<1> QED BY Initially, Inductive, <1>1, PTL DEF Spec

\* Calls behave as if each took effect at one moment between its beginning and
\* its end, for any number of callers, of runs that share the item and of calls.
THEOREM CallsTakeEffect == Spec => []AnswersAreCurrent
<1>1. IInv => AnswersAreCurrent
    BY DEF IInv
<1> QED BY Initially, Inductive, <1>1, PTL DEF Spec
=============================================================================
