----------------------- MODULE PregelCheckpointProofs -----------------------
(***************************************************************************)
(* Proofs about PregelCheckpoint, for every number of tasks, runs, faults  *)
(* and checkpoints and every frequency of snapshots. TypeCorrect,          *)
(* NoTaskRunsAhead and ReturnsDurable hold for every Disorder,             *)
(* ThreadIsHistory without "abandon", ReadersSeeWhatWasWritten without any.*)
(***************************************************************************)
EXTENDS PregelCheckpoint, SequenceTheorems, FiniteSetTheorems, WellFoundedInduction, TLAPS

-----------------------------------------------------------------------------
(* Types.                                                                     *)

LoopFields == {"durability", "skipDone", "head", "config", "initial", "empty", "plain", "live",
               "counters", "step", "more", "source", "pending", "exitWrites"}
RowFields == {"at", "group", "of", "task", "deltas"}

\* Ids that have been handed out, and rows of the two tables.
Ids == 0..(nextId - 1)
IsId(i) == i \in Ids /\ i # None
IsCheckpoint(c) == IsId(c.id) /\ c.parent \in Ids
IsWrite(w) == DOMAIN w = RowFields /\ w.of \in Ids /\ Len(w.deltas) <= 1
IsCall(k) ==
    \/ k.op = "put" /\ IsCheckpoint(k.row)
    \/ k.op = "putWrites" /\ IsWrite(k.row) /\ IsId(k.row.at)

Running == {"tick", "run", "settle", "drain"}
Queued == {queue[i] : i \in DOMAIN queue}

SaverTyped ==
    /\ \A c \in DOMAIN stored : stored[c].id = c /\ IsCheckpoint(stored[c])
    /\ \A w \in writes : IsWrite(w) /\ IsId(w.at)
CallsTyped ==
    /\ queue \in Seq(Queued)
    /\ \A c \in Queued : IsCheckpoint(c)
    /\ \A k \in inflight : IsCall(k)
    /\ rejected \in [{"some", "chain"} -> BOOLEAN] /\ (rejected.chain => rejected.some)
LoopTyped ==
    /\ DOMAIN loop = LoopFields
    /\ loop.config \in Ids /\ loop.initial \in Ids
    /\ phase \in Running => IsId(loop.head) /\ IsId(loop.empty)
    /\ \A w \in loop.pending \cup loop.exitWrites : IsWrite(w)
    /\ phase = "settle" => loop.durability = "sync"
CountsTyped ==
    /\ phase \in {"idle", "update"} \cup Running
    /\ todo \subseteq Tasks
    /\ runs \in 0..MaxRuns /\ faults \in 0..MaxFaults /\ nextId \in 1..(MaxCheckpoints + 2)
    /\ phase = "update" => nextId < MaxCheckpoints
    /\ returned \in BOOLEAN

\* Between runs nothing is left of the last one but calls that are late, and
\* when it has returned not even these.
Quiet ==
    /\ phase \in {"idle", "update"} => rejected = NoneRejected
    /\ phase = "update" \/ (phase = "idle" /\ returned) => queue = <<>> /\ inflight = {}

TypeInv == SaverTyped /\ CallsTyped /\ LoopTyped /\ CountsTyped /\ Quiet

-----------------------------------------------------------------------------
(* What the operators return.                                                 *)

\* A queue that gets longer, and one that gets shorter.
LEMMA AppendToQueue ==
    ASSUME NEW S, NEW q \in Seq(S), NEW c
    PROVE  /\ Append(q, c) \in Seq({Append(q, c)[i] : i \in DOMAIN Append(q, c)})
           /\ {Append(q, c)[i] : i \in DOMAIN Append(q, c)} = {q[i] : i \in DOMAIN q} \cup {c}
           /\ Append(q, c) # <<>> /\ Append(q, c)[Len(Append(q, c))] = c
<1> DEFINE p == Append(q, c)
<1>1. /\ p \in Seq(S \cup {c}) /\ Len(q) \in Nat /\ Len(p) = Len(q) + 1
      /\ DOMAIN p = 1..Len(p) /\ DOMAIN q = 1..Len(q)
      /\ \A i \in 1..Len(q) : p[i] = q[i]
      /\ p[Len(q) + 1] = c
  OBVIOUS
<1> HIDE DEF p
<1>2. {p[i] : i \in DOMAIN p} = {q[i] : i \in DOMAIN q} \cup {c}
  <2>1. \A i \in DOMAIN p : p[i] \in {q[j] : j \in DOMAIN q} \cup {c}
    BY <1>1
  <2>2. \A i \in DOMAIN q : i \in DOMAIN p /\ q[i] = p[i]
    BY <1>1
  <2>3. Len(q) + 1 \in DOMAIN p
    BY <1>1
  <2> QED
    BY <1>1, <2>1, <2>2, <2>3
<1>3. p \in Seq({p[i] : i \in DOMAIN p})
  BY <1>1
<1>4. p # <<>> /\ p[Len(p)] = c
  BY <1>1
<1> QED
  BY <1>2, <1>3, <1>4 DEF p

LEMMA HeadOfQueue ==
    ASSUME NEW S, NEW q \in Seq(S), q # <<>>
    PROVE  /\ Tail(q) \in Seq({Tail(q)[i] : i \in DOMAIN Tail(q)})
           /\ {q[i] : i \in DOMAIN q} = {Tail(q)[i] : i \in DOMAIN Tail(q)} \cup {Head(q)}
           /\ Tail(q) = <<>> => Head(q) = q[Len(q)]
           /\ Tail(q) # <<>> => Tail(q)[Len(Tail(q))] = q[Len(q)]
<1> DEFINE p == Tail(q)
<1>1. /\ p \in Seq(S) /\ Len(q) \in Nat /\ Len(q) > 0 /\ Len(p) = Len(q) - 1
      /\ DOMAIN p = 1..Len(p) /\ DOMAIN q = 1..Len(q)
      /\ \A i \in 1..Len(p) : p[i] = q[i + 1]
      /\ Head(q) = q[1]
      /\ p = <<>> <=> Len(p) = 0
  <2>1. Len(q) \in Nat /\ Len(q) > 0 /\ DOMAIN q = 1..Len(q)
    BY EmptySeq, LenProperties
  <2>2. p \in Seq(S) /\ Len(p) = Len(q) - 1 /\ \A i \in 1..Len(p) : p[i] = q[i + 1]
    BY HeadTailProperties
  <2>3. DOMAIN p = 1..Len(p) /\ (p = <<>> <=> Len(p) = 0)
    BY <2>2, EmptySeq, LenProperties
  <2>4. Head(q) = q[1]
    OBVIOUS
  <2> QED
    BY <2>1, <2>2, <2>3, <2>4
<1> HIDE DEF p
<1>2. {q[i] : i \in DOMAIN q} = {p[i] : i \in DOMAIN p} \cup {Head(q)}
  <2>1. \A i \in DOMAIN q : i = 1 \/ (i - 1 \in DOMAIN p /\ q[i] = p[i - 1])
    BY <1>1
  <2>2. \A i \in DOMAIN p : i + 1 \in DOMAIN q /\ p[i] = q[i + 1]
    BY <1>1
  <2>3. 1 \in DOMAIN q
    BY <1>1
  <2> QED
    BY <1>1, <2>1, <2>2, <2>3
<1>3. p \in Seq({p[i] : i \in DOMAIN p})
  BY <1>1
<1>4. /\ p = <<>> => Head(q) = q[Len(q)]
      /\ p # <<>> => p[Len(p)] = q[Len(q)]
  BY <1>1
<1> QED
  BY <1>2, <1>3, <1>4 DEF p

\* MemorySaver.putWrites.
LEMMA PutWriteStores ==
    ASSUME NEW ws, NEW w
    PROVE  /\ \A v \in PutWrite(ws, w) : v \in ws \/ v = w
           /\ ws \subseteq PutWrite(ws, w)
           /\ \E v \in PutWrite(ws, w) : SameRow(v, w)
  BY DEF PutWrite, SameRow

\* The loop that a run starts with.
LoadedFields(l, c, durability) ==
    /\ DOMAIN l = LoopFields
    /\ l.durability = durability /\ l.exitWrites = {}
    /\ IF c = None THEN /\ l.head = nextId /\ l.empty = nextId /\ l.config = None /\ l.initial = None
                        /\ l.plain = <<>> /\ l.pending = {}
       ELSE /\ l.head = c /\ l.empty = c /\ l.config = c /\ l.initial = c
            /\ l.plain = stored[c].plain /\ l.pending = RowsAt(c)

LEMMA LoadedLoop ==
    ASSUME NEW c, NEW durability, NEW explicit
    PROVE  LoadedFields(Loaded(c, durability, explicit), c, durability)
<1>1. CASE c = None
  BY <1>1 DEF Loaded, LoadedFields, NoLoop, LoopFields
<1>2. CASE c # None
  BY <1>2 DEF Loaded, LoadedFields, NoLoop, LoopFields
<1> QED
  BY <1>1, <1>2

\* The loop and the queue after _putCheckpoint.
PutLoop(l, id) ==
    /\ DOMAIN loop' = LoopFields
    /\ loop'.head = id /\ loop'.config = IF DoCheckpoint(l, id) THEN id ELSE l.config
    /\ loop'.initial = l.initial /\ loop'.empty = l.empty /\ loop'.plain = l.plain
    /\ loop'.pending = l.pending /\ loop'.exitWrites = l.exitWrites /\ loop'.durability = l.durability
PutQueue(l, id, source) ==
    /\ queue' \in Seq(Queued')
    /\ IF DoCheckpoint(l, id) /\ ~rejected.chain
       THEN /\ \E c : /\ c.id = id /\ c.parent = l.config /\ c.plain = l.plain /\ c.source = source
                      /\ Queued' = Queued \cup {c}
                      /\ queue' # <<>> /\ queue'[Len(queue')] = c
            /\ Len(queue') = Len(queue) + 1 /\ Len(queue) \in Nat
            /\ \A i \in 1..Len(queue) : queue'[i] = queue[i]
       ELSE queue' = queue

LEMMA PutCheckpointDoes ==
    ASSUME NEW l, DOMAIN l = LoopFields, NEW id, NEW updated, NEW more, NEW source,
           queue \in Seq(Queued), PutCheckpoint(l, id, updated, more, source)
    PROVE  PutLoop(l, id) /\ PutQueue(l, id, source)
<1> DEFINE c == CheckpointOf(l, id, updated, more, source)
<1>1. loop' = AfterPut(l, id, updated, more, source)
  BY DEF PutCheckpoint
<1>2. PutLoop(l, id)
  BY <1>1 DEF PutLoop, AfterPut, LoopFields
<1>3. c.id = id /\ c.parent = l.config /\ c.plain = l.plain /\ c.source = source
  BY DEF CheckpointOf, Checkpoint
<1>4. queue' = IF DoCheckpoint(l, id) /\ ~rejected.chain THEN Append(queue, c) ELSE queue
  BY DEF PutCheckpoint, Chain
<1> HIDE DEF c
<1>5. CASE DoCheckpoint(l, id) /\ ~rejected.chain
  <2>1. queue' = Append(queue, c)
    BY <1>4, <1>5
  <2>0. /\ Len(queue') = Len(queue) + 1 /\ Len(queue) \in Nat
        /\ \A i \in 1..Len(queue) : queue'[i] = queue[i]
    <3>1. queue \in Seq(Queued \cup {c})
      OBVIOUS
    <3> QED
      BY <2>1, <3>1
  <2>2. /\ queue' \in Seq(Queued') /\ Queued' = Queued \cup {c}
        /\ queue' # <<>> /\ queue'[Len(queue')] = c
    BY <2>1, AppendToQueue DEF Queued
  <2> QED
    BY <1>2, <1>3, <1>5, <2>0, <2>2 DEF PutQueue
<1>6. CASE ~(DoCheckpoint(l, id) /\ ~rejected.chain)
  BY <1>2, <1>4, <1>6 DEF PutQueue, Queued
<1> QED
  BY <1>5, <1>6

-----------------------------------------------------------------------------
(* The deltas of a superstep's rows, in the order of their tasks.             *)

\* Naturals are well-founded.
LEMMA LeastNatural ==
    ASSUME NEW T, T \subseteq Nat, T # {}
    PROVE  \E x \in T : \A y \in T : x <= y
<1>1. PICK x \in T : \A y \in T : ~(<<y, x>> \in OpToRel(<, Nat))
  BY NatLessThanWellFounded, WFMin
<1>2. \A y \in T : ~(y < x)
  BY <1>1 DEF OpToRel
<1>3. \A y \in T : x <= y
  BY <1>2
<1> QED
  BY <1>3

\* f joins the first sequences of seqs, one after the other.
Joins(f, seqs, n) == f = [i \in 1..n |-> IF i = 1 THEN seqs[i] ELSE f[i - 1] \o seqs[i]]

LEMMA JoinsExist ==
    ASSUME NEW seqs, NEW n \in Nat
    PROVE  \E f : Joins(f, seqs, n)
<1> DEFINE T == {k \in Nat : ~\E f : Joins(f, seqs, k)}
<1> SUFFICES ASSUME T # {} PROVE FALSE
  OBVIOUS
<1>1. PICK k \in T : \A j \in T : k <= j
  <2>1. T \subseteq Nat
    OBVIOUS
  <2> HIDE DEF T
  <2> QED
    BY <2>1, LeastNatural
<1>2. k \in Nat /\ ~\E f : Joins(f, seqs, k)
  OBVIOUS
<1>3. CASE k = 0
  <2> DEFINE f == [i \in 1..k |-> seqs[i]]
  <2>1. Joins(f, seqs, k)
    BY <1>3 DEF Joins
  <2> QED
    BY <1>2, <2>1
<1>4. CASE k # 0
  <2>1. k - 1 \in Nat /\ k - 1 \notin T
    BY <1>1, <1>2, <1>4
  <2>2. PICK f : Joins(f, seqs, k - 1)
    BY <2>1
  <2> DEFINE g == [i \in 1..k |-> IF i < k THEN f[i] ELSE IF k = 1 THEN seqs[k] ELSE f[k - 1] \o seqs[k]]
             h == [i \in 1..k |-> IF i = 1 THEN seqs[i] ELSE g[i - 1] \o seqs[i]]
  <2>3. \A i \in 1..k : g[i] = h[i]
    <3>1. \A i \in 1..(k - 1) : f[i] = IF i = 1 THEN seqs[i] ELSE f[i - 1] \o seqs[i]
      BY <2>2 DEF Joins
    <3>2. ASSUME NEW i \in 1..k PROVE g[i] = h[i]
      <4>1. CASE i < k
        <5>1. g[i] = f[i] /\ i \in 1..(k - 1)
          BY <1>2, <4>1
        <5>2. i # 1 => g[i - 1] = f[i - 1]
          BY <1>2, <4>1
        <5> QED
          BY <3>1, <5>1, <5>2
      <4>2. CASE i = k
        BY <1>2, <4>2
      <4> QED
        BY <1>2, <4>1, <4>2
    <3> QED
      BY <3>2
  <2>4. Joins(g, seqs, k)
    BY <2>3 DEF Joins
  <2> QED
    BY <1>2, <2>4
<1> QED
  BY <1>3, <1>4

\* FlattenSeq joins all of them.
LEMMA FlattenJoins ==
    ASSUME NEW seqs, Len(seqs) \in Nat, Len(seqs) # 0
    PROVE  \E f : Joins(f, seqs, Len(seqs)) /\ FlattenSeq(seqs) = f[Len(seqs)]
<1> DEFINE F == CHOOSE f : Joins(f, seqs, Len(seqs))
<1>1. Joins(F, seqs, Len(seqs))
  BY JoinsExist
<1>2. FlattenSeq(seqs) = F[Len(seqs)]
  BY DEF FlattenSeq, Joins
<1> QED
  BY <1>1, <1>2

\* Rows that one comes before the other can be counted in this order.
Ordered(rows) ==
    /\ IsFiniteSet(rows)
    /\ \A u, v, w \in rows : Before(u, v) /\ Before(v, w) => Before(u, w)
    /\ \A v, w \in rows : v # w <=> Before(v, w) \/ Before(w, v)
Below(rows, w) == {v \in rows : Before(v, w)}

LEMMA RowsAreRanked ==
    ASSUME NEW rows, Ordered(rows)
    PROVE  /\ Cardinality(rows) \in Nat
           /\ \A w \in rows : Cardinality(Below(rows, w)) \in 0..(Cardinality(rows) - 1)
           /\ \A v, w \in rows : Cardinality(Below(rows, v)) = Cardinality(Below(rows, w)) => v = w
<1>1. IsFiniteSet(rows) /\ Cardinality(rows) \in Nat
  BY FS_CardinalityType DEF Ordered
<1>2. ASSUME NEW w \in rows
      PROVE  /\ IsFiniteSet(Below(rows, w)) /\ Cardinality(Below(rows, w)) \in Nat
             /\ IsFiniteSet(Below(rows, w) \cup {w})
             /\ Cardinality(Below(rows, w) \cup {w}) = Cardinality(Below(rows, w)) + 1
  <2>1. Below(rows, w) \in SUBSET rows /\ w \notin Below(rows, w)
    BY DEF Below, Ordered
  <2>2. IsFiniteSet(Below(rows, w))
    BY <1>1, <2>1, FS_Subset
  <2> QED
    BY <2>1, <2>2, FS_AddElement, FS_CardinalityType
<1>3. ASSUME NEW w \in rows
      PROVE  Cardinality(Below(rows, w)) \in 0..(Cardinality(rows) - 1)
  <2>1. Below(rows, w) \cup {w} \in SUBSET rows
    BY DEF Below
  <2>2. Cardinality(Below(rows, w) \cup {w}) <= Cardinality(rows)
    BY <1>1, <2>1, FS_Subset
  <2> QED
    BY <1>1, <1>2, <2>2
<1>4. ASSUME NEW v \in rows, NEW w \in rows, Before(v, w)
      PROVE  Cardinality(Below(rows, v)) < Cardinality(Below(rows, w))
  <2>1. Below(rows, v) \cup {v} \in SUBSET Below(rows, w)
    BY <1>4 DEF Below, Ordered
  <2>2. Cardinality(Below(rows, v) \cup {v}) <= Cardinality(Below(rows, w))
    BY <1>2, <2>1, FS_Subset
  <2>3. /\ Cardinality(Below(rows, v)) \in Nat /\ Cardinality(Below(rows, w)) \in Nat
        /\ Cardinality(Below(rows, v) \cup {v}) = Cardinality(Below(rows, v)) + 1
    BY <1>2
  <2> QED
    BY <2>2, <2>3
<1>5. ASSUME NEW v \in rows, NEW w \in rows, v # w
      PROVE  Cardinality(Below(rows, v)) # Cardinality(Below(rows, w))
  <2>1. Before(v, w) \/ Before(w, v)
    BY <1>5 DEF Ordered
  <2>2. Cardinality(Below(rows, v)) \in Nat /\ Cardinality(Below(rows, w)) \in Nat
    BY <1>2
  <2>3. \/ Cardinality(Below(rows, v)) < Cardinality(Below(rows, w))
        \/ Cardinality(Below(rows, w)) < Cardinality(Below(rows, v))
    BY <1>4, <2>1
  <2> QED
    BY <2>2, <2>3
<1> QED
  BY <1>1, <1>3, <1>5

LEMMA NthIsRow ==
    ASSUME NEW rows, Ordered(rows)
    PROVE  /\ Cardinality(rows) \in Nat
           /\ \A i \in 1..Cardinality(rows) :
                 Nth(rows, i) \in rows /\ Cardinality(Below(rows, Nth(rows, i))) = i - 1
           /\ \A i, j \in 1..Cardinality(rows) : Nth(rows, i) = Nth(rows, j) => i = j
<1> DEFINE n == Cardinality(rows)
           rank == [w \in rows |-> Cardinality(Below(rows, w)) + 1]
<1>1. n \in Nat /\ IsFiniteSet(rows)
  BY RowsAreRanked DEF Ordered
<1>2. \A w \in rows : rank[w] = Cardinality(Below(rows, w)) + 1 /\ rank[w] \in 1..n
  BY <1>1, RowsAreRanked
<1>3. \A v, w \in rows : rank[v] = rank[w] => v = w
  <2>1. \A w \in rows : Cardinality(Below(rows, w)) \in Int
    BY RowsAreRanked
  <2>2. \A v, w \in rows : rank[v] = rank[w] => Cardinality(Below(rows, v)) = Cardinality(Below(rows, w))
    BY <1>2, <2>1
  <2> QED
    BY <2>2, RowsAreRanked
<1>4. rank \in Injection(rows, 1..n)
  BY <1>2, <1>3 DEF Injection, IsInjective
<1>5. IsFiniteSet(1..n) /\ Cardinality(1..n) = n
  BY <1>1, FS_Interval
<1> HIDE DEF rank
<1>6. rank \in Surjection(rows, 1..n)
  BY <1>4, <1>5, FS_Injection
<1>7. ASSUME NEW i \in 1..n
      PROVE  Nth(rows, i) \in rows /\ Cardinality(Below(rows, Nth(rows, i))) = i - 1
  <2>1. PICK w \in rows : rank[w] = i
    BY <1>6 DEF Surjection
  <2>2. Cardinality(Below(rows, w)) = i - 1
    <3>1. Cardinality(Below(rows, w)) \in Nat
      BY RowsAreRanked
    <3> QED
      BY <1>2, <2>1, <3>1
  <2>3. \E x \in rows : Cardinality({v \in rows : Before(v, x)}) = i - 1
    BY <2>2 DEF Below
  <2>4. Nth(rows, i) \in rows /\ Cardinality({v \in rows : Before(v, Nth(rows, i))}) = i - 1
    BY <2>3 DEF Nth
  <2> QED
    BY <2>4 DEF Below
<1>8. ASSUME NEW i \in 1..n, NEW j \in 1..n, Nth(rows, i) = Nth(rows, j)
      PROVE  i = j
  <2>1. i - 1 = j - 1
    BY <1>7, <1>8
  <2> QED
    BY <1>1, <2>1
<1> QED
  BY <1>1, <1>7, <1>8

\* So can rows that differ in their tasks.
Numbered(rows) ==
    /\ IsFiniteSet(rows)
    /\ \A w \in rows : w.task \in Nat
    /\ \A v, w \in rows : Before(v, w) <=> v.task < w.task
    /\ \A v, w \in rows : v.task = w.task => v = w

LEMMA NumberedAreOrdered ==
    ASSUME NEW rows, Numbered(rows)
    PROVE  Ordered(rows)
<1>1. \A u, v, w \in rows : Before(u, v) /\ Before(v, w) => Before(u, w)
  BY DEF Numbered
<1>2. \A v, w \in rows : v # w <=> Before(v, w) \/ Before(w, v)
  BY DEF Numbered
<1> QED
  BY <1>1, <1>2 DEF Ordered, Numbered

\* The state is made of marks, each of one execution of a task.
Marks == Nat \X Nat \X Nat
IsMarked(w) == w.deltas = <<>> \/ \E r \in Nat : w.deltas = <<<<w.of, w.task, r>>>>
Once(s) == \A i, j \in 1..Len(s) : s[i] = s[j] => i = j

\* Rows of one superstep, each of a task of its own.
Superstep(rows, h) == Numbered(rows) /\ h \in Nat /\ \A w \in rows : w.of = h /\ IsMarked(w)

LEMMA DeltasOnce ==
    ASSUME NEW rows, NEW h, Superstep(rows, h)
    PROVE  /\ Deltas(rows) \in Seq(Marks) /\ Once(Deltas(rows))
           /\ \A i \in 1..Len(Deltas(rows)) : Deltas(rows)[i][1] = h
<1> DEFINE n == Cardinality(rows)
           ds == [i \in 1..n |-> Nth(rows, i).deltas]
           T(i) == {Nth(rows, j).task : j \in 1..i}
           Fine(s, i) == /\ s \in Seq(Marks) /\ Once(s)
                         /\ \A k \in 1..Len(s) : s[k][1] = h /\ s[k][2] \in T(i)
<1>1. /\ n \in Nat
      /\ \A i \in 1..n : Nth(rows, i) \in rows
      /\ \A i, j \in 1..n : Nth(rows, i) = Nth(rows, j) => i = j
  BY NumberedAreOrdered, NthIsRow DEF Superstep
<1>2. \A i, j \in 1..n : Nth(rows, i).task = Nth(rows, j).task => i = j
  BY <1>1 DEF Superstep, Numbered
<1>3. \A i \in 1..n : \/ ds[i] = <<>>
                      \/ \E r \in Nat : ds[i] = <<<<h, Nth(rows, i).task, r>>>> /\ <<h, Nth(rows, i).task, r>> \in Marks
  <2> SUFFICES ASSUME NEW i \in 1..n, ds[i] # <<>>
               PROVE  \E r \in Nat : ds[i] = <<<<h, Nth(rows, i).task, r>>>> /\ <<h, Nth(rows, i).task, r>> \in Marks
    OBVIOUS
  <2>1. Nth(rows, i) \in rows /\ ds[i] = Nth(rows, i).deltas
    BY <1>1
  <2>2. Nth(rows, i).of = h /\ Nth(rows, i).task \in Nat /\ h \in Nat /\ IsMarked(Nth(rows, i))
    BY <2>1 DEF Superstep, Numbered
  <2> QED
    BY <2>1, <2>2 DEF IsMarked, Marks
<1>4. ds \in [1..n -> UNION {{<<>>}, {<<m>> : m \in Marks}}]
  BY <1>3
<1>5. Len(ds) = n /\ Deltas(rows) = FlattenSeq(ds)
  BY <1>1 DEF Deltas
<1> HIDE DEF ds
<1>6. CASE n = 0
  <2>1. ds = <<>>
    BY <1>4, <1>6
  <2>2. Deltas(rows) = <<>>
    BY <1>5, <1>6, <2>1 DEF FlattenSeq
  <2> QED
    BY <2>2 DEF Once
<1>7. CASE n # 0
  <2>1. PICK f : Joins(f, ds, n) /\ FlattenSeq(ds) = f[n]
    BY <1>1, <1>5, <1>7, FlattenJoins
  <2>2. /\ f[1] = ds[1]
        /\ \A i \in 2..n : f[i] = f[i - 1] \o ds[i]
    <3>1. \A i \in 1..n : f[i] = IF i = 1 THEN ds[i] ELSE f[i - 1] \o ds[i]
      BY <2>1, Zenon DEF Joins
    <3>2. 1 \in 1..n /\ \A i \in 2..n : i \in 1..n /\ i # 1
      BY <1>1, <1>7
    <3> QED
      BY <3>1, <3>2
  <2>3. Fine(f[1], 1)
    <3>1. 1 \in 1..n /\ Nth(rows, 1).task \in T(1)
      BY <1>1, <1>7
    <3>2. CASE ds[1] = <<>>
      BY <2>2, <3>2 DEF Once
    <3>3. ASSUME NEW r \in Nat, ds[1] = <<<<h, Nth(rows, 1).task, r>>>>, <<h, Nth(rows, 1).task, r>> \in Marks
          PROVE  Fine(f[1], 1)
      BY <2>2, <3>1, <3>3 DEF Once
    <3> QED
      BY <1>3, <3>1, <3>2, <3>3
  <2>4. ASSUME NEW i \in 2..n, Fine(f[i - 1], i - 1)
        PROVE  Fine(f[i], i)
    <3> DEFINE s == f[i - 1]
               t == Nth(rows, i).task
    <3>1. i \in 1..n /\ t \in T(i) /\ T(i - 1) \subseteq T(i) /\ t \notin T(i - 1)
      <4>1. i \in 1..n /\ t \in T(i) /\ T(i - 1) \subseteq T(i)
        BY <1>1
      <4>2. \A j \in 1..(i - 1) : j \in 1..n /\ j # i
        BY <1>1
      <4>3. \A j \in 1..(i - 1) : Nth(rows, j).task # t
        BY <1>2, <4>1, <4>2
      <4> QED
        BY <4>1, <4>3
    <3>2. s \in Seq(Marks) /\ Once(s) /\ \A k \in 1..Len(s) : s[k][1] = h /\ s[k][2] \in T(i - 1)
      BY <2>4
    <3>3. f[i] = s \o ds[i]
      BY <2>2
    <3> HIDE DEF s, t, T
    <3>4. CASE ds[i] = <<>>
      <4>1. f[i] = s
        BY <3>2, <3>3, <3>4
      <4> QED
        BY <3>1, <3>2, <4>1
    <3>5. ASSUME NEW r \in Nat, ds[i] = <<<<h, t, r>>>>, <<h, t, r>> \in Marks
          PROVE  Fine(f[i], i)
      <4>1. /\ f[i] \in Seq(Marks) /\ Len(f[i]) = Len(s) + 1 /\ Len(s) \in Nat
            /\ \A k \in 1..Len(s) : f[i][k] = s[k]
            /\ f[i][Len(s) + 1] = <<h, t, r>>
        BY <3>2, <3>3, <3>5
      <4>2. \A k \in 1..Len(s) : f[i][k] # <<h, t, r>>
        BY <3>1, <3>2, <4>1
      <4>3. Once(f[i])
        <5>1. \A k \in 1..Len(f[i]) : k \in 1..Len(s) \/ k = Len(s) + 1
          BY <4>1
        <5>2. \A k, l \in 1..Len(s) : s[k] = s[l] => k = l
          BY <3>2 DEF Once
        <5>3. ASSUME NEW k \in 1..Len(f[i]), NEW l \in 1..Len(f[i]), f[i][k] = f[i][l]
              PROVE  k = l
          <6>1. CASE k \in 1..Len(s) /\ l \in 1..Len(s)
            BY <4>1, <5>2, <5>3, <6>1
          <6>2. CASE k = Len(s) + 1 \/ l = Len(s) + 1
            BY <4>1, <4>2, <5>1, <5>3, <6>2
          <6> QED
            BY <5>1, <6>1, <6>2
        <5> QED
          BY <5>3 DEF Once
      <4>4. \A k \in 1..Len(f[i]) : f[i][k][1] = h /\ f[i][k][2] \in T(i)
        BY <3>1, <3>2, <4>1
      <4> QED
        BY <4>1, <4>3, <4>4
    <3> QED
      BY <1>3, <3>1, <3>4, <3>5 DEF t
  <2>5. \A i \in 1..n : Fine(f[i], i)
    <3> DEFINE B == {i \in 1..n : ~Fine(f[i], i)}
    <3> SUFFICES ASSUME B # {} PROVE FALSE
      OBVIOUS
    <3>1. PICK i \in B : \A j \in B : i <= j
      <4>1. B \subseteq Nat
        OBVIOUS
      <4> HIDE DEF B
      <4> QED
        BY <4>1, LeastNatural
    <3>2. i \in 1..n /\ ~Fine(f[i], i)
      OBVIOUS
    <3>3. i # 1
      BY <2>3, <3>2
    <3>4. i \in 2..n /\ i - 1 \in 1..n
      BY <1>1, <3>2, <3>3
    <3>5. i - 1 \notin B
      BY <1>1, <3>1, <3>4
    <3>6. Fine(f[i - 1], i - 1)
      BY <3>4, <3>5
    <3> HIDE DEF B, Fine
    <3> QED
      BY <2>4, <3>2, <3>4, <3>6
  <2> QED
    BY <1>1, <1>5, <1>7, <2>1, <2>5
<1> QED
  BY <1>6, <1>7

\* Ids stay ids.
Grown ==
    \A x : /\ x \in Ids => x \in Ids'
           /\ IsId(x) => IsId(x)'
           /\ IsCheckpoint(x) => IsCheckpoint(x)'
           /\ IsWrite(x) => IsWrite(x)'
           /\ IsCall(x) => IsCall(x)'

LEMMA IdsGrow ==
    ASSUME nextId \in Nat, nextId' \in Nat, nextId <= nextId'
    PROVE  Grown
<1>1. \A x : (x \in Ids => x \in Ids') /\ (IsId(x) => IsId(x)')
  BY DEF Ids, IsId
<1>2. \A x : (IsCheckpoint(x) => IsCheckpoint(x)') /\ (IsWrite(x) => IsWrite(x)')
  BY <1>1 DEF IsCheckpoint, IsWrite
<1> QED
  BY <1>1, <1>2 DEF Grown, IsCall

LEMMA CountsAreNumbers ==
    ASSUME TypeInv
    PROVE  /\ nextId \in Nat /\ nextId >= 1 /\ runs \in Nat /\ faults \in Nat
           /\ MaxCheckpoints \in Nat /\ MaxRuns \in Nat /\ MaxFaults \in Nat
  BY CheckpointAssumption DEF TypeInv, CountsTyped

-----------------------------------------------------------------------------
(* Steps, for the types.                                                      *)

LEMMA StoredAreIds ==
    ASSUME TypeInv, NEW c \in DOMAIN stored
    PROVE  IsId(c) /\ c # None /\ stored[c].id = c /\ stored[c].parent \in Ids
  BY DEF TypeInv, SaverTyped, IsCheckpoint, IsId

\* A run starts from checkpoint c, or from nothing.
Begins(c, l) ==
    /\ Ready(c) /\ Started /\ base' = l.plain /\ (c = None => Latest = None)
    /\ \/ /\ c # None /\ loop' = l /\ queue' = queue /\ nextId' = nextId
       \/ \E id, more, source :
             /\ id = (IF c = None THEN nextId + 1 ELSE nextId)
             /\ nextId' = id + 1 /\ source # "loop"
             /\ PutCheckpoint(l, id, FALSE, more, source)

LEMMA RunsBegin ==
    ASSUME NEW c, NEW durability, NEW explicit,
           Invoke(durability, c, explicit) \/ Resume(durability, c, explicit)
    PROVE  Begins(c, Loaded(c, durability, explicit))
<1>1. CASE Invoke(durability, c, explicit)
  BY <1>1 DEF Invoke, CanName, Begins
<1>2. CASE Resume(durability, c, explicit)
  BY <1>2 DEF Resume, Begins
<1> QED
  BY <1>1, <1>2

\* What a run starts with: its loop, the head that is new to it unless it goes
\* on from c, and the checkpoint that it has put.
StartLoop(l) ==
    /\ DOMAIN loop' = LoopFields /\ loop'.initial = l.initial /\ loop'.empty = l.empty
    /\ loop'.plain = l.plain /\ loop'.pending = l.pending /\ loop'.exitWrites = {}
    /\ loop'.durability = l.durability
    /\ loop'.config = loop'.head \/ loop'.config = l.config
StartHead(c) ==
    \/ c # None /\ loop'.head = c /\ nextId' = nextId
    \/ loop'.head = (IF c = None THEN nextId + 1 ELSE nextId) /\ nextId' = loop'.head + 1
StartQueue(c, l) ==
    \/ /\ queue' = <<>>
       /\ \/ c # None /\ loop'.head = c
          \/ rejected.chain \/ loop'.durability = "exit"
    \/ \E p : /\ p.id = loop'.head /\ p.parent = l.config /\ p.plain = l.plain
              /\ p.source # "loop" /\ Queued' = {p} /\ queue' \in Seq(Queued')
              /\ Len(queue') = 1 /\ loop'.durability # "exit"
StartFrame(l) ==
    /\ phase = "idle" /\ phase' = "tick" /\ inflight = {} /\ inflight' = {} /\ queue = <<>>
    /\ todo' = {} /\ runs < MaxRuns /\ runs' = runs + 1 /\ nextId < MaxCheckpoints
    /\ returned' = FALSE /\ base' = l.plain
    /\ stored' = stored /\ writes' = writes /\ rejected' = rejected /\ faults' = faults
Start(c, l) == (c = None => Latest = None) /\ StartFrame(l) /\ StartLoop(l) /\ StartHead(c) /\ StartQueue(c, l)

LEMMA BeginsStart ==
    ASSUME TypeInv, NEW c \in (DOMAIN stored) \cup {None}, NEW l, NEW d, LoadedFields(l, c, d), Begins(c, l)
    PROVE  Start(c, l)
<1>1. queue \in Seq(Queued) /\ DOMAIN l = LoopFields
  BY DEF TypeInv, CallsTyped, LoadedFields
<1>2. Ready(c) /\ Started /\ base' = l.plain /\ (c = None => Latest = None)
  BY DEF Begins
<1>3. StartFrame(l)
  BY <1>2 DEF Ready, Started, saverVars, StartFrame
<1>4. ASSUME c # None, loop' = l, queue' = queue, nextId' = nextId
      PROVE  Start(c, l)
  <2>1. loop'.head = c
    BY <1>4 DEF LoadedFields
  <2>2. StartLoop(l)
    BY <1>4 DEF StartLoop, LoadedFields
  <2>3. queue' = <<>>
    BY <1>3, <1>4 DEF StartFrame
  <2> QED
    BY <1>2, <1>3, <1>4, <2>1, <2>2, <2>3 DEF Start, StartHead, StartQueue
<1>5. ASSUME NEW id, NEW more, NEW source,
             id = (IF c = None THEN nextId + 1 ELSE nextId), nextId' = id + 1,
             source # "loop", PutCheckpoint(l, id, FALSE, more, source)
      PROVE  Start(c, l)
  <2>1. PutLoop(l, id) /\ PutQueue(l, id, source)
    BY <1>1, <1>5, PutCheckpointDoes
  <2>2. loop'.head = id /\ StartLoop(l)
    BY <2>1 DEF StartLoop, PutLoop, LoadedFields
  <2>3. Queued = {}
    BY <1>3 DEF Queued, StartFrame
  <2>4. ~DoCheckpoint(l, id) => loop'.durability = "exit"
    BY <2>1 DEF DoCheckpoint, PutLoop
  <2>5. CASE DoCheckpoint(l, id) /\ ~rejected.chain
    <3>1. PICK p : /\ p.id = id /\ p.parent = l.config /\ p.plain = l.plain /\ p.source = source
                   /\ Queued' = Queued \cup {p} /\ queue' \in Seq(Queued')
      BY <2>1, <2>5 DEF PutQueue
    <3>2. Queued' = {p}
      BY <2>3, <3>1
    <3>3. id # l.head
      BY <1>5, CountsAreNumbers, StoredAreIds DEF LoadedFields, IsId, Ids
    <3>4. loop'.durability # "exit"
      BY <2>1, <2>5, <3>3 DEF DoCheckpoint, Exiting, PutLoop
    <3>5. Len(queue') = 1
      BY <1>3, <2>1, <2>5 DEF PutQueue, StartFrame
    <3>6. StartQueue(c, l)
      BY <1>5, <2>2, <3>1, <3>2, <3>4, <3>5 DEF StartQueue
    <3> QED
      BY <1>2, <1>3, <1>5, <2>2, <3>6 DEF Start, StartHead
  <2>6. CASE ~(DoCheckpoint(l, id) /\ ~rejected.chain)
    <3>1. queue' = <<>>
      BY <1>3, <2>1, <2>6 DEF PutQueue, StartFrame
    <3>2. rejected.chain \/ loop'.durability = "exit"
      BY <2>4, <2>6
    <3> QED
      BY <1>2, <1>3, <1>5, <2>2, <3>1, <3>2 DEF Start, StartHead, StartQueue
  <2> QED
    BY <2>5, <2>6
<1> QED
  BY <1>4, <1>5 DEF Begins

LEMMA StartIsTyped ==
    ASSUME TypeInv, NEW c \in (DOMAIN stored) \cup {None}, NEW l, NEW d,
           Start(c, l), LoadedFields(l, c, d)
    PROVE  TypeInv'
<1>0. StartFrame(l) /\ StartLoop(l) /\ StartHead(c) /\ StartQueue(c, l)
  BY DEF Start
<1>1. /\ nextId \in Nat /\ nextId >= 1 /\ runs \in Nat
      /\ MaxCheckpoints \in Nat /\ MaxRuns \in Nat
  BY CountsAreNumbers
<1>2. /\ nextId' \in Nat /\ nextId <= nextId' /\ nextId' <= MaxCheckpoints + 2
      /\ c = None => nextId' = nextId + 2
  BY <1>0, <1>1 DEF StartFrame, StartHead
<1>3. Grown
  BY <1>1, <1>2, IdsGrow
<1>4. SaverTyped'
  BY <1>0, <1>3 DEF TypeInv, SaverTyped, StartFrame, Grown
<1>5. c # None => IsId(c) /\ c \in Ids
  BY StoredAreIds DEF IsId
<1>6. /\ l.config \in Ids /\ l.initial \in Ids
      /\ \A w \in l.pending : IsWrite(w)
  BY <1>1, <1>5 DEF LoadedFields, TypeInv, SaverTyped, RowsAt, Ids, None
<1>7. IsId(loop.empty)'
  <2>1. loop'.empty = l.empty
    BY <1>0 DEF StartLoop
  <2>2. CASE c = None
    BY <1>1, <1>2, <2>1, <2>2 DEF LoadedFields, IsId, Ids, None
  <2>3. CASE c # None
    <3>1. loop'.empty = c
      BY <2>1, <2>3 DEF LoadedFields
    <3> QED
      BY <1>3, <1>5, <2>3, <3>1 DEF Grown, IsId, Ids
  <2> QED
    BY <2>2, <2>3
<1>8. IsId(loop.head)'
  <2>1. CASE c # None /\ loop'.head = c
    BY <1>3, <1>5, <2>1 DEF Grown, IsId, Ids
  <2>2. CASE loop'.head = (IF c = None THEN nextId + 1 ELSE nextId) /\ nextId' = loop'.head + 1
    <3>1. loop'.head \in Nat /\ loop'.head >= 1
      BY <1>1, <2>2
    <3> QED
      BY <2>2, <3>1 DEF IsId, Ids, None
  <2> QED
    BY <1>0, <2>1, <2>2 DEF StartHead
<1>9. LoopTyped'
  <2>1. loop'.config = loop'.head \/ loop'.config = l.config
    BY <1>0 DEF StartLoop
  <2>2. (loop.head \in Ids)'
    BY <1>8 DEF IsId
  <2>3. (loop.config \in Ids /\ loop.initial \in Ids)'
    BY <1>0, <1>3, <1>6, <2>1, <2>2 DEF Grown, StartLoop
  <2>4. (\A w \in loop.pending \cup loop.exitWrites : IsWrite(w))'
    BY <1>0, <1>3, <1>6 DEF Grown, StartLoop
  <2>5. (DOMAIN loop = LoopFields /\ phase # "settle")'
    BY <1>0 DEF StartLoop, StartFrame
  <2> QED
    BY <1>7, <1>8, <2>3, <2>4, <2>5 DEF LoopTyped
<1>10. CallsTyped'
  <2>1. (queue \in Seq(Queued) /\ \A p \in Queued : IsCheckpoint(p))'
    <3>1. CASE queue' = <<>>
      BY <3>1 DEF Queued
    <3>2. ASSUME NEW p, p.id = loop'.head, p.parent = l.config, Queued' = {p}, queue' \in Seq(Queued')
          PROVE  (queue \in Seq(Queued) /\ \A q \in Queued : IsCheckpoint(q))'
      <4>1. IsCheckpoint(p)'
        BY <1>3, <1>6, <1>8, <3>2 DEF IsCheckpoint, Grown
      <4> QED
        BY <3>2, <4>1
    <3> QED
      BY <1>0, <3>1, <3>2 DEF StartQueue
  <2>2. inflight' = {} /\ rejected' = rejected
    BY <1>0 DEF StartFrame
  <2> QED
    BY <2>1, <2>2 DEF CallsTyped, TypeInv
<1>11. CountsTyped'
  <2>1. runs' \in 0..MaxRuns /\ nextId' \in 1..(MaxCheckpoints + 2)
    BY <1>0, <1>1, <1>2 DEF StartFrame
  <2>2. faults' \in 0..MaxFaults
    BY <1>0 DEF StartFrame, TypeInv, CountsTyped
  <2>3. phase' = "tick" /\ todo' = {} /\ returned' = FALSE
    BY <1>0 DEF StartFrame
  <2> QED
    BY <2>1, <2>2, <2>3 DEF CountsTyped, Running
<1>12. Quiet'
  BY <1>0 DEF Quiet, StartFrame
<1> QED
  BY <1>4, <1>9, <1>10, <1>11, <1>12 DEF TypeInv

\* Steps that hand out no id.
LEMMA SameIds ==
    ASSUME TypeInv, nextId' = nextId
    PROVE  Grown
  BY CountsAreNumbers, IdsGrow

\* No rows, no deltas.
LEMMA NoDeltas == Deltas({}) = <<>>
<1>1. Cardinality({}) = 0
  BY FS_EmptySet
<1> DEFINE ds == [i \in 1..Cardinality({}) |-> Nth({}, i).deltas]
<1>2. ds = <<>>
  <2>1. ds \in [1..0 -> {Nth({}, i).deltas : i \in 1..0}]
    BY <1>1
  <2> HIDE DEF ds
  <2> QED
    BY <2>1
<1>3. Deltas({}) = FlattenSeq(ds)
  BY DEF Deltas
<1> HIDE DEF ds
<1>4. Len(ds) = 0
  BY <1>2
<1> QED
  BY <1>2, <1>3, <1>4 DEF FlattenSeq

\* The two ways in which updateState starts.
UpdateStarts(c) ==
    /\ phase = "idle" /\ phase' = "update" /\ nextId' = nextId /\ nextId < MaxCheckpoints
    /\ queue = <<>> /\ queue' = queue /\ inflight = {} /\ inflight' = inflight
    /\ rejected' = rejected /\ stored' = stored
    /\ runs < MaxRuns /\ runs' = runs + 1 /\ faults' = faults /\ todo' = {} /\ returned' = FALSE
    /\ DOMAIN loop' = LoopFields /\ loop'.durability = "sync"
    /\ loop'.initial = c /\ loop'.exitWrites = {}
    /\ base' = (IF c = None THEN <<>> ELSE stored[c].plain)
    /\ "abandon" \notin Disorder =>
           loop'.plain = base' \/ loop'.plain = base' \o <<<<c, 0, runs + 1>>>>
    /\ loop'.config = c \/ (c # None /\ loop'.config = stored[c].parent)
    /\ loop'.pending = {} \/ (c # None /\ loop'.pending = RowsAt(c))
    /\ \/ writes' = writes
       \/ c # None /\ \E w : /\ w.at = c /\ w.of = c /\ w.task = 0 /\ DOMAIN w = RowFields
                             /\ w.deltas = <<<<c, 0, runs + 1>>>> /\ writes' = PutWrite(writes, w)

LEMMA StartUpdateStarts ==
    ASSUME TypeInv, NEW c \in (DOMAIN stored) \cup {None}, NEW explicit, StartUpdate(c, explicit)
    PROVE  UpdateStarts(c)
<1> DEFINE l == Loaded(c, "sync", explicit)
           w == Write(c, Own, c, 0, <<<<c, 0, runs + 1>>>>)
<1>1. LoadedFields(l, c, "sync")
  BY LoadedLoop
<1> DEFINE rows == {v \in RowsAt(c) : v.task \in Tasks}
           deltas == (IF explicit \/ c = None THEN <<>> ELSE Deltas(rows)) \o w.deltas
<1>2. /\ loop' = [l EXCEPT !.plain = @ \o deltas, !.live = @ \o deltas, !.source = "update"]
      /\ base' = l.plain
  BY DEF StartUpdate
<1>3. writes' = IF c = None THEN writes ELSE PutWrite(writes, w)
  BY DEF StartUpdate
<1>4. /\ w.at = c /\ w.of = c /\ w.task = 0 /\ DOMAIN w = RowFields
      /\ w.deltas = <<<<c, 0, runs + 1>>>>
  BY DEF Write, RowFields
<1>5. "abandon" \notin Disorder => deltas = <<<<c, 0, runs + 1>>>>
  <2>1. <<>> \o w.deltas = <<<<c, 0, runs + 1>>>>
    <3>1. w.deltas = <<<<c, 0, runs + 1>>>>
      BY <1>4
    <3> HIDE DEF w
    <3> QED
      BY <3>1
  <2>2. ASSUME "abandon" \notin Disorder, ~explicit, c # None PROVE Deltas(rows) = <<>>
    <3>1. rows = {}
      BY <2>2 DEF StartUpdate, Untouched
    <3> QED
      BY <3>1, NoDeltas
  <2>3. ASSUME "abandon" \notin Disorder
        PROVE  (IF explicit \/ c = None THEN <<>> ELSE Deltas(rows)) = <<>>
    BY <2>2, <2>3
  <2> QED
    BY <2>1, <2>3
<1>6. base' = (IF c = None THEN <<>> ELSE stored[c].plain)
  BY <1>1, <1>2 DEF LoadedFields
<1> HIDE DEF l, w, deltas
<1>7. loop'.plain = l.plain \o deltas
  BY <1>1, <1>2 DEF LoadedFields, LoopFields
<1>8. "abandon" \notin Disorder => loop'.plain = base' \o <<<<c, 0, runs + 1>>>>
  BY <1>2, <1>5, <1>7
<1>9. /\ DOMAIN loop' = LoopFields /\ loop'.durability = "sync"
      /\ loop'.initial = l.initial /\ loop'.config = l.config
      /\ loop'.pending = l.pending /\ loop'.exitWrites = l.exitWrites
  BY <1>1, <1>2 DEF LoadedFields, LoopFields
<1>10. /\ loop'.initial = c /\ loop'.config = c /\ loop'.exitWrites = {}
       /\ IF c = None THEN loop'.pending = {} ELSE loop'.pending = RowsAt(c)
  BY <1>1, <1>9 DEF LoadedFields
<1>11. /\ phase = "idle" /\ phase' = "update" /\ nextId' = nextId /\ nextId < MaxCheckpoints
       /\ queue = <<>> /\ queue' = queue /\ inflight = {} /\ inflight' = inflight
       /\ rejected' = rejected /\ stored' = stored
       /\ runs < MaxRuns /\ runs' = runs + 1 /\ faults' = faults /\ todo' = {} /\ returned' = FALSE
  BY DEF StartUpdate, Ready, pendingVars
<1> QED
  BY <1>3, <1>4, <1>6, <1>8, <1>9, <1>10, <1>11 DEF UpdateStarts

LEMMA StartCopyStarts ==
    ASSUME TypeInv, NEW c \in DOMAIN stored, StartCopy(c)
    PROVE  UpdateStarts(c)
<1> DEFINE l == Loaded(c, "sync", TRUE)
<1>1. LoadedFields(l, c, "sync") /\ c # None
  BY LoadedLoop, StoredAreIds
<1>2. loop' = [l EXCEPT !.config = stored[c].parent, !.source = "fork", !.pending = {}]
  BY DEF StartCopy
<1> HIDE DEF l
<1>3. /\ DOMAIN loop' = LoopFields /\ loop'.durability = "sync"
      /\ loop'.initial = c /\ loop'.config = stored[c].parent
      /\ loop'.pending = {} /\ loop'.exitWrites = {} /\ loop'.plain = stored[c].plain
  BY <1>1, <1>2 DEF LoadedFields, LoopFields
<1>4. /\ phase = "idle" /\ phase' = "update" /\ nextId' = nextId /\ nextId < MaxCheckpoints
      /\ queue = <<>> /\ queue' = queue /\ inflight = {} /\ inflight' = inflight
      /\ rejected' = rejected /\ stored' = stored /\ writes' = writes /\ base' = stored[c].plain
      /\ runs < MaxRuns /\ runs' = runs + 1 /\ faults' = faults /\ todo' = {} /\ returned' = FALSE
  BY DEF StartCopy, Ready, pendingVars, saverVars
<1> QED
  BY <1>1, <1>3, <1>4 DEF UpdateStarts

LEMMA UpdateIsTyped ==
    ASSUME TypeInv, NEW c \in (DOMAIN stored) \cup {None}, UpdateStarts(c)
    PROVE  TypeInv'
<1>1. Grown
  BY SameIds DEF UpdateStarts
<1>2. c \in Ids /\ (c # None => IsId(c) /\ stored[c].parent \in Ids)
  BY StoredAreIds, CountsAreNumbers DEF IsId, Ids, None
<1>3. SaverTyped'
  <2>1. (\A i \in DOMAIN stored : stored[i].id = i /\ IsCheckpoint(stored[i]))'
    BY <1>1 DEF UpdateStarts, TypeInv, SaverTyped, Grown
  <2>2. \A w \in writes : IsWrite(w)' /\ IsId(w.at)'
    BY <1>1 DEF TypeInv, SaverTyped, Grown
  <2>3. ASSUME c # None, NEW w, w.at = c, w.of = c, DOMAIN w = RowFields,
               w.deltas = <<<<c, 0, runs + 1>>>>
        PROVE  IsWrite(w)' /\ IsId(w.at)'
    BY <1>1, <1>2, <2>3 DEF IsWrite, Grown
  <2>4. (\A w \in writes : IsWrite(w) /\ IsId(w.at))'
    <3>1. CASE writes' = writes
      BY <2>2, <3>1
    <3>2. ASSUME c # None, NEW w, w.at = c, w.of = c, DOMAIN w = RowFields,
                 w.deltas = <<<<c, 0, runs + 1>>>>,
                 writes' = PutWrite(writes, w)
          PROVE  \A v \in writes' : IsWrite(v)' /\ IsId(v.at)'
      <4>1. IsWrite(w)' /\ IsId(w.at)'
        BY <2>3, <3>2
      <4>2. \A v \in writes' : v \in writes \/ v = w
        BY <3>2, PutWriteStores
      <4> QED
        BY <2>2, <4>1, <4>2
    <3> QED
      BY <3>1, <3>2 DEF UpdateStarts
  <2> QED
    BY <2>1, <2>4 DEF SaverTyped
<1>4. CallsTyped'
  BY <1>1 DEF UpdateStarts, TypeInv, CallsTyped, Queued, Grown
<1>5. LoopTyped'
  <2>1. \A w \in RowsAt(c) : IsWrite(w)'
    BY <1>1 DEF RowsAt, TypeInv, SaverTyped, Grown
  <2>2. (loop.config \in Ids /\ loop.initial \in Ids)'
    BY <1>1, <1>2 DEF UpdateStarts, Grown
  <2>3. (\A w \in loop.pending \cup loop.exitWrites : IsWrite(w))'
    BY <2>1 DEF UpdateStarts
  <2> QED
    BY <2>2, <2>3 DEF LoopTyped, UpdateStarts, Running
<1>6. CountsTyped'
  <2>1. runs' \in 0..MaxRuns
    BY CountsAreNumbers DEF UpdateStarts
  <2> QED
    BY <2>1 DEF UpdateStarts, TypeInv, CountsTyped
<1>7. Quiet'
  BY DEF UpdateStarts, TypeInv, Quiet
<1> QED
  BY <1>3, <1>4, <1>5, <1>6, <1>7 DEF TypeInv

LEMMA PrepareIsTyped ==
    ASSUME TypeInv, Prepare
    PROVE  TypeInv'
<1>1. Grown
  BY SameIds DEF Prepare, countVars
<1>2. /\ phase = "tick" /\ phase' = "run" /\ loop' = loop /\ stored' = stored /\ writes' = writes
      /\ queue' = queue /\ inflight' = inflight /\ rejected' = rejected
      /\ runs' = runs /\ faults' = faults /\ nextId' = nextId /\ returned' = returned
      /\ todo' \subseteq Tasks
  BY DEF Prepare, saverVars, pendingVars, countVars, historyVars
<1>3. SaverTyped' /\ CallsTyped'
  BY <1>1, <1>2 DEF TypeInv, SaverTyped, CallsTyped, Queued, Grown
<1>4. LoopTyped'
  BY <1>1, <1>2 DEF TypeInv, LoopTyped, Running, Grown
<1>5. CountsTyped' /\ Quiet'
  BY <1>2 DEF TypeInv, CountsTyped, Running, Quiet
<1> QED
  BY <1>3, <1>4, <1>5 DEF TypeInv

\* putWrites of the loop: the row of task t takes the place of an earlier one.
RowOf(t) == Write(loop.head, Own, loop.head, t, IF t \in Silent THEN <<>> ELSE <<<<loop.head, t, runs>>>>)
Succeeds(t) ==
    /\ phase = "run" /\ t \in todo
    /\ RowOf(t).at = loop.head /\ RowOf(t).of = loop.head /\ RowOf(t).group = Own /\ RowOf(t).task = t
    /\ DOMAIN RowOf(t) = RowFields /\ Len(RowOf(t).deltas) <= 1
    /\ DOMAIN loop' = LoopFields
    /\ RowOf(t).deltas = <<>> \/ RowOf(t).deltas = <<<<loop.head, t, runs>>>>
    /\ \A w \in loop'.pending :
          w = RowOf(t) \/ (w \in loop.pending /\ (w.of # loop.head \/ w.group # Own \/ w.task # t))
    /\ loop'.head = loop.head /\ loop'.config = loop.config /\ loop'.initial = loop.initial
    /\ loop'.empty = loop.empty /\ loop'.plain = loop.plain /\ loop'.durability = loop.durability
    /\ loop'.exitWrites = loop.exitWrites
    /\ inflight' = IF loop.durability = "exit" THEN inflight
                   ELSE inflight \cup {[op |-> "putWrites", row |-> RowOf(t)]}
    /\ phase' = phase /\ todo' = todo \ {t} /\ stored' = stored /\ writes' = writes
    /\ queue' = queue /\ rejected' = rejected /\ runs' = runs /\ faults' = faults
    /\ nextId' = nextId /\ returned' = returned /\ base' = base

LEMMA TaskSucceedsDoes ==
    ASSUME TypeInv, NEW t, t \in todo, TaskSucceeds(t)
    PROVE  Succeeds(t)
<1> DEFINE w == RowOf(t)
<1>1. /\ w.at = loop.head /\ w.of = loop.head /\ w.group = Own /\ w.task = t
      /\ DOMAIN w = RowFields /\ Len(w.deltas) <= 1
      /\ w.deltas = <<>> \/ w.deltas = <<<<loop.head, t, runs>>>>
  BY DEF RowOf, Write, RowFields
<1>2. /\ loop' = [loop EXCEPT !.pending = {v \in @ : v.of # w.of \/ v.group # Own
                                                       \/ v.task # t} \cup {w}]
      /\ inflight' = IF loop.durability = "exit" THEN inflight
                     ELSE inflight \cup {[op |-> "putWrites", row |-> w]}
  BY DEF TaskSucceeds, RowOf
<1>3. /\ phase = "run" /\ phase' = phase /\ todo' = todo \ {t} /\ stored' = stored /\ writes' = writes
      /\ queue' = queue /\ rejected' = rejected /\ runs' = runs /\ faults' = faults
      /\ nextId' = nextId /\ returned' = returned /\ base' = base
  BY DEF TaskSucceeds, saverVars, countVars, historyVars
<1> HIDE DEF w
<1>4. DOMAIN loop = LoopFields
  BY DEF TypeInv, LoopTyped
<1>5. /\ DOMAIN loop' = LoopFields
      /\ \A v \in loop'.pending :
            v = w \/ (v \in loop.pending /\ (v.of # loop.head \/ v.group # Own \/ v.task # t))
      /\ loop'.head = loop.head /\ loop'.config = loop.config /\ loop'.initial = loop.initial
      /\ loop'.empty = loop.empty /\ loop'.plain = loop.plain /\ loop'.durability = loop.durability
      /\ loop'.exitWrites = loop.exitWrites
  BY <1>1, <1>2, <1>4 DEF LoopFields
<1> QED
  BY <1>1, <1>2, <1>3, <1>5 DEF w, Succeeds

LEMMA TaskSucceedsIsTyped ==
    ASSUME TypeInv, NEW t, Succeeds(t)
    PROVE  TypeInv'
<1>1. Grown
  BY SameIds DEF Succeeds
<1>2. IsId(loop.head) /\ loop.head \in Ids
  BY DEF Succeeds, TypeInv, LoopTyped, Running, IsId
<1>3. IsWrite(RowOf(t)) /\ IsId(RowOf(t).at)
  BY <1>2 DEF Succeeds, IsWrite
<1>4. SaverTyped'
  BY <1>1 DEF Succeeds, TypeInv, SaverTyped, Grown
<1>5. CallsTyped'
  <2>1. IsCall([op |-> "putWrites", row |-> RowOf(t)])
    BY <1>3 DEF IsCall
  <2>2. \A k \in inflight' : IsCall(k)
    BY <2>1 DEF Succeeds, TypeInv, CallsTyped
  <2> QED
    BY <1>1, <2>2 DEF Succeeds, TypeInv, CallsTyped, Queued, Grown
<1>6. LoopTyped'
  <2>1. \A w \in loop'.pending \cup loop'.exitWrites : IsWrite(w)
    BY <1>3 DEF Succeeds, TypeInv, LoopTyped
  <2> QED
    BY <1>1, <2>1 DEF Succeeds, TypeInv, LoopTyped, Running, Grown
<1>7. CountsTyped' /\ Quiet'
  BY DEF Succeeds, TypeInv, CountsTyped, Quiet
<1> QED
  BY <1>4, <1>5, <1>6, <1>7 DEF TypeInv

\* _putCheckpoint of a superstep: its writes are applied, and the new head put.
Applies ==
    /\ phase = "run" /\ todo = {} /\ nextId <= MaxCheckpoints /\ nextId' = nextId + 1
    /\ phase' = (IF loop.durability = "sync" THEN "settle" ELSE "tick")
    /\ todo' = todo /\ inflight' = inflight /\ rejected' = rejected /\ runs' = runs /\ faults' = faults
    /\ stored' = stored /\ writes' = writes /\ returned' = returned /\ base' = base
    /\ DOMAIN loop' = LoopFields
    /\ loop'.head = nextId /\ loop'.config \in {nextId, loop.config} /\ loop'.initial = loop.initial
    /\ loop'.empty = loop.empty /\ loop'.durability = loop.durability /\ loop'.pending = {}
    /\ loop'.plain = loop.plain \o Deltas(Current(loop.pending))
    /\ \A w \in loop'.exitWrites :
          \/ w \in loop.exitWrites
          \/ \E v \in loop.pending : /\ w.of = v.of /\ w.task = v.task /\ w.deltas = v.deltas
                                     /\ DOMAIN w = RowFields
    /\ queue' \in Seq(Queued')
    /\ IF loop.durability # "exit" /\ ~rejected.chain
       THEN \E c : /\ c.id = nextId /\ c.parent = loop.config /\ c.plain = loop'.plain
                   /\ Queued' = Queued \cup {c} /\ queue' # <<>> /\ queue'[Len(queue')] = c
                   /\ Len(queue') = Len(queue) + 1 /\ Len(queue) \in Nat
                   /\ \A i \in 1..Len(queue) : queue'[i] = queue[i]
       ELSE queue' = queue

LEMMA ApplyDoes ==
    ASSUME TypeInv, Apply
    PROVE  Applies
<1> DEFINE deltas == Deltas(Current(loop.pending))
           captured == {Write(None, loop.step, w.of, w.task, w.deltas) :
                            w \in {v \in loop.pending : v.deltas # <<>>}}
           l == [loop EXCEPT !.plain = @ \o deltas, !.live = @ \o deltas, !.pending = {},
                             !.exitWrites = IF loop.durability = "exit" THEN @ \cup captured ELSE @]
<1>1. PICK more \in BOOLEAN : PutCheckpoint(l, nextId, deltas # <<>>, more, "loop")
  BY DEF Apply
<1>2. DOMAIN loop = LoopFields /\ nextId \in Nat /\ queue \in Seq(Queued) /\ IsId(loop.head)
  BY CountsAreNumbers DEF TypeInv, LoopTyped, CallsTyped, Running, Apply
<1>3. /\ phase = "run" /\ todo = {} /\ nextId <= MaxCheckpoints /\ nextId' = nextId + 1
      /\ phase' = (IF loop.durability = "sync" THEN "settle" ELSE "tick")
      /\ todo' = todo /\ inflight' = inflight /\ rejected' = rejected /\ runs' = runs /\ faults' = faults
      /\ stored' = stored /\ writes' = writes /\ returned' = returned /\ base' = base
  BY DEF Apply, saverVars, historyVars
<1>4. \A w \in captured : \E v \in loop.pending : /\ w.of = v.of /\ w.task = v.task /\ w.deltas = v.deltas
                                                  /\ DOMAIN w = RowFields
  BY DEF Write, RowFields
<1> HIDE DEF deltas, captured
<1>5. /\ DOMAIN l = LoopFields /\ l.head = loop.head /\ l.config = loop.config
      /\ l.initial = loop.initial /\ l.empty = loop.empty /\ l.durability = loop.durability
      /\ l.pending = {} /\ l.plain = loop.plain \o deltas
      /\ \A w \in l.exitWrites : w \in loop.exitWrites \/ w \in captured
  BY <1>2 DEF LoopFields
<1> HIDE DEF l
<1>6. PutLoop(l, nextId) /\ PutQueue(l, nextId, "loop")
  BY <1>1, <1>2, <1>5, PutCheckpointDoes
<1>7. nextId # l.head
  BY <1>2, <1>5 DEF IsId, Ids
<1>8. DoCheckpoint(l, nextId) <=> loop.durability # "exit"
  BY <1>5, <1>7 DEF DoCheckpoint, Exiting
<1>9. /\ DOMAIN loop' = LoopFields /\ loop'.head = nextId /\ loop'.config \in {nextId, loop.config}
      /\ loop'.initial = loop.initial /\ loop'.empty = loop.empty
      /\ loop'.durability = loop.durability /\ loop'.pending = {}
      /\ loop'.exitWrites = l.exitWrites /\ loop'.plain = l.plain
  BY <1>5, <1>6 DEF PutLoop
<1>10. \A w \in loop'.exitWrites :
          \/ w \in loop.exitWrites
          \/ \E v \in loop.pending : /\ w.of = v.of /\ w.task = v.task /\ w.deltas = v.deltas
                                     /\ DOMAIN w = RowFields
  BY <1>4, <1>5, <1>9
<1>11. /\ queue' \in Seq(Queued')
       /\ IF loop.durability # "exit" /\ ~rejected.chain
          THEN \E c : /\ c.id = nextId /\ c.parent = loop.config /\ c.plain = loop'.plain
                      /\ Queued' = Queued \cup {c} /\ queue' # <<>> /\ queue'[Len(queue')] = c
                      /\ Len(queue') = Len(queue) + 1 /\ Len(queue) \in Nat
                      /\ \A i \in 1..Len(queue) : queue'[i] = queue[i]
          ELSE queue' = queue
  BY <1>5, <1>6, <1>8, <1>9 DEF PutQueue
<1>12. loop'.plain = loop.plain \o Deltas(Current(loop.pending))
  BY <1>5, <1>9 DEF deltas
<1> QED
  BY <1>3, <1>9, <1>10, <1>11, <1>12 DEF Applies

LEMMA ApplyIsTyped ==
    ASSUME TypeInv, Applies
    PROVE  TypeInv'
<1>1. /\ nextId \in Nat /\ nextId >= 1 /\ MaxCheckpoints \in Nat
      /\ nextId' = nextId + 1 /\ nextId <= MaxCheckpoints
  BY CountsAreNumbers DEF Applies
<1>2. Grown
  BY <1>1, IdsGrow
<1>3. loop'.head = nextId /\ IsId(loop.head)' /\ (loop.head \in Ids)'
  <2>1. loop'.head = nextId
    BY DEF Applies
  <2> QED
    BY <1>1, <2>1 DEF IsId, Ids, None
<1>4. SaverTyped'
  BY <1>2 DEF Applies, TypeInv, SaverTyped, Grown
<1>5. loop.config \in Ids /\ loop.initial \in Ids /\ IsId(loop.empty)
      /\ (\A w \in loop.pending \cup loop.exitWrites : IsWrite(w))
      /\ (\A k \in inflight : IsCall(k)) /\ (\A c \in Queued : IsCheckpoint(c))
  BY DEF Applies, TypeInv, LoopTyped, CallsTyped, Running
<1>6. LoopTyped'
  <2>1. \A w \in loop'.exitWrites : IsWrite(w)
    BY <1>5 DEF Applies, IsWrite
  <2>2. (\A w \in loop.pending \cup loop.exitWrites : IsWrite(w))'
    BY <1>2, <2>1 DEF Applies, Grown
  <2>3. (loop.config \in Ids /\ loop.initial \in Ids /\ IsId(loop.empty) /\ IsId(loop.head))'
    BY <1>2, <1>3, <1>5 DEF Applies, Grown
  <2>4. phase' = "settle" => loop'.durability = "sync"
    BY DEF Applies
  <2> QED
    BY <2>2, <2>3, <2>4 DEF LoopTyped, Applies
<1>7. CallsTyped'
  <2>1. (\A c \in Queued : IsCheckpoint(c))'
    <3>1. CASE queue' = queue
      BY <1>2, <1>5, <3>1 DEF Queued, Grown
    <3>2. ASSUME NEW c, c.id = nextId, c.parent = loop.config, Queued' = Queued \cup {c}
          PROVE  (\A d \in Queued : IsCheckpoint(d))'
      <4>1. IsCheckpoint(c)'
        BY <1>2, <1>3, <1>5, <3>2 DEF IsCheckpoint, Grown
      <4> QED
        BY <1>2, <1>5, <3>2, <4>1 DEF Grown
    <3> QED
      BY <3>1, <3>2 DEF Applies
  <2>2. (\A k \in inflight : IsCall(k))'
    BY <1>2, <1>5 DEF Applies, Grown
  <2>3. queue' \in Seq(Queued') /\ rejected' = rejected
    BY DEF Applies
  <2> QED
    BY <2>1, <2>2, <2>3 DEF CallsTyped, TypeInv
<1>8. CountsTyped' /\ Quiet'
  <2>1. phase' = "settle" \/ phase' = "tick"
    BY DEF Applies
  <2>2. nextId' \in 1..(MaxCheckpoints + 2)
    BY <1>1
  <2>3. todo' = todo /\ runs' = runs /\ faults' = faults /\ returned' = returned
    BY DEF Applies
  <2> QED
    BY <2>1, <2>2, <2>3 DEF TypeInv, CountsTyped, Running, Quiet
<1> QED
  BY <1>4, <1>6, <1>7, <1>8 DEF TypeInv

LEMMA SettleIsTyped ==
    ASSUME TypeInv, Settle
    PROVE  TypeInv'
<1>1. Grown
  BY SameIds DEF Settle, countVars
<1>2. /\ phase = "settle" /\ phase' = "tick" /\ loop' = loop /\ stored' = stored /\ writes' = writes
      /\ queue' = queue /\ inflight' = inflight /\ rejected' = rejected
      /\ runs' = runs /\ faults' = faults /\ nextId' = nextId /\ returned' = returned /\ todo' = todo
  BY DEF Settle, saverVars, pendingVars, countVars, historyVars
<1>3. SaverTyped' /\ CallsTyped'
  BY <1>1, <1>2 DEF TypeInv, SaverTyped, CallsTyped, Queued, Grown
<1>4. LoopTyped'
  BY <1>1, <1>2 DEF TypeInv, LoopTyped, Running, Grown
<1>5. CountsTyped' /\ Quiet'
  BY <1>2 DEF TypeInv, CountsTyped, Running, Quiet
<1> QED
  BY <1>3, <1>4, <1>5 DEF TypeInv

\* finishAndHandleError.
Finishes ==
    /\ phase \in {"tick", "run", "settle"} /\ (phase = "settle" => rejected.some) /\ phase' = "drain"
    /\ todo' = todo /\ rejected' = rejected /\ runs' = runs /\ faults' = faults /\ nextId' = nextId
    /\ stored' = stored /\ writes' = writes /\ returned' = returned /\ base' = base
    /\ DOMAIN loop' = LoopFields
    /\ loop'.head = loop.head /\ loop'.initial = loop.initial /\ loop'.empty = loop.empty
    /\ loop'.plain = loop.plain /\ loop'.pending = loop.pending
    /\ loop'.exitWrites = loop.exitWrites /\ loop'.durability = loop.durability
    /\ IF loop.durability = "exit"
       THEN /\ loop'.config = loop.head
            /\ IF rejected.chain THEN queue' = queue
               ELSE \E c : /\ c.id = loop.head /\ c.plain = loop.plain
                           /\ c.parent \in {loop.config, loop.empty}
                           /\ Queued' = Queued \cup {c}
                           /\ queue' \in Seq(Queued') /\ queue' # <<>> /\ queue'[Len(queue')] = c
                           /\ Len(queue') = Len(queue) + 1
            /\ \A k \in inflight' :
                  \/ k \in inflight
                  \/ /\ loop.initial = None /\ k.op = "put"
                     /\ k.row.id = loop.empty /\ k.row.parent = None /\ k.row.plain = <<>>
                  \/ \E w \in loop.pending \cup loop.exitWrites :
                        /\ k.op = "putWrites" /\ k.row = [w EXCEPT !.at = k.row.at]
                        /\ k.row.at \in {loop.initial, loop.empty, loop.head} \ {None}
            /\ \A w \in loop.pending : [op |-> "putWrites", row |-> [w EXCEPT !.at = loop.head]] \in inflight'
            /\ inflight \subseteq inflight'
       ELSE loop' = loop /\ queue' = queue /\ inflight' = inflight

LEMMA CallsAre ==
    ASSUME NEW rows, NEW c, NEW k \in Calls(rows, c), \A w \in rows : DOMAIN w = RowFields
    PROVE  /\ k.op = "putWrites" /\ k.row.at = c
           /\ \E w \in rows : k.row = [w EXCEPT !.at = c]
<1>1. PICK w \in rows : k = [op |-> "putWrites", row |-> [w EXCEPT !.at = c]]
  BY DEF Calls
<1>2. [w EXCEPT !.at = c].at = c
  BY DEF RowFields
<1> QED
  BY <1>1, <1>2

LEMMA FinishDoes ==
    ASSUME TypeInv, Finish
    PROVE  Finishes
<1>1. /\ phase \in {"tick", "run", "settle"} /\ (phase = "settle" => rejected.some) /\ phase' = "drain"
      /\ todo' = todo /\ rejected' = rejected /\ runs' = runs /\ faults' = faults /\ nextId' = nextId
      /\ stored' = stored /\ writes' = writes /\ returned' = returned /\ base' = base
  BY DEF Finish, saverVars, countVars, historyVars
<1>2. /\ DOMAIN loop = LoopFields /\ queue \in Seq(Queued)
      /\ IsId(loop.head) /\ IsId(loop.empty) /\ loop.head # None /\ loop.empty # None
      /\ \A w \in loop.pending \cup loop.exitWrites : DOMAIN w = RowFields
  BY <1>1 DEF TypeInv, LoopTyped, CallsTyped, Running, IsWrite, IsId
<1>3. CASE loop.durability # "exit"
  <2>1. loop' = loop /\ queue' = queue /\ inflight' = inflight
    BY <1>3 DEF Finish
  <2> QED
    BY <1>1, <1>2, <1>3, <2>1 DEF Finishes
<1>4. CASE loop.durability = "exit"
  <2> DEFINE l == [loop EXCEPT !.config = IF NeedsStub THEN loop.empty ELSE @]
             stub == IF NeedsStub THEN {[op |-> "put", row |-> Stub(loop.empty)]} ELSE {}
             calls == Calls(loop.pending, loop.head)
             anchored == Calls(ExitRows, Anchor)
  <2>1. /\ PutCheckpoint(l, loop.head, FALSE, loop.more, loop.source)
        /\ inflight' = inflight \cup stub \cup anchored \cup calls
    BY <1>4 DEF Finish
  <2>2. /\ DOMAIN l = LoopFields /\ l.head = loop.head /\ l.config \in {loop.config, loop.empty}
        /\ l.initial = loop.initial /\ l.empty = loop.empty /\ l.durability = loop.durability
        /\ l.pending = loop.pending /\ l.exitWrites = loop.exitWrites /\ l.plain = loop.plain
    BY <1>2 DEF LoopFields
  <2>3. \A k \in stub : /\ loop.initial = None /\ k.op = "put"
                        /\ k.row.id = loop.empty /\ k.row.parent = None /\ k.row.plain = <<>>
    BY DEF NeedsStub, Stub, Checkpoint
  <2>4. Anchor \in {loop.initial, loop.empty} \ {None}
    BY <1>2 DEF Anchor
  <2>5. ExitRows \subseteq loop.exitWrites
    BY DEF ExitRows
  <2>6. \A k \in anchored : \E w \in loop.exitWrites :
            k.op = "putWrites" /\ k.row.at = Anchor /\ k.row = [w EXCEPT !.at = Anchor]
    <3>1. \A w \in ExitRows : DOMAIN w = RowFields
      BY <1>2, <2>5
    <3> QED
      BY <2>5, <3>1, CallsAre
  <2>7. \A k \in calls : \E w \in loop.pending :
            k.op = "putWrites" /\ k.row.at = loop.head /\ k.row = [w EXCEPT !.at = loop.head]
    <3>1. \A w \in loop.pending : DOMAIN w = RowFields
      BY <1>2
    <3> QED
      BY <3>1, CallsAre
  <2>8. \A w \in loop.pending : [op |-> "putWrites", row |-> [w EXCEPT !.at = loop.head]] \in calls
    BY DEF Calls
  <2> HIDE DEF l, stub, calls, anchored
  <2>9. PutLoop(l, loop.head) /\ PutQueue(l, loop.head, loop.source)
    BY <1>2, <2>1, <2>2, PutCheckpointDoes
  <2>10. DoCheckpoint(l, loop.head)
    BY <2>2 DEF DoCheckpoint, Exiting
  <2>11. /\ DOMAIN loop' = LoopFields /\ loop'.head = loop.head /\ loop'.config = loop.head
         /\ loop'.initial = loop.initial /\ loop'.empty = loop.empty
         /\ loop'.plain = loop.plain /\ loop'.pending = loop.pending
         /\ loop'.exitWrites = loop.exitWrites /\ loop'.durability = loop.durability
    BY <2>2, <2>9, <2>10 DEF PutLoop
  <2>12. IF rejected.chain THEN queue' = queue
         ELSE \E c : /\ c.id = loop.head /\ c.plain = loop.plain
                     /\ c.parent \in {loop.config, loop.empty}
                     /\ Queued' = Queued \cup {c}
                     /\ queue' \in Seq(Queued') /\ queue' # <<>> /\ queue'[Len(queue')] = c
                     /\ Len(queue') = Len(queue) + 1
    BY <2>2, <2>9, <2>10 DEF PutQueue
  <2>13. \A k \in inflight' :
            \/ k \in inflight
            \/ /\ loop.initial = None /\ k.op = "put"
               /\ k.row.id = loop.empty /\ k.row.parent = None /\ k.row.plain = <<>>
            \/ \E w \in loop.pending \cup loop.exitWrites :
                  /\ k.op = "putWrites" /\ k.row = [w EXCEPT !.at = k.row.at]
                  /\ k.row.at \in {loop.initial, loop.empty, loop.head} \ {None}
    <3>1. TAKE k \in inflight'
    <3>2. CASE k \in inflight
      BY <3>2
    <3>3. CASE k \in stub
      BY <2>3, <3>3
    <3>4. CASE k \in anchored
      <4>1. PICK w \in loop.exitWrites :
                k.op = "putWrites" /\ k.row.at = Anchor /\ k.row = [w EXCEPT !.at = Anchor]
        BY <2>6, <3>4
      <4> QED
        BY <2>4, <4>1
    <3>5. CASE k \in calls
      <4>1. PICK w \in loop.pending :
                k.op = "putWrites" /\ k.row.at = loop.head /\ k.row = [w EXCEPT !.at = loop.head]
        BY <2>7, <3>5
      <4> QED
        BY <1>2, <4>1
    <3> QED
      BY <2>1, <3>2, <3>3, <3>4, <3>5
  <2>14. /\ \A w \in loop.pending : [op |-> "putWrites", row |-> [w EXCEPT !.at = loop.head]] \in inflight'
         /\ inflight \subseteq inflight'
    BY <2>1, <2>8
  <2> QED
    BY <1>1, <1>4, <2>11, <2>12, <2>13, <2>14 DEF Finishes
<1> QED
  BY <1>3, <1>4

LEMMA FinishIsTyped ==
    ASSUME TypeInv, Finishes
    PROVE  TypeInv'
<1>1. Grown
  BY SameIds DEF Finishes
<1>2. /\ DOMAIN loop = LoopFields /\ queue \in Seq(Queued)
      /\ IsId(loop.head) /\ IsId(loop.empty)
      /\ loop.config \in Ids /\ loop.initial \in Ids
      /\ loop.head \in Ids /\ loop.empty \in Ids
      /\ \A w \in loop.pending \cup loop.exitWrites : IsWrite(w)
      /\ \A k \in inflight : IsCall(k)
      /\ \A c \in Queued : IsCheckpoint(c)
      /\ None \in Ids
  BY CountsAreNumbers DEF Finishes, TypeInv, LoopTyped, CallsTyped, Running, IsId, Ids, None
<1>3. SaverTyped'
  BY <1>1 DEF Finishes, TypeInv, SaverTyped, Grown
<1>4. LoopTyped'
  <2>1. CASE loop.durability = "exit"
    <3>1. loop'.config = loop.head /\ phase' = "drain"
      BY <2>1 DEF Finishes
    <3>2. (\A w \in loop.pending \cup loop.exitWrites : IsWrite(w))'
      BY <1>1, <1>2 DEF Finishes, Grown
    <3> QED
      BY <1>1, <1>2, <3>1, <3>2 DEF Finishes, LoopTyped, Grown
  <2>2. CASE loop.durability # "exit"
    <3>1. loop' = loop /\ phase' = "drain"
      BY <2>2 DEF Finishes
    <3> QED
      BY <1>1, <1>2, <3>1 DEF LoopTyped, Grown
  <2> QED
    BY <2>1, <2>2
<1>5. \A c \in Queued' : IsCheckpoint(c)
  <2>1. CASE queue' = queue
    BY <1>2, <2>1 DEF Queued
  <2>2. ASSUME NEW c, c.id = loop.head, c.parent \in {loop.config, loop.empty}, Queued' = Queued \cup {c}
        PROVE  \A d \in Queued' : IsCheckpoint(d)
    BY <1>2, <2>2 DEF IsCheckpoint
  <2> QED
    BY <2>1, <2>2 DEF Finishes
<1>6. \A k \in inflight' : IsCall(k)
  <2>1. TAKE k \in inflight'
  <2>2. CASE k \in inflight
    BY <1>2, <2>2
  <2>3. CASE k.op = "put" /\ k.row.id = loop.empty /\ k.row.parent = None
    BY <1>2, <2>3 DEF IsCall, IsCheckpoint
  <2>4. ASSUME NEW w \in loop.pending \cup loop.exitWrites, k.op = "putWrites",
               k.row = [w EXCEPT !.at = k.row.at],
               k.row.at \in {loop.initial, loop.empty, loop.head} \ {None}
        PROVE  IsCall(k)
    <3>1. IsWrite(w)
      BY <1>2
    <3>2. IsId(k.row.at)
      BY <1>2, <2>4 DEF IsId
    <3>3. DOMAIN k.row = RowFields /\ k.row.of = w.of /\ k.row.deltas = w.deltas
      BY <2>4, <3>1 DEF IsWrite, RowFields
    <3> QED
      BY <2>4, <3>1, <3>2, <3>3 DEF IsCall, IsWrite
  <2> QED
    BY <1>2, <2>2, <2>3, <2>4 DEF Finishes
<1>7. queue' \in Seq(Queued') /\ rejected' = rejected
  BY <1>2 DEF Finishes, Queued
<1>8. CallsTyped'
  BY <1>1, <1>5, <1>6, <1>7 DEF CallsTyped, TypeInv, Grown
<1>9. CountsTyped' /\ Quiet'
  BY DEF Finishes, TypeInv, CountsTyped, Running, Quiet
<1> QED
  BY <1>3, <1>4, <1>8, <1>9 DEF TypeInv

LEMMA RejectedAre ==
    ASSUME NEW a \in BOOLEAN, NEW b \in BOOLEAN
    PROVE  [some |-> a, chain |-> b] \in [{"some", "chain"} -> BOOLEAN]
  OBVIOUS

LEMMA NoneIsRejected ==
    /\ NoneRejected \in [{"some", "chain"} -> BOOLEAN]
    /\ NoneRejected.some = FALSE /\ NoneRejected.chain = FALSE
  BY RejectedAre DEF NoneRejected

LEMMA ReturnIsTyped ==
    ASSUME TypeInv, Return
    PROVE  TypeInv'
<1>1. Grown
  BY SameIds DEF Return, countVars
<1>2. /\ phase = "drain" /\ phase' = "idle" /\ loop' = loop /\ stored' = stored /\ writes' = writes
      /\ queue' = queue /\ inflight' = inflight /\ rejected' = NoneRejected /\ todo' = todo
      /\ runs' = runs /\ faults' = faults /\ nextId' = nextId
      /\ returned' = ~rejected.some
      /\ ~rejected.some => queue = <<>> /\ inflight = {}
  BY DEF Return, saverVars, countVars
<1>3. SaverTyped' /\ CallsTyped'
  BY <1>1, <1>2, NoneIsRejected DEF TypeInv, SaverTyped, CallsTyped, Queued, Grown
<1>4. LoopTyped'
  BY <1>1, <1>2 DEF TypeInv, LoopTyped, Running, Grown
<1>5. CountsTyped' /\ Quiet'
  BY <1>2 DEF TypeInv, CountsTyped, Running, Quiet
<1> QED
  BY <1>3, <1>4, <1>5 DEF TypeInv

\* updateState puts its checkpoint.
Updates ==
    /\ phase = "update" /\ phase' = "idle" /\ nextId' = nextId + 1 /\ returned' = TRUE
    /\ writes' = writes /\ todo' = todo /\ queue' = queue /\ inflight' = inflight
    /\ rejected' = rejected /\ runs' = runs /\ faults' = faults
    /\ DOMAIN loop' = LoopFields /\ loop'.head = nextId /\ loop'.pending = {}
    /\ loop'.config = loop.config /\ loop'.initial = loop.initial /\ loop'.plain = loop.plain
    /\ loop'.exitWrites = loop.exitWrites
    /\ base' = loop.plain
    /\ \E c : c.id = nextId /\ c.parent = loop.config /\ c.plain = loop.plain /\ stored' = Put(stored, c)

LEMMA FinishUpdateDoes ==
    ASSUME TypeInv, FinishUpdate
    PROVE  Updates
<1>1. DOMAIN loop = LoopFields
  BY DEF TypeInv, LoopTyped
<1>2. loop' = [loop EXCEPT !.head = nextId, !.pending = {}]
  BY DEF FinishUpdate
<1>3. \E c : c.id = nextId /\ c.parent = loop.config /\ c.plain = loop.plain /\ stored' = Put(stored, c)
  BY DEF FinishUpdate, Checkpoint
<1>4. /\ DOMAIN loop' = LoopFields /\ loop'.head = nextId /\ loop'.pending = {}
      /\ loop'.config = loop.config /\ loop'.initial = loop.initial /\ loop'.plain = loop.plain
      /\ loop'.exitWrites = loop.exitWrites
  BY <1>1, <1>2 DEF LoopFields
<1> QED
  BY <1>3, <1>4 DEF FinishUpdate, Updates, pendingVars

LEMMA FinishUpdateIsTyped ==
    ASSUME TypeInv, Updates
    PROVE  TypeInv'
<1>1. /\ nextId \in Nat /\ nextId >= 1 /\ MaxCheckpoints \in Nat
      /\ nextId' = nextId + 1 /\ nextId < MaxCheckpoints
  BY CountsAreNumbers DEF Updates, TypeInv, CountsTyped
<1>2. Grown
  BY <1>1, IdsGrow
<1>3. /\ loop.config \in Ids /\ loop.initial \in Ids
      /\ \A w \in loop.exitWrites : IsWrite(w)
  BY DEF TypeInv, LoopTyped
<1>4. SaverTyped'
  <2>1. PICK c : c.id = nextId /\ c.parent = loop.config /\ stored' = Put(stored, c)
    BY DEF Updates
  <2>2. IsCheckpoint(c)'
    <3>1. c.id = nextId /\ c.id \in 0..(nextId' - 1) /\ c.id # None
      BY <1>1, <2>1 DEF None
    <3>2. c.parent \in 0..(nextId' - 1)
      BY <1>1, <1>3, <2>1 DEF Ids
    <3> QED
      BY <3>1, <3>2 DEF IsCheckpoint, IsId, Ids
  <2>3. /\ DOMAIN stored' = (DOMAIN stored) \cup {c.id} /\ stored'[c.id] = c
        /\ \A i \in DOMAIN stored : i # c.id => stored'[i] = stored[i]
    BY <2>1 DEF Put
  <2>4. \A i \in DOMAIN stored : stored[i].id = i /\ IsCheckpoint(stored[i])
    BY DEF TypeInv, SaverTyped
  <2>5. (\A i \in DOMAIN stored : stored[i].id = i /\ IsCheckpoint(stored[i]))'
    BY <1>2, <2>2, <2>3, <2>4 DEF Grown
  <2>6. (\A w \in writes : IsWrite(w) /\ IsId(w.at))'
    BY <1>2 DEF Updates, TypeInv, SaverTyped, Grown
  <2> QED
    BY <2>5, <2>6 DEF SaverTyped
<1>5. CallsTyped'
  BY <1>2 DEF Updates, TypeInv, CallsTyped, Queued, Grown
<1>6. LoopTyped'
  BY <1>2, <1>3 DEF Updates, LoopTyped, Running, Grown
<1>7. CountsTyped'
  <2>1. nextId' \in 1..(MaxCheckpoints + 2)
    BY <1>1
  <2> QED
    BY <2>1 DEF Updates, TypeInv, CountsTyped
<1>8. Quiet'
  BY DEF Updates, TypeInv, Quiet
<1> QED
  BY <1>4, <1>5, <1>6, <1>7, <1>8 DEF TypeInv

\* The puts that are left when the first one has landed.
LEMMA QueueMoves ==
    ASSUME TypeInv, queue # <<>>, queue' = Tail(queue)
    PROVE  /\ queue' \in Seq(Queued') /\ Queued = Queued' \cup {Head(queue)}
           /\ queue' = <<>> => Head(queue) = queue[Len(queue)]
           /\ queue' # <<>> => queue'[Len(queue')] = queue[Len(queue)]
           /\ IsCheckpoint(Head(queue))
<1>1. queue \in Seq(Queued) /\ \A c \in Queued : IsCheckpoint(c)
  BY DEF TypeInv, CallsTyped
<1>2. /\ Tail(queue) \in Seq({Tail(queue)[i] : i \in DOMAIN Tail(queue)})
      /\ Queued = {Tail(queue)[i] : i \in DOMAIN Tail(queue)} \cup {Head(queue)}
      /\ Tail(queue) = <<>> => Head(queue) = queue[Len(queue)]
      /\ Tail(queue) # <<>> => Tail(queue)[Len(Tail(queue))] = queue[Len(queue)]
  <2> DEFINE S == Queued
  <2>1. queue \in Seq(S)
    BY <1>1
  <2> HIDE DEF S
  <2>2. queue \in Seq(S) => {queue[i] : i \in DOMAIN queue} = {Tail(queue)[i] : i \in DOMAIN Tail(queue)} \cup {Head(queue)}
    BY HeadOfQueue
  <2> QED
    BY <2>1, <2>2, HeadOfQueue DEF Queued
<1>3. Queued' = {Tail(queue)[i] : i \in DOMAIN Tail(queue)}
  BY DEF Queued
<1>4. Head(queue) \in Queued
  BY <1>2
<1> QED
  BY <1>1, <1>2, <1>3, <1>4

\* A row is added to a table.
LEMMA PutIsTyped ==
    ASSUME TypeInv, NEW c, IsCheckpoint(c), stored' = Put(stored, c), writes' = writes, nextId' = nextId
    PROVE  SaverTyped'
<1>1. Grown
  BY SameIds
<1>2. /\ DOMAIN stored' = (DOMAIN stored) \cup {c.id} /\ stored'[c.id] = c
      /\ \A i \in DOMAIN stored : i # c.id => stored'[i] = stored[i]
  BY DEF Put
<1>3. \A i \in DOMAIN stored' : stored'[i].id = i /\ IsCheckpoint(stored'[i])
  BY <1>2 DEF TypeInv, SaverTyped
<1>4. (\A i \in DOMAIN stored : stored[i].id = i /\ IsCheckpoint(stored[i]))'
  BY <1>1, <1>3 DEF Grown
<1> QED
  BY <1>1, <1>4 DEF TypeInv, SaverTyped, Grown

LEMMA WriteIsTyped ==
    ASSUME TypeInv, NEW w, IsWrite(w), IsId(w.at), writes' = PutWrite(writes, w), stored' = stored,
           nextId' = nextId
    PROVE  SaverTyped'
<1>1. Grown
  BY SameIds
<1>2. \A v \in writes' : v \in writes \/ v = w
  BY PutWriteStores
<1>3. \A v \in writes' : IsWrite(v) /\ IsId(v.at)
  BY <1>2 DEF TypeInv, SaverTyped
<1>4. (\A v \in writes : IsWrite(v) /\ IsId(v.at))'
  BY <1>1, <1>3 DEF Grown
<1> QED
  BY <1>1, <1>4 DEF TypeInv, SaverTyped, Grown

\* Steps of the checkpointer leave the loop alone.
LoopStays ==
    /\ phase' = phase /\ loop' = loop /\ todo' = todo /\ runs' = runs /\ nextId' = nextId
    /\ returned' = returned

LEMMA LoopStaysTyped ==
    ASSUME TypeInv, LoopStays
    PROVE  Grown /\ LoopTyped'
<1>1. Grown
  BY SameIds DEF LoopStays
<1> QED
  BY <1>1 DEF LoopStays, TypeInv, LoopTyped, Grown

LEMMA FaultsAreCounted ==
    ASSUME TypeInv, Fault
    PROVE  faults' \in 0..MaxFaults
  BY CountsAreNumbers DEF Fault

LEMMA PutLandsIsTyped ==
    ASSUME TypeInv, PutLands
    PROVE  TypeInv'
<1>1. /\ queue # <<>> /\ stored' = Put(stored, Head(queue)) /\ queue' = Tail(queue)
      /\ writes' = writes /\ inflight' = inflight /\ rejected' = rejected /\ faults' = faults
      /\ LoopStays /\ nextId' = nextId
  BY DEF PutLands, runVars, countVars, LoopStays
<1>2. Grown /\ LoopTyped'
  BY <1>1, LoopStaysTyped
<1>3. queue' \in Seq(Queued') /\ Queued = Queued' \cup {Head(queue)} /\ IsCheckpoint(Head(queue))
  BY <1>1, QueueMoves
<1>4. SaverTyped'
  BY <1>1, <1>3, PutIsTyped
<1>5. CallsTyped'
  <2>1. (\A c \in Queued : IsCheckpoint(c))'
    BY <1>2, <1>3 DEF TypeInv, CallsTyped, Grown
  <2> QED
    BY <1>1, <1>2, <1>3, <2>1 DEF TypeInv, CallsTyped, Grown
<1>6. CountsTyped' /\ Quiet'
  BY <1>1 DEF TypeInv, CountsTyped, Quiet, LoopStays
<1> QED
  BY <1>2, <1>4, <1>5, <1>6 DEF TypeInv

LEMMA CallLandsIsTyped ==
    ASSUME TypeInv, NEW k, k \in inflight, CallLands(k)
    PROVE  TypeInv'
<1>1. /\ inflight' = inflight \ {k} /\ queue' = queue /\ rejected' = rejected /\ faults' = faults
      /\ LoopStays /\ nextId' = nextId
      /\ IF k.op = "put" THEN stored' = Put(stored, k.row) /\ writes' = writes
                         ELSE writes' = PutWrite(writes, k.row) /\ stored' = stored
  BY DEF CallLands, runVars, countVars, historyVars, LoopStays
<1>2. Grown /\ LoopTyped'
  BY <1>1, LoopStaysTyped
<1>3. IsCall(k)
  BY DEF TypeInv, CallsTyped
<1>4. SaverTyped'
  <2>1. CASE k.op = "put"
    <3>1. IsCheckpoint(k.row)
      BY <1>3, <2>1 DEF IsCall
    <3> QED
      BY <1>1, <2>1, <3>1, PutIsTyped
  <2>2. CASE k.op # "put"
    <3>1. IsWrite(k.row) /\ IsId(k.row.at)
      BY <1>3, <2>2 DEF IsCall
    <3> QED
      BY <1>1, <2>2, <3>1, WriteIsTyped
  <2> QED
    BY <2>1, <2>2
<1>5. CallsTyped'
  BY <1>1, <1>2 DEF TypeInv, CallsTyped, Queued, Grown
<1>6. CountsTyped' /\ Quiet'
  BY <1>1 DEF TypeInv, CountsTyped, Quiet, LoopStays
<1> QED
  BY <1>2, <1>4, <1>5, <1>6 DEF TypeInv

LEMMA PutIsRejectedIsTyped ==
    ASSUME TypeInv, PutIsRejected
    PROVE  TypeInv'
<1>1. /\ Fault /\ queue # <<>> /\ queue' = <<>> /\ inflight' = inflight
      /\ stored' = stored /\ writes' = writes /\ LoopStays
      /\ rejected' = IF phase = "idle" THEN rejected ELSE [some |-> TRUE, chain |-> TRUE]
  BY DEF PutIsRejected, saverVars, runVars, historyVars, LoopStays
<1>2. Grown /\ LoopTyped' /\ faults' \in 0..MaxFaults
  BY <1>1, LoopStaysTyped, FaultsAreCounted
<1>3. SaverTyped'
  BY <1>1, <1>2 DEF TypeInv, SaverTyped, Grown
<1>4. CallsTyped'
  <2>1. (queue \in Seq(Queued) /\ \A c \in Queued : IsCheckpoint(c))'
    BY <1>1 DEF Queued
  <2>2. rejected' \in [{"some", "chain"} -> BOOLEAN] /\ (rejected'.chain => rejected'.some)
    <3>1. CASE phase = "idle"
      BY <1>1, <3>1 DEF TypeInv, CallsTyped
    <3>2. CASE phase # "idle"
      BY <1>1, <3>2, RejectedAre
    <3> QED
      BY <3>1, <3>2
  <2> QED
    BY <1>1, <1>2, <2>1, <2>2 DEF TypeInv, CallsTyped, Grown
<1>5. CountsTyped' /\ Quiet'
  BY <1>1, <1>2 DEF TypeInv, CountsTyped, Quiet, LoopStays
<1> QED
  BY <1>2, <1>3, <1>4, <1>5 DEF TypeInv

LEMMA CallIsRejectedIsTyped ==
    ASSUME TypeInv, NEW k, k \in inflight, CallIsRejected(k)
    PROVE  TypeInv'
<1>1. /\ Fault /\ queue' = queue /\ inflight' = inflight \ {k}
      /\ stored' = stored /\ writes' = writes /\ LoopStays
      /\ rejected' = IF phase = "idle" THEN rejected ELSE [rejected EXCEPT !.some = TRUE]
  BY DEF CallIsRejected, saverVars, runVars, LoopStays
<1>2. Grown /\ LoopTyped' /\ faults' \in 0..MaxFaults
  BY <1>1, LoopStaysTyped, FaultsAreCounted
<1>3. SaverTyped'
  BY <1>1, <1>2 DEF TypeInv, SaverTyped, Grown
<1>4. CallsTyped'
  <2>1. rejected' \in [{"some", "chain"} -> BOOLEAN] /\ (rejected'.chain => rejected'.some)
    BY <1>1 DEF TypeInv, CallsTyped
  <2> QED
    BY <1>1, <1>2, <2>1 DEF TypeInv, CallsTyped, Queued, Grown
<1>5. CountsTyped' /\ Quiet'
  BY <1>1, <1>2 DEF TypeInv, CountsTyped, Quiet, LoopStays
<1> QED
  BY <1>2, <1>3, <1>4, <1>5 DEF TypeInv

LEMMA CrashIsTyped ==
    ASSUME TypeInv, Crash
    PROVE  TypeInv'
<1>1. /\ Fault /\ phase' = "idle" /\ loop' = NoLoop /\ todo' = {} /\ queue' = <<>> /\ inflight' = {}
      /\ rejected' = NoneRejected /\ returned' = FALSE /\ stored' = stored /\ writes' = writes
      /\ runs' = runs /\ nextId' = nextId
  BY DEF Crash, saverVars
<1>2. Grown /\ faults' \in 0..MaxFaults
  BY <1>1, SameIds, FaultsAreCounted
<1>3. SaverTyped'
  BY <1>1, <1>2 DEF TypeInv, SaverTyped, Grown
<1>4. CallsTyped'
  <2>1. (queue \in Seq(Queued) /\ \A c \in Queued : IsCheckpoint(c))'
    BY <1>1 DEF Queued
  <2> QED
    BY <1>1, <2>1, NoneIsRejected DEF CallsTyped
<1>5. LoopTyped'
  <2>1. None \in Ids'
    BY <1>1, CountsAreNumbers DEF Ids, None
  <2> QED
    BY <1>1, <2>1 DEF LoopTyped, NoLoop, LoopFields, Running
<1>6. CountsTyped' /\ Quiet'
  BY <1>1, <1>2 DEF TypeInv, CountsTyped, Quiet
<1> QED
  BY <1>2, <1>3, <1>4, <1>5, <1>6 DEF TypeInv

LEMMA InitIsTyped ==
    ASSUME Init
    PROVE  TypeInv
<1>1. 0 \in Ids
  BY DEF Init, Ids
<1>2. SaverTyped
  <2>1. DOMAIN stored = {}
    BY DEF Init
  <2> QED
    BY <2>1 DEF Init, SaverTyped
<1>3. CallsTyped
  <2>1. Queued = {} /\ queue \in Seq(Queued)
    BY DEF Init, Queued
  <2> QED
    BY <2>1, NoneIsRejected DEF Init, CallsTyped
<1>4. LoopTyped
  BY <1>1 DEF Init, LoopTyped, NoLoop, LoopFields, Running, None
<1>5. CountsTyped
  <2>1. 0 \in 0..MaxRuns /\ 0 \in 0..MaxFaults /\ 1 \in 1..(MaxCheckpoints + 2)
    BY CheckpointAssumption
  <2> QED
    BY <2>1 DEF Init, CountsTyped, Running
<1>6. Quiet
  BY DEF Init, Quiet
<1> QED
  BY <1>2, <1>3, <1>4, <1>5, <1>6 DEF TypeInv

\* The steps there are.
Steps ==
    \/ \E c \in (DOMAIN stored) \cup {None} : \E l, d : LoadedFields(l, c, d) /\ Start(c, l)
    \/ \E c \in (DOMAIN stored) \cup {None} : UpdateStarts(c)
    \/ Prepare \/ (\E t : Succeeds(t)) \/ Applies \/ Settle \/ Finishes \/ Return \/ Updates
    \/ PutLands \/ (\E k \in inflight : CallLands(k))
    \/ PutIsRejected \/ (\E k \in inflight : CallIsRejected(k)) \/ Crash
    \/ UNCHANGED vars

LEMMA NextSteps ==
    ASSUME TypeInv, [Next]_vars
    PROVE  Steps
<1>1. ASSUME NEW c \in (DOMAIN stored) \cup {None}, NEW explicit, NEW d,
             Invoke(d, c, explicit) \/ Resume(d, c, explicit)
      PROVE  Steps
  <2>1. /\ LoadedFields(Loaded(c, d, explicit), c, d)
        /\ Start(c, Loaded(c, d, explicit))
    BY <1>1, LoadedLoop, RunsBegin, BeginsStart
  <2> QED
    BY <2>1 DEF Steps
<1>2. ASSUME NEW c \in (DOMAIN stored) \cup {None}, NEW explicit, StartUpdate(c, explicit)
      PROVE  Steps
  BY <1>2, StartUpdateStarts DEF Steps
<1>3. ASSUME NEW c \in DOMAIN stored, StartCopy(c)
      PROVE  Steps
  BY <1>3, StartCopyStarts DEF Steps
<1>4. ASSUME NEW t \in todo, TaskSucceeds(t)
      PROVE  Steps
  BY <1>4, TaskSucceedsDoes DEF Steps
<1>5. CASE Apply
  BY <1>5, ApplyDoes DEF Steps
<1>6. CASE Finish
  BY <1>6, FinishDoes DEF Steps
<1>7. CASE FinishUpdate
  BY <1>7, FinishUpdateDoes DEF Steps
<1>8. CASE \/ Prepare \/ Settle \/ Return \/ PutLands \/ (\E k \in inflight : CallLands(k))
           \/ PutIsRejected \/ (\E k \in inflight : CallIsRejected(k)) \/ Crash \/ UNCHANGED vars
  BY <1>8 DEF Steps
<1> QED
  BY <1>1, <1>2, <1>3, <1>4, <1>5, <1>6, <1>7, <1>8 DEF Next

LEMMA StutterStays ==
    ASSUME UNCHANGED vars
    PROVE  /\ phase' = phase /\ loop' = loop /\ todo' = todo /\ runs' = runs /\ nextId' = nextId
           /\ returned' = returned /\ stored' = stored /\ writes' = writes /\ queue' = queue
           /\ inflight' = inflight /\ rejected' = rejected /\ faults' = faults /\ base' = base
  BY DEF vars, saverVars, runVars, pendingVars, countVars, historyVars

LEMMA StepsAreTyped ==
    ASSUME TypeInv, Steps
    PROVE  TypeInv'
<1>1. CASE UNCHANGED vars
  BY <1>1, StutterStays DEF TypeInv, SaverTyped, CallsTyped, LoopTyped, CountsTyped, Quiet, Queued,
                            IsCall, IsCheckpoint, IsWrite, IsId, Ids
<1> QED
  BY <1>1, StartIsTyped, UpdateIsTyped, PrepareIsTyped, TaskSucceedsIsTyped, ApplyIsTyped,
     SettleIsTyped, FinishIsTyped, ReturnIsTyped, FinishUpdateIsTyped, PutLandsIsTyped,
     CallLandsIsTyped, PutIsRejectedIsTyped, CallIsRejectedIsTyped, CrashIsTyped DEF Steps

LEMMA TypeInvHolds == Spec => []TypeInv
<1>1. TypeInv /\ [Next]_vars => TypeInv'
  BY NextSteps, StepsAreTyped
<1> QED
  BY <1>1, InitIsTyped, PTL DEF Spec

\* Rows lie in their tables under ids that have been handed out, a write has at
\* most one delta, and the thread's counts stay below their bounds.
THEOREM TypeCorrect == Spec => []TypeOK
<1>1. TypeInv => TypeOK
  <2> SUFFICES ASSUME TypeInv PROVE TypeOK
    OBVIOUS
  <2>1. nextId \in Nat
    BY CountsAreNumbers
  <2>2. \A i : IsId(i) => i \in 1..(nextId - 1)
    BY <2>1 DEF IsId, Ids, None
  <2>3. \A c \in DOMAIN stored : /\ c \in 1..(nextId - 1) /\ stored[c].id = c
                                 /\ stored[c].parent \in 0..(nextId - 1)
    BY <2>2, StoredAreIds DEF Ids
  <2>4. \A w \in writes : w.at \in 1..(nextId - 1) /\ Len(w.deltas) <= 1
    BY <2>2 DEF TypeInv, SaverTyped, IsWrite
  <2>5. DOMAIN rejected = {"some", "chain"}
    BY DEF TypeInv, CallsTyped
  <2> QED
    BY <2>3, <2>4, <2>5 DEF TypeInv, CountsTyped, Running, TypeOK
<1> QED
  BY <1>1, TypeInvHolds, PTL

-----------------------------------------------------------------------------
(* "sync" waits.  Between supersteps and while the tasks run, the durable     *)
(* state is the loop's; at the barrier, it is so once the puts have landed.   *)

SyncHolds ==
    loop.durability = "sync" /\ phase \in {"tick", "run"} =>
        /\ loop.plain = base
        /\ \A c \in Queued : c.plain = loop.plain /\ c.source # "loop"
        /\ \A k \in inflight : phase = "run" /\ k.op = "putWrites" /\ k.row.at = loop.head

\* What the barrier waits for is the state of the superstep before it.
BarrierHolds ==
    phase = "settle" /\ ~rejected.some =>
        IF queue = <<>> THEN base = loop.plain ELSE queue[Len(queue)].plain = loop.plain

SyncInv == TypeInv /\ SyncHolds /\ BarrierHolds

LEMMA StartSyncs ==
    ASSUME TypeInv, NEW c, NEW l, Start(c, l)
    PROVE  SyncHolds' /\ BarrierHolds'
<1>1. phase' = "tick" /\ loop'.plain = base' /\ inflight' = {}
  BY DEF Start, StartFrame, StartLoop
<1>2. \A p \in Queued' : p.plain = loop'.plain /\ p.source # "loop"
  <2>1. CASE queue' = <<>>
    BY <2>1 DEF Queued
  <2>2. ASSUME NEW p, p.plain = l.plain, p.source # "loop", Queued' = {p}
        PROVE  \A q \in Queued' : q.plain = loop'.plain /\ q.source # "loop"
    BY <2>2 DEF Start, StartLoop
  <2> QED
    BY <2>1, <2>2 DEF Start, StartQueue
<1> QED
  BY <1>1, <1>2 DEF SyncHolds, BarrierHolds

LEMMA SucceedsSyncs ==
    ASSUME SyncInv, NEW t, Succeeds(t)
    PROVE  SyncHolds' /\ BarrierHolds'
<1>1. /\ phase = "run" /\ phase' = phase /\ base' = base /\ queue' = queue /\ Queued' = Queued
      /\ loop'.plain = loop.plain /\ loop'.head = loop.head /\ loop'.durability = loop.durability
      /\ RowOf(t).at = loop.head
      /\ inflight' = IF loop.durability = "exit" THEN inflight
                     ELSE inflight \cup {[op |-> "putWrites", row |-> RowOf(t)]}
  BY DEF Succeeds, Queued
<1>2. SyncHolds'
  <2> SUFFICES ASSUME loop'.durability = "sync" PROVE SyncHolds'
    BY DEF SyncHolds
  <2>1. \A k \in inflight' : k.op = "putWrites" /\ k.row.at = loop.head
    BY <1>1 DEF SyncInv, SyncHolds
  <2> QED
    BY <1>1, <2>1 DEF SyncInv, SyncHolds
<1> QED
  BY <1>1, <1>2 DEF BarrierHolds

LEMMA AppliesSyncs ==
    ASSUME SyncInv, Applies
    PROVE  SyncHolds' /\ BarrierHolds'
<1>1. /\ phase' = (IF loop.durability = "sync" THEN "settle" ELSE "tick")
      /\ loop'.durability = loop.durability /\ rejected' = rejected
  BY DEF Applies
<1>2. SyncHolds'
  BY <1>1 DEF SyncHolds
<1>3. BarrierHolds'
  <2> SUFFICES ASSUME phase' = "settle", ~rejected'.some PROVE BarrierHolds'
    BY DEF BarrierHolds
  <2>1. loop.durability # "exit" /\ ~rejected.chain
    BY <1>1 DEF SyncInv, TypeInv, CallsTyped
  <2>2. queue' # <<>> /\ queue'[Len(queue')].plain = loop'.plain
    BY <2>1 DEF Applies
  <2> QED
    BY <2>2 DEF BarrierHolds
<1> QED
  BY <1>2, <1>3

LEMMA PutLandsSyncs ==
    ASSUME SyncInv, PutLands
    PROVE  SyncHolds' /\ BarrierHolds'
<1>1. /\ queue # <<>> /\ queue' = Tail(queue) /\ base' = Head(queue).plain
      /\ inflight' = inflight /\ rejected' = rejected /\ phase' = phase /\ loop' = loop
  BY DEF PutLands, runVars
<1>2. /\ Queued = Queued' \cup {Head(queue)}
      /\ queue' = <<>> => Head(queue) = queue[Len(queue)]
      /\ queue' # <<>> => queue'[Len(queue')] = queue[Len(queue)]
  BY <1>1, QueueMoves DEF SyncInv
<1>3. SyncHolds'
  BY <1>1, <1>2 DEF SyncInv, SyncHolds
<1>4. BarrierHolds'
  BY <1>1, <1>2 DEF SyncInv, BarrierHolds
<1> QED
  BY <1>3, <1>4

LEMMA StepsSync ==
    ASSUME SyncInv, Steps
    PROVE  SyncInv'
<1>1. TypeInv'
  BY StepsAreTyped DEF SyncInv
<1> SUFFICES SyncHolds' /\ BarrierHolds'
  BY <1>1 DEF SyncInv
<1>2. ASSUME NEW c, UpdateStarts(c)
      PROVE  SyncHolds' /\ BarrierHolds'
  BY <1>2 DEF UpdateStarts, SyncHolds, BarrierHolds
<1>3. CASE Prepare
  <2>1. /\ phase = "tick" /\ phase' = "run" /\ loop' = loop /\ base' = base /\ queue' = queue
        /\ inflight' = inflight
    BY <1>3 DEF Prepare, pendingVars, historyVars
  <2> QED
    BY <2>1 DEF SyncInv, SyncHolds, BarrierHolds, Queued
<1>4. CASE Settle
  <2>1. /\ phase = "settle" /\ phase' = "tick" /\ loop' = loop /\ base' = base /\ queue' = queue
        /\ inflight' = inflight /\ queue = <<>> /\ inflight = {} /\ ~rejected.some
    BY <1>4 DEF Settle, pendingVars, historyVars
  <2>2. Queued' = {}
    BY <2>1 DEF Queued
  <2> QED
    BY <2>1, <2>2 DEF SyncInv, SyncHolds, BarrierHolds
<1>5. CASE Finishes \/ Return \/ Updates \/ Crash
  <2>1. phase' = "drain" \/ phase' = "idle"
    BY <1>5 DEF Finishes, Return, Updates, Crash
  <2> QED
    BY <2>1 DEF SyncHolds, BarrierHolds
<1>6. ASSUME NEW k, CallLands(k)
      PROVE  SyncHolds' /\ BarrierHolds'
  <2>1. /\ phase' = phase /\ loop' = loop /\ base' = base /\ queue' = queue /\ rejected' = rejected
        /\ inflight' = inflight \ {k}
    BY <1>6 DEF CallLands, runVars, historyVars
  <2> QED
    BY <2>1 DEF SyncInv, SyncHolds, BarrierHolds, Queued
<1>7. CASE PutIsRejected
  <2>1. /\ phase' = phase /\ loop' = loop /\ base' = base /\ queue' = <<>> /\ inflight' = inflight
        /\ phase # "idle" => rejected'.some
    BY <1>7 DEF PutIsRejected, runVars, historyVars
  <2>2. Queued' = {}
    BY <2>1 DEF Queued
  <2> QED
    BY <2>1, <2>2 DEF SyncInv, SyncHolds, BarrierHolds
<1>8. ASSUME NEW k, CallIsRejected(k)
      PROVE  SyncHolds' /\ BarrierHolds'
  <2>1. /\ phase' = phase /\ loop' = loop /\ base' = base /\ queue' = queue
        /\ inflight' = inflight \ {k}
    BY <1>8 DEF CallIsRejected, runVars
  <2>2. phase # "idle" => rejected'.some
    BY <1>8 DEF CallIsRejected, SyncInv, TypeInv, CallsTyped
  <2> QED
    BY <2>1, <2>2 DEF SyncInv, SyncHolds, BarrierHolds, Queued
<1>9. CASE UNCHANGED vars
  BY <1>9, StutterStays DEF SyncInv, SyncHolds, BarrierHolds, Queued
<1> QED
  BY <1>2, <1>3, <1>4, <1>5, <1>6, <1>7, <1>8, <1>9, StartSyncs, SucceedsSyncs, AppliesSyncs, PutLandsSyncs
     DEF Steps, SyncInv

\* In "sync" no task runs before the supersteps behind it are durable
\* (_awaitCheckpointerPromises in PregelLoop.tick).
THEOREM NoTaskRunsAhead == Spec => []SyncWaits
<1>1. Init => SyncInv
  <2> SUFFICES ASSUME Init PROVE SyncInv
    OBVIOUS
  <2>1. phase = "idle"
    BY DEF Init
  <2> QED
    BY <2>1, InitIsTyped DEF SyncInv, SyncHolds, BarrierHolds
<1>2. SyncInv /\ [Next]_vars => SyncInv'
  BY NextSteps, StepsSync DEF SyncInv
<1>3. SyncInv => SyncWaits
  <2> SUFFICES ASSUME SyncInv, phase = "run", loop.durability = "sync" PROVE SyncWaits
    BY DEF SyncWaits
  <2>1. \A i \in 1..Len(queue) : queue[i] \in Queued
    <3>1. queue \in Seq(Queued)
      BY DEF SyncInv, TypeInv, CallsTyped
    <3> QED
      BY <3>1
  <2> QED
    BY <2>1 DEF SyncInv, SyncHolds, SyncWaits
<1> QED
  BY <1>1, <1>2, <1>3, PTL DEF Spec

-----------------------------------------------------------------------------
(* What has returned is durable.                                              *)

\* What is stored, or about to be, under the id of the head is the loop's state.
HeadIsPlain ==
    phase \in Running =>
        /\ \A c \in Queued : c.id = loop.head => c.plain = loop.plain
        /\ loop.head \in DOMAIN stored => stored[loop.head].plain = loop.plain
        /\ \A k \in inflight : k.op = "put" => k.row.id # loop.head
        /\ loop.initial = None => loop.empty < loop.head

\* The loop has handed its head, and the writes to it, to the checkpointer.
HandsOver == phase \in Running /\ ~rejected.some /\ (loop.durability # "exit" \/ phase = "drain")
HeadIsHandedOver ==
    HandsOver => loop.head \in DOMAIN stored \/ \E c \in Queued : c.id = loop.head
WritesAreHandedOver ==
    HandsOver => \A w \in Current(loop.pending) :
        \/ \E v \in writes : SameRow(v, w)
        \/ \E k \in inflight : k.op = "putWrites" /\ SameRow(k.row, w)
CurrentAtHead == phase \in Running => \A w \in Current(loop.pending) : w.at = loop.head

HandedOver ==
    HeadIsPlain /\ HeadIsHandedOver /\ WritesAreHandedOver /\ CurrentAtHead /\ ReturnedIsDurable
DurableInv == TypeInv /\ HandedOver

\* A row of the superstep under way names its head.
LEMMA CurrentRows ==
    ASSUME NEW rows, NEW w
    PROVE  w \in Current(rows) <=> w \in rows /\ w.group = Own /\ w.of = loop.head /\ w.task \in Tasks
  BY DEF Current

LEMMA FreshIds ==
    ASSUME TypeInv, NEW i, i = nextId \/ i = nextId + 1
    PROVE  /\ i \notin DOMAIN stored
           /\ \A c \in Queued : c.id # i
           /\ \A k \in inflight : k.op = "put" => k.row.id # i
           /\ \A w \in writes : w.of # i
           /\ i \notin Ids
<1>1. i \notin Ids
  BY CountsAreNumbers DEF Ids
<1> QED
  BY <1>1 DEF TypeInv, SaverTyped, CallsTyped, IsCall, IsCheckpoint, IsWrite, IsId

LEMMA StartHandsOver ==
    ASSUME TypeInv, NEW c \in (DOMAIN stored) \cup {None}, NEW l, NEW d, LoadedFields(l, c, d), Start(c, l)
    PROVE  HandedOver'
<1>0. StartFrame(l) /\ StartLoop(l) /\ StartHead(c) /\ StartQueue(c, l)
  BY DEF Start
<1>1. /\ phase = "idle" /\ phase' = "tick" /\ inflight' = {} /\ stored' = stored /\ writes' = writes
      /\ rejected' = rejected /\ returned' = FALSE
      /\ loop'.initial = l.initial /\ loop'.empty = l.empty /\ loop'.plain = l.plain
      /\ loop'.pending = l.pending /\ loop'.durability = l.durability
  BY <1>0 DEF StartFrame, StartLoop
<1>2. \/ c # None /\ loop'.head = c
      \/ loop'.head = (IF c = None THEN nextId + 1 ELSE nextId)
  BY <1>0 DEF StartHead
<1>3. nextId \in Nat /\ ~rejected.chain
  BY <1>1, CountsAreNumbers, NoneIsRejected DEF TypeInv, Quiet
<1>4. \A p \in Queued' : p.plain = loop'.plain
  <2>1. CASE queue' = <<>>
    BY <2>1 DEF Queued
  <2> QED
    BY <1>0, <1>1, <2>1 DEF StartQueue
<1>5. loop'.head \in DOMAIN stored => stored[loop'.head].plain = loop'.plain
  <2>1. CASE c # None /\ loop'.head = c
    BY <1>1, <2>1 DEF LoadedFields
  <2>2. CASE loop'.head = nextId \/ loop'.head = nextId + 1
    BY <2>2, FreshIds
  <2> QED
    BY <1>2, <2>1, <2>2
<1>6. loop'.initial = None => loop'.empty < loop'.head
  <2> SUFFICES ASSUME loop'.initial = None PROVE loop'.empty < loop'.head
    OBVIOUS
  <2>1. c = None
    BY <1>1 DEF LoadedFields
  <2> QED
    BY <1>1, <1>2, <1>3, <2>1 DEF LoadedFields
<1>7. HeadIsPlain'
  BY <1>1, <1>4, <1>5, <1>6 DEF HeadIsPlain
<1>8. HeadIsHandedOver'
  <2>1. CASE queue' = <<>>
    BY <1>0, <1>1, <1>3, <2>1 DEF StartQueue, HeadIsHandedOver, HandsOver, Queued
  <2>2. ASSUME NEW p, p.id = loop'.head, Queued' = {p}
        PROVE  HeadIsHandedOver'
    BY <2>2 DEF HeadIsHandedOver
  <2> QED
    BY <1>0, <1>1, <1>3, <2>1, <2>2 DEF StartQueue, HeadIsHandedOver, HandsOver
<1>9. \A w \in loop'.pending : w.of = loop'.head => w \in writes /\ w.at = loop'.head
  <2>1. CASE c = None
    BY <1>1, <2>1 DEF LoadedFields
  <2>2. CASE c # None
    <3>1. \A w \in loop'.pending : w \in writes /\ w.at = c
      BY <1>1, <2>2 DEF LoadedFields, RowsAt
    <3>2. CASE loop'.head = c
      BY <3>1, <3>2
    <3>3. CASE loop'.head = nextId
      BY <3>1, <3>3, FreshIds
    <3> QED
      BY <1>2, <2>2, <3>2, <3>3
  <2> QED
    BY <2>1, <2>2
<1>10. \A w \in Current(loop.pending)' : w \in loop'.pending /\ w.of = loop'.head
  BY DEF Current
<1>11. WritesAreHandedOver' /\ CurrentAtHead'
  BY <1>1, <1>9, <1>10 DEF WritesAreHandedOver, CurrentAtHead, SameRow
<1>12. ReturnedIsDurable'
  BY <1>1 DEF ReturnedIsDurable
<1> QED
  BY <1>7, <1>8, <1>11, <1>12 DEF HandedOver

LEMMA SucceedsHandsOver ==
    ASSUME DurableInv, NEW t, Succeeds(t)
    PROVE  HandedOver'
<1>1. /\ phase = "run" /\ phase' = phase /\ stored' = stored /\ writes' = writes /\ rejected' = rejected
      /\ queue' = queue /\ Queued' = Queued
      /\ loop'.plain = loop.plain /\ loop'.head = loop.head /\ loop'.durability = loop.durability
      /\ loop'.initial = loop.initial /\ loop'.empty = loop.empty
      /\ RowOf(t).at = loop.head
      /\ \A w \in loop'.pending : w \in loop.pending \/ w = RowOf(t)
  BY DEF Succeeds, Queued
<1>2. inflight' = IF loop.durability = "exit" THEN inflight
                  ELSE inflight \cup {[op |-> "putWrites", row |-> RowOf(t)]}
  BY DEF Succeeds
<1>3. \A k \in inflight' : k \in inflight \/ k.op = "putWrites"
  BY <1>2
<1>4. HeadIsPlain'
  BY <1>1, <1>3 DEF DurableInv, HandedOver, HeadIsPlain
<1>5. HeadIsHandedOver'
  BY <1>1 DEF DurableInv, HandedOver, HeadIsHandedOver, HandsOver, Running
<1>6. \A w \in Current(loop.pending)' : w \in Current(loop.pending) \/ w = RowOf(t)
  BY <1>1 DEF Current
<1>7. CurrentAtHead'
  BY <1>1, <1>6 DEF DurableInv, HandedOver, CurrentAtHead
<1>8. WritesAreHandedOver'
  <2> SUFFICES ASSUME HandsOver', NEW w, w \in Current(loop.pending)'
               PROVE  (\E v \in writes' : SameRow(v, w))
                        \/ (\E k \in inflight' : k.op = "putWrites" /\ SameRow(k.row, w))
    BY DEF WritesAreHandedOver
  <2>1. HandsOver /\ loop.durability # "exit"
    BY <1>1 DEF HandsOver
  <2>2. CASE w = RowOf(t)
    <3> DEFINE k == [op |-> "putWrites", row |-> RowOf(t)]
    <3>1. k \in inflight'
      BY <1>2, <2>1
    <3>2. k.op = "putWrites" /\ k.row = w
      BY <2>2
    <3> HIDE DEF k
    <3>3. SameRow(k.row, w)
      BY <3>2 DEF SameRow
    <3> QED
      BY <3>1, <3>2, <3>3
  <2>3. CASE w \in Current(loop.pending)
    BY <1>1, <1>2, <2>1, <2>3 DEF DurableInv, HandedOver, WritesAreHandedOver
  <2> QED
    BY <1>6, <2>2, <2>3
<1>9. ReturnedIsDurable'
  BY <1>1 DEF ReturnedIsDurable
<1> QED
  BY <1>4, <1>5, <1>7, <1>8, <1>9 DEF HandedOver

LEMMA AppliesHandsOver ==
    ASSUME DurableInv, Applies
    PROVE  HandedOver'
<1>1. /\ phase = "run" /\ phase' # "idle" /\ phase' # "drain"
      /\ stored' = stored /\ writes' = writes /\ rejected' = rejected /\ inflight' = inflight
      /\ loop'.head = nextId /\ loop'.durability = loop.durability /\ loop'.pending = {}
      /\ loop'.initial = loop.initial /\ loop'.empty = loop.empty
  BY DEF Applies
<1>2. /\ nextId \in Nat /\ IsId(loop.empty) /\ (rejected.chain => rejected.some)
  BY <1>1, CountsAreNumbers DEF DurableInv, TypeInv, LoopTyped, CallsTyped, Running
<1>3. loop.empty < nextId
  BY <1>2 DEF IsId, Ids
<1>4. /\ nextId \notin DOMAIN stored
      /\ \A c \in Queued : c.id # nextId
      /\ \A k \in inflight : k.op = "put" => k.row.id # nextId
  BY FreshIds DEF DurableInv
<1>5. \A c \in Queued' : c.id = nextId => c.plain = loop'.plain
  <2>1. CASE queue' = queue
    BY <1>4, <2>1 DEF Queued
  <2> QED
    BY <1>4, <2>1 DEF Applies
<1>6. HeadIsPlain'
  BY <1>1, <1>3, <1>4, <1>5 DEF HeadIsPlain
<1>7. HeadIsHandedOver'
  <2> SUFFICES ASSUME HandsOver' PROVE \E c \in Queued' : c.id = loop'.head
    BY DEF HeadIsHandedOver
  <2>1. loop.durability # "exit" /\ ~rejected.chain
    BY <1>1, <1>2 DEF HandsOver
  <2> QED
    BY <1>1, <2>1 DEF Applies
<1>8. Current(loop.pending)' = {}
  BY <1>1 DEF Current
<1>9. WritesAreHandedOver' /\ CurrentAtHead' /\ ReturnedIsDurable'
  BY <1>1, <1>8 DEF WritesAreHandedOver, CurrentAtHead, ReturnedIsDurable
<1> QED
  BY <1>6, <1>7, <1>9 DEF HandedOver

LEMMA FinishesHandsOver ==
    ASSUME DurableInv, Finishes
    PROVE  HandedOver'
<1>1. /\ phase \in Running /\ phase' = "drain" /\ stored' = stored /\ writes' = writes
      /\ rejected' = rejected
      /\ loop'.head = loop.head /\ loop'.plain = loop.plain /\ loop'.pending = loop.pending
      /\ loop'.initial = loop.initial /\ loop'.empty = loop.empty /\ loop'.durability = loop.durability
  BY DEF Finishes, Running
<1>2. HeadIsPlain /\ CurrentAtHead /\ HeadIsHandedOver /\ WritesAreHandedOver
      /\ (rejected.chain => rejected.some)
  BY DEF DurableInv, HandedOver, TypeInv, CallsTyped
<1>3. IsId(loop.head) /\ IsId(loop.empty) /\ nextId \in Nat
  BY <1>1, CountsAreNumbers DEF DurableInv, TypeInv, LoopTyped
<1>4. Current(loop.pending)' = Current(loop.pending)
  BY <1>1 DEF Current
<1>5. CurrentAtHead'
  BY <1>1, <1>2, <1>4 DEF CurrentAtHead
<1>6. ReturnedIsDurable'
  BY <1>1 DEF ReturnedIsDurable
<1>7. CASE loop.durability # "exit"
  <2>1. loop' = loop /\ queue' = queue /\ inflight' = inflight /\ Queued' = Queued
    BY <1>7 DEF Finishes, Queued
  <2>2. HandsOver' => HandsOver
    BY <1>1, <1>7 DEF HandsOver
  <2>3. HeadIsPlain' /\ HeadIsHandedOver' /\ WritesAreHandedOver'
    BY <1>1, <1>2, <1>4, <2>1, <2>2 DEF HeadIsPlain, HeadIsHandedOver, WritesAreHandedOver
  <2> QED
    BY <1>5, <1>6, <2>3 DEF HandedOver
<1>8. CASE loop.durability = "exit"
  <2>1. \A c \in Queued' : c.id = loop.head => c.plain = loop.plain
    <3>1. CASE queue' = queue
      BY <1>1, <1>2, <3>1 DEF Queued, HeadIsPlain
    <3>2. CASE ~rejected.chain
      BY <1>1, <1>2, <1>8, <3>2 DEF Finishes, HeadIsPlain
    <3> QED
      BY <1>8, <3>1, <3>2 DEF Finishes
  <2>2. \A k \in inflight' : k.op = "put" => k.row.id # loop.head
    <3>1. loop.initial = None => loop.empty < loop.head /\ loop.empty # loop.head
      BY <1>1, <1>2, <1>3 DEF HeadIsPlain, IsId, Ids
    <3> QED
      BY <1>1, <1>2, <1>8, <3>1 DEF Finishes, HeadIsPlain
  <2>3. HeadIsPlain'
    BY <1>1, <1>2, <2>1, <2>2 DEF HeadIsPlain
  <2>4. HeadIsHandedOver'
    <3> SUFFICES ASSUME ~rejected.some PROVE \E c \in Queued' : c.id = loop'.head
      BY <1>1 DEF HeadIsHandedOver, HandsOver
    <3> QED
      BY <1>1, <1>2, <1>8 DEF Finishes
  <2>5. WritesAreHandedOver'
    <3> SUFFICES ASSUME NEW w \in Current(loop.pending)
                 PROVE  \E k \in inflight' : k.op = "putWrites" /\ SameRow(k.row, w)
      BY <1>1, <1>4 DEF WritesAreHandedOver
    <3>1. w \in loop.pending /\ w.at = loop.head
      BY <1>1, <1>2, CurrentRows DEF CurrentAtHead
    <3>2. DOMAIN w = RowFields
      BY <3>1 DEF DurableInv, TypeInv, LoopTyped, IsWrite
    <3>3. SameRow([w EXCEPT !.at = loop.head], w)
      BY <3>1, <3>2 DEF SameRow, RowFields
    <3>4. [op |-> "putWrites", row |-> [w EXCEPT !.at = loop.head]] \in inflight'
      BY <1>8, <3>1 DEF Finishes
    <3> QED
      BY <3>3, <3>4
  <2> QED
    BY <1>5, <1>6, <2>3, <2>4, <2>5 DEF HandedOver
<1> QED
  BY <1>7, <1>8

LEMMA ReturnKeeps ==
    ASSUME DurableInv, Return
    PROVE  HandedOver'
<1>1. /\ phase = "drain" /\ phase' = "idle" /\ loop' = loop /\ stored' = stored /\ writes' = writes
      /\ returned' = ~rejected.some /\ (~rejected.some => queue = <<>> /\ inflight = {})
  BY DEF Return, saverVars
<1>2. phase' \notin Running /\ phase \in Running
  BY <1>1 DEF Running
<1>3. ReturnedIsDurable'
  <2> SUFFICES ASSUME ~rejected.some PROVE ReturnedIsDurable'
    BY <1>1 DEF ReturnedIsDurable
  <2>1. queue = <<>> /\ inflight = {} /\ HandsOver
    BY <1>1, <1>2 DEF HandsOver
  <2>2. Queued = {}
    BY <2>1 DEF Queued
  <2>3. loop.head \in DOMAIN stored /\ stored[loop.head].plain = loop.plain
    BY <1>2, <2>1, <2>2 DEF DurableInv, HandedOver, HeadIsPlain, HeadIsHandedOver
  <2>4. \A w \in Current(loop.pending) : \E v \in writes : SameRow(v, w)
    BY <2>1 DEF DurableInv, HandedOver, WritesAreHandedOver
  <2>5. Current(loop.pending)' = Current(loop.pending)
    BY <1>1 DEF Current
  <2> QED
    BY <1>1, <2>3, <2>4, <2>5 DEF ReturnedIsDurable
<1> QED
  BY <1>2, <1>3 DEF HandedOver, HeadIsPlain, HeadIsHandedOver, WritesAreHandedOver, CurrentAtHead, HandsOver

LEMMA UpdatesAreDurable ==
    ASSUME DurableInv, Updates
    PROVE  HandedOver'
<1>1. phase' = "idle" /\ loop'.head = nextId /\ loop'.plain = loop.plain /\ loop'.pending = {}
  BY DEF Updates
<1>2. phase' \notin Running
  BY <1>1 DEF Running
<1>3. PICK c : c.id = nextId /\ c.plain = loop.plain /\ stored' = Put(stored, c)
  BY DEF Updates
<1>4. nextId \in DOMAIN stored' /\ stored'[nextId] = c
  BY <1>3 DEF Put
<1>5. Current(loop.pending)' = {}
  BY <1>1 DEF Current
<1>6. ReturnedIsDurable'
  BY <1>1, <1>3, <1>4, <1>5 DEF ReturnedIsDurable
<1> QED
  BY <1>2, <1>6 DEF HandedOver, HeadIsPlain, HeadIsHandedOver, WritesAreHandedOver, CurrentAtHead, HandsOver

LEMMA PutLandsKeeps ==
    ASSUME DurableInv, PutLands
    PROVE  HandedOver'
<1>1. /\ queue # <<>> /\ queue' = Tail(queue) /\ stored' = Put(stored, Head(queue))
      /\ writes' = writes /\ inflight' = inflight /\ rejected' = rejected /\ phase' = phase /\ loop' = loop
      /\ returned' = returned
  BY DEF PutLands, runVars
<1>2. Queued = Queued' \cup {Head(queue)}
  BY <1>1, QueueMoves DEF DurableInv
<1> DEFINE c == Head(queue)
<1>3. /\ DOMAIN stored' = (DOMAIN stored) \cup {c.id} /\ stored'[c.id] = c
      /\ \A i \in DOMAIN stored : i # c.id => stored'[i] = stored[i]
  BY <1>1 DEF Put
<1> HIDE DEF c
<1>4. c \in Queued
  BY <1>2 DEF c
<1>5. HeadIsPlain'
  <2> SUFFICES ASSUME phase \in Running PROVE HeadIsPlain'
    BY <1>1 DEF HeadIsPlain
  <2>1. /\ \A d \in Queued : d.id = loop.head => d.plain = loop.plain
        /\ loop.head \in DOMAIN stored => stored[loop.head].plain = loop.plain
    BY DEF DurableInv, HandedOver, HeadIsPlain
  <2>2. loop.head \in DOMAIN stored' => stored'[loop.head].plain = loop.plain
    BY <1>3, <1>4, <2>1
  <2> QED
    BY <1>1, <1>2, <2>1, <2>2 DEF DurableInv, HandedOver, HeadIsPlain
<1>6. HeadIsHandedOver'
  BY <1>1, <1>2, <1>3 DEF DurableInv, HandedOver, HeadIsHandedOver, HandsOver, c
<1>7. Current(loop.pending)' = Current(loop.pending)
  BY <1>1 DEF Current
<1>8. WritesAreHandedOver' /\ CurrentAtHead'
  BY <1>1, <1>7 DEF DurableInv, HandedOver, WritesAreHandedOver, CurrentAtHead, HandsOver
<1>9. ReturnedIsDurable'
  BY <1>1 DEF DurableInv, TypeInv, Quiet, ReturnedIsDurable
<1> QED
  BY <1>5, <1>6, <1>8, <1>9 DEF HandedOver

LEMMA CallLandsKeeps ==
    ASSUME DurableInv, NEW k, k \in inflight, CallLands(k)
    PROVE  HandedOver'
<1>1. /\ inflight' = inflight \ {k} /\ queue' = queue /\ Queued' = Queued /\ rejected' = rejected
      /\ phase' = phase /\ loop' = loop /\ returned' = returned
      /\ IF k.op = "put" THEN stored' = Put(stored, k.row) /\ writes' = writes
                         ELSE writes' = PutWrite(writes, k.row) /\ stored' = stored
  BY DEF CallLands, runVars, historyVars, Queued
<1>2. /\ phase \in Running /\ k.op = "put" => k.row.id # loop.head
      /\ k.op # "put" => k.op = "putWrites"
  BY DEF DurableInv, HandedOver, HeadIsPlain, TypeInv, CallsTyped, IsCall
<1>3. /\ DOMAIN stored \subseteq DOMAIN stored'
      /\ phase \in Running =>
             (loop.head \in DOMAIN stored' => loop.head \in DOMAIN stored /\ stored'[loop.head] = stored[loop.head])
  <2>1. CASE k.op = "put"
    BY <1>1, <1>2, <2>1 DEF Put
  <2>2. CASE k.op # "put"
    BY <1>1, <2>2
  <2> QED
    BY <2>1, <2>2
<1>4. HeadIsPlain'
  BY <1>1, <1>3 DEF DurableInv, HandedOver, HeadIsPlain
<1>5. HeadIsHandedOver'
  BY <1>1, <1>3 DEF DurableInv, HandedOver, HeadIsHandedOver, HandsOver
<1>6. Current(loop.pending)' = Current(loop.pending)
  BY <1>1 DEF Current
<1>7. CurrentAtHead'
  BY <1>1, <1>6 DEF DurableInv, HandedOver, CurrentAtHead
<1>8. WritesAreHandedOver'
  <2> SUFFICES ASSUME HandsOver, NEW w \in Current(loop.pending)
               PROVE  (\E v \in writes' : SameRow(v, w))
                        \/ (\E j \in inflight' : j.op = "putWrites" /\ SameRow(j.row, w))
    BY <1>1, <1>6 DEF WritesAreHandedOver, HandsOver
  <2>1. writes \subseteq writes'
    BY <1>1, PutWriteStores
  <2>2. k.op = "putWrites" => \E v \in writes' : SameRow(v, k.row)
    BY <1>1, PutWriteStores
  <2>3. CASE \E v \in writes : SameRow(v, w)
    BY <2>1, <2>3
  <2>4. ASSUME NEW j \in inflight, j.op = "putWrites", SameRow(j.row, w)
        PROVE  (\E v \in writes' : SameRow(v, w))
                 \/ (\E i \in inflight' : i.op = "putWrites" /\ SameRow(i.row, w))
    <3>1. CASE j = k
      <4>1. PICK v \in writes' : SameRow(v, k.row)
        BY <2>2, <2>4, <3>1
      <4>2. SameRow(v, w)
        BY <2>4, <3>1, <4>1 DEF SameRow
      <4> QED
        BY <4>2
    <3>2. CASE j # k
      BY <1>1, <2>4, <3>2
    <3> QED
      BY <3>1, <3>2
  <2> QED
    BY <2>3, <2>4 DEF DurableInv, HandedOver, WritesAreHandedOver
<1>9. ReturnedIsDurable'
  BY <1>1 DEF DurableInv, TypeInv, Quiet, ReturnedIsDurable
<1> QED
  BY <1>4, <1>5, <1>7, <1>8, <1>9 DEF HandedOver

LEMMA RejectionsKeep ==
    ASSUME DurableInv, LoopStays, stored' = stored, writes' = writes, Queued' \subseteq Queued,
           inflight' \subseteq inflight, phase # "idle" => rejected'.some,
           queue # <<>> \/ inflight # {}
    PROVE  HandedOver'
<1>1. ~HandsOver'
  BY DEF HandsOver, LoopStays, Running
<1>2. HeadIsPlain'
  BY DEF LoopStays, DurableInv, HandedOver, HeadIsPlain
<1>3. Current(loop.pending)' = Current(loop.pending)
  BY DEF LoopStays, Current
<1>4. CurrentAtHead'
  BY <1>3 DEF LoopStays, DurableInv, HandedOver, CurrentAtHead
<1>5. ReturnedIsDurable'
  BY DEF LoopStays, DurableInv, TypeInv, Quiet, ReturnedIsDurable
<1> QED
  BY <1>1, <1>2, <1>4, <1>5 DEF HandedOver, HeadIsHandedOver, WritesAreHandedOver

\* Steps that change neither the loop nor what it has handed over.
LEMMA MovesKeep ==
    ASSUME DurableInv, \/ phase \in Running /\ phase' \in Running /\ phase' # "drain"
           \/ phase' = phase,
           loop' = loop, stored' = stored, writes' = writes,
           queue' = queue, inflight' = inflight, rejected' = rejected, returned' = returned
    PROVE  HandedOver'
<1>1. Current(loop.pending)' = Current(loop.pending) /\ Queued' = Queued
  BY DEF Current, Queued
<1>2. HandsOver' => HandsOver
  BY DEF HandsOver
<1>3. HeadIsPlain' /\ HeadIsHandedOver' /\ WritesAreHandedOver' /\ CurrentAtHead'
  BY <1>1, <1>2 DEF DurableInv, HandedOver, HeadIsPlain, HeadIsHandedOver, WritesAreHandedOver, CurrentAtHead
<1>4. ReturnedIsDurable'
  BY <1>1 DEF DurableInv, HandedOver, ReturnedIsDurable, Running
<1> QED
  BY <1>3, <1>4 DEF HandedOver

LEMMA StepsHandOver ==
    ASSUME DurableInv, Steps
    PROVE  DurableInv'
<1>1. TypeInv /\ TypeInv'
  BY StepsAreTyped DEF DurableInv
<1> SUFFICES HandedOver'
  BY <1>1 DEF DurableInv
<1>2. ASSUME NEW c, UpdateStarts(c)
      PROVE  HandedOver'
  <2>1. phase' = "update" /\ phase' \notin Running
    BY <1>2 DEF UpdateStarts, Running
  <2> QED
    BY <2>1 DEF HandedOver, HeadIsPlain, HeadIsHandedOver, WritesAreHandedOver, CurrentAtHead, HandsOver,
                ReturnedIsDurable
<1>3. CASE Prepare \/ Settle
  <2>1. /\ phase \in Running /\ phase' \in Running /\ phase' # "drain" /\ loop' = loop
        /\ stored' = stored /\ writes' = writes /\ queue' = queue /\ inflight' = inflight
        /\ rejected' = rejected /\ returned' = returned
    BY <1>3 DEF Prepare, Settle, Running, saverVars, pendingVars, historyVars
  <2> QED
    BY <2>1, MovesKeep
<1>4. CASE PutIsRejected
  <2>1. /\ queue # <<>> /\ queue' = <<>> /\ inflight' = inflight /\ stored' = stored /\ writes' = writes
        /\ LoopStays /\ (phase # "idle" => rejected'.some)
    BY <1>4 DEF PutIsRejected, saverVars, runVars, historyVars, LoopStays
  <2>2. Queued' \subseteq Queued
    BY <2>1 DEF Queued
  <2> QED
    BY <2>1, <2>2, RejectionsKeep
<1>5. ASSUME NEW k \in inflight, CallIsRejected(k)
      PROVE  HandedOver'
  <2>1. /\ queue' = queue /\ inflight' = inflight \ {k} /\ stored' = stored /\ writes' = writes
        /\ LoopStays /\ inflight # {}
    BY <1>5 DEF CallIsRejected, saverVars, runVars, LoopStays
  <2>2. phase # "idle" => rejected'.some
    BY <1>1, <1>5 DEF CallIsRejected, TypeInv, CallsTyped
  <2>3. Queued' \subseteq Queued /\ inflight' \subseteq inflight
    BY <2>1 DEF Queued
  <2> QED
    BY <2>1, <2>2, <2>3, RejectionsKeep
<1>6. CASE Crash
  <2>1. phase' = "idle" /\ phase' \notin Running /\ returned' = FALSE
    BY <1>6 DEF Crash, Running
  <2> QED
    BY <2>1 DEF HandedOver, HeadIsPlain, HeadIsHandedOver, WritesAreHandedOver, CurrentAtHead, HandsOver,
                ReturnedIsDurable
<1>7. CASE UNCHANGED vars
  BY <1>7, StutterStays, MovesKeep
<1> QED
  BY <1>1, <1>2, <1>3, <1>4, <1>5, <1>6, <1>7, StartHandsOver, SucceedsHandsOver, AppliesHandsOver,
     FinishesHandsOver, ReturnKeeps, UpdatesAreDurable, PutLandsKeeps, CallLandsKeeps DEF Steps

\* When a run returns, its last checkpoint and the writes of the tasks that
\* succeeded after it are stored (the awaits at the end of _streamIterator),
\* in every durability, after every crash and rejected call before it.
THEOREM ReturnsDurable == Spec => []ReturnedIsDurable
<1>1. Init => DurableInv
  <2> SUFFICES ASSUME Init PROVE DurableInv
    OBVIOUS
  <2>1. phase = "idle" /\ phase \notin Running /\ returned = FALSE
    BY DEF Init, Running
  <2> QED
    BY <2>1, InitIsTyped DEF DurableInv, HandedOver, HeadIsPlain, HeadIsHandedOver, WritesAreHandedOver,
                             CurrentAtHead, HandsOver, ReturnedIsDurable
<1>2. DurableInv /\ [Next]_vars => DurableInv'
  BY NextSteps, StepsHandOver DEF DurableInv
<1>3. DurableInv => ReturnedIsDurable
  BY DEF DurableInv, HandedOver
<1> QED
  BY <1>1, <1>2, <1>3, PTL DEF Spec

-----------------------------------------------------------------------------
(* The thread keeps what ThreadHistory promises.                              *)

\* s comes first in t.
Pre(s, t) == Len(s) <= Len(t) /\ \A i \in 1..Len(s) : s[i] = t[i]

Live == {"tick", "run", "settle"}

\* Rows carry the marks of the executions they are named for, one row each.
RowsInv ==
    /\ \A w \in writes : IsMarked(w)
    /\ \A w \in loop.pending \cup loop.exitWrites : IsMarked(w)
    /\ \A k \in inflight : k.op = "putWrites" => IsMarked(k.row)
    /\ \A v, w \in writes : SameRow(v, w) => v = w
    /\ phase \in Running => \A v, w \in Current(loop.pending) : v.task = w.task => v = w

\* A checkpoint's state has each mark once, all of checkpoints before it.
Tells(s, id) == s \in Seq(Marks) /\ Once(s) /\ \A i \in 1..Len(s) : s[i][1] < id
MarksInv ==
    /\ \A c \in DOMAIN stored : Tells(stored[c].plain, c)
    /\ \A c \in Queued : Tells(c.plain, c.id)
    /\ phase \in Running => Tells(loop.plain, loop.head)
    /\ phase = "update" => Tells(loop.plain, nextId)
    /\ base \in Seq(Marks)

\* The durable state, the states on their way and the loop's extend each other.
OrderInv ==
    /\ phase \in Live \cup {"update"} => Pre(base, loop.plain)
    /\ \A c \in Queued : Pre(base, c.plain) /\ (phase \in Live => Pre(c.plain, loop.plain))
    /\ \A i, j \in DOMAIN queue : i < j => Pre(queue[i].plain, queue[j].plain) /\ queue[i].id < queue[j].id
    /\ phase \in Live /\ loop.durability = "exit" => queue = <<>>

\* A put adds the latest checkpoint, or it stores again what is the durable state.
Newest(id, s) == (\A d \in DOMAIN stored : d <= id) \/ (id \in DOMAIN stored /\ s = base)
LatestInv ==
    /\ stored # <<>> => DOMAIN stored # {}
    /\ \A c \in Queued : Newest(c.id, c.plain) /\ (c.id \in DOMAIN stored => stored[c.id].plain = c.plain)
    /\ phase \in Live => Newest(loop.head, loop.plain) /\ \A c \in Queued : c.id <= loop.head

\* The stub comes before all the checkpoints of the thread.
StubInv ==
    /\ \A k \in inflight : k.op = "put" =>
          /\ phase \notin Live
          /\ k.row.plain = <<>>
          /\ \A d \in DOMAIN stored : k.row.id <= d /\ (d = k.row.id => stored[d].plain = <<>>)
          /\ \A c \in Queued : k.row.id < c.id
          /\ \A j \in inflight : j.op = "put" => j.row.id = k.row.id
    /\ phase \in Live /\ loop.initial = None =>
          (\A d \in DOMAIN stored : loop.empty < d) /\ (\A c \in Queued : loop.empty < c.id)

History == MarksInv /\ OrderInv /\ LatestInv /\ StubInv
ThreadInv == DurableInv /\ RowsInv /\ History

LEMMA PreIsReflexive ==
    ASSUME NEW s \in Seq(Marks)
    PROVE  Pre(s, s)
  BY DEF Pre

LEMMA PreIsTransitive ==
    ASSUME NEW s \in Seq(Marks), NEW t \in Seq(Marks), NEW u \in Seq(Marks), Pre(s, t), Pre(t, u)
    PROVE  Pre(s, u)
  BY DEF Pre

LEMMA PreIsAntisymmetric ==
    ASSUME NEW s \in Seq(Marks), NEW t \in Seq(Marks), Pre(s, t), Pre(t, s)
    PROVE  s = t
<1>1. Len(s) = Len(t) /\ \A i \in 1..Len(s) : s[i] = t[i]
  BY DEF Pre
<1> QED
  BY <1>1, SeqEqual

\* What comes after a state with the marks of later checkpoints.
LEMMA TellsMore ==
    ASSUME NEW id \in Nat, NEW h \in Nat, h >= id, NEW s, Tells(s, id),
           NEW t \in Seq(Marks), Once(t), \A i \in 1..Len(t) : t[i][1] = h
    PROVE  s \o t \in Seq(Marks) /\ Pre(s, s \o t) /\ Tells(s \o t, h + 1)
<1> DEFINE u == s \o t
<1>1. /\ s \in Seq(Marks) /\ Len(s) \in Nat /\ Len(t) \in Nat
      /\ u \in Seq(Marks) /\ Len(u) = Len(s) + Len(t)
      /\ \A i \in 1..Len(s) : u[i] = s[i]
      /\ \A i \in 1..Len(u) : i > Len(s) => i - Len(s) \in 1..Len(t) /\ u[i] = t[i - Len(s)]
  BY DEF Tells
<1> HIDE DEF u
<1>2. Pre(s, u)
  BY <1>1 DEF Pre
<1>3. \A i \in 1..Len(s) : s[i][1] < id /\ s[i][1] \in Nat
  <2>1. \A i \in 1..Len(s) : s[i] \in Marks /\ s[i][1] < id
    BY <1>1 DEF Tells
  <2> QED
    BY <2>1 DEF Marks
<1>4. \A i \in 1..Len(u) : u[i][1] < h + 1
  <2> SUFFICES ASSUME NEW i \in 1..Len(u) PROVE u[i][1] < h + 1
    OBVIOUS
  <2>1. CASE i <= Len(s)
    <3>1. i \in 1..Len(s) /\ u[i] = s[i]
      BY <1>1, <2>1
    <3>2. s[i][1] < id /\ s[i][1] \in Nat
      BY <1>3, <3>1
    <3> QED
      BY <3>1, <3>2
  <2>2. CASE i > Len(s)
    <3>1. u[i][1] = h
      BY <1>1, <2>2
    <3> QED
      BY <3>1
  <2> QED
    BY <1>1, <2>1, <2>2
<1>5. Once(u)
  <2>1. ASSUME NEW i \in 1..Len(u), NEW j \in 1..Len(u), u[i] = u[j]
        PROVE  i = j
    <3>1. CASE i <= Len(s) /\ j <= Len(s)
      BY <1>1, <2>1, <3>1 DEF Tells, Once
    <3>2. CASE i > Len(s) /\ j > Len(s)
      <4>1. i - Len(s) = j - Len(s)
        BY SMTT(30), <1>1, <2>1, <3>2 DEF Once
      <4> QED
        BY <1>1, <4>1
    <3>3. CASE i <= Len(s) /\ j > Len(s)
      BY SMTT(30), <1>1, <1>3, <2>1, <3>3
    <3>4. CASE i > Len(s) /\ j <= Len(s)
      BY SMTT(30), <1>1, <1>3, <2>1, <3>4
    <3> QED
      BY <1>1, <3>1, <3>2, <3>3, <3>4
  <2> QED
    BY <2>1 DEF Once
<1> QED
  BY <1>1, <1>2, <1>4, <1>5 DEF u, Tells

LEMMA TellsLater ==
    ASSUME NEW i \in Nat, NEW j \in Nat, i <= j, NEW s, Tells(s, i)
    PROVE  Tells(s, j)
<1>1. \A k \in 1..Len(s) : s[k][1] \in Nat
  BY SMTT(30) DEF Tells, Marks
<1> QED
  BY <1>1 DEF Tells

LEMMA NothingTells ==
    ASSUME NEW i
    PROVE  Tells(<<>>, i) /\ <<>> \in Seq(Marks)
  BY DEF Tells, Once

-----------------------------------------------------------------------------
\* The latest checkpoint.
LEMMA LatestIs ==
    ASSUME ThreadInv, stored # <<>>
    PROVE  Latest \in DOMAIN stored /\ \A d \in DOMAIN stored : d <= Latest
<1>1. DOMAIN stored \subseteq Nat /\ nextId \in Nat /\ \A d \in DOMAIN stored : nextId - d \in Nat
  BY StoredAreIds, CountsAreNumbers DEF ThreadInv, DurableInv, IsId, Ids
<1>2. DOMAIN stored # {}
  BY DEF ThreadInv, History, LatestInv
<1> DEFINE T == {nextId - d : d \in DOMAIN stored}
<1>3. PICK x \in T : \A y \in T : x <= y
  <2>1. T \subseteq Nat /\ T # {}
    BY <1>1, <1>2
  <2> HIDE DEF T
  <2> QED
    BY <2>1, LeastNatural
<1>4. PICK c \in DOMAIN stored : x = nextId - c
  OBVIOUS
<1>5. \A d \in DOMAIN stored : d <= c
  <2>1. \A d \in DOMAIN stored : nextId - c <= nextId - d
    BY <1>3, <1>4
  <2> QED
    BY <1>1, <2>1
<1>6. Latest = CHOOSE e \in DOMAIN stored : \A d \in DOMAIN stored : d <= e
  BY DEF Latest
<1> QED
  BY <1>5, <1>6

-----------------------------------------------------------------------------
(* Steps, for the rows.                                                       *)

TableFits ==
    /\ \A w \in writes : IsMarked(w)
    /\ \A v, w \in writes : SameRow(v, w) => v = w

LEMMA WriteFits ==
    ASSUME TableFits, NEW w, IsMarked(w), writes' = PutWrite(writes, w)
    PROVE  TableFits'
<1>1. CASE \E v \in writes : SameRow(v, w)
  BY <1>1 DEF PutWrite, TableFits
<1>2. CASE ~\E v \in writes : SameRow(v, w)
  <2>1. writes' = writes \cup {w}
    BY <1>2 DEF PutWrite
  <2>2. \A v, u \in writes' : SameRow(v, u) => v = u
    BY <1>2, <2>1 DEF TableFits, SameRow
  <2> QED
    BY <2>1, <2>2 DEF TableFits
<1> QED
  BY <1>1, <1>2

\* Steps that hand over no row and add none to the loop.
LEMMA RowsStay ==
    ASSUME RowsInv, TableFits', \A k \in inflight' : k \in inflight \/ k.op # "putWrites",
           (loop' = loop /\ (phase' \in Running => phase \in Running))
             \/ (loop'.pending = {} /\ loop'.exitWrites \subseteq loop.exitWrites)
             \/ (loop'.pending = loop.pending /\ loop'.exitWrites = loop.exitWrites
                   /\ loop'.head = loop.head /\ phase \in Running)
    PROVE  RowsInv'
<1>1. /\ loop'.pending = loop.pending \/ loop'.pending = {}
      /\ loop'.exitWrites \subseteq loop.exitWrites
  OBVIOUS
<1>2. (\A w \in loop.pending \cup loop.exitWrites : IsMarked(w))'
  BY <1>1 DEF RowsInv, IsMarked
<1>3. (\A k \in inflight : k.op = "putWrites" => IsMarked(k.row))'
  BY DEF RowsInv, IsMarked
<1>4. (phase \in Running => \A v, w \in Current(loop.pending) : v.task = w.task => v = w)'
  BY DEF RowsInv, Current
<1> QED
  BY <1>2, <1>3, <1>4 DEF RowsInv, TableFits

LEMMA StartRows ==
    ASSUME RowsInv, NEW c, NEW l, NEW d, LoadedFields(l, c, d), Start(c, l)
    PROVE  RowsInv'
<1>1. /\ writes' = writes /\ inflight' = {} /\ loop'.exitWrites = {} /\ loop'.pending = l.pending
      /\ l.pending = {} \/ l.pending = RowsAt(c)
  BY DEF Start, StartFrame, StartLoop, LoadedFields
<1>2. \A w \in loop'.pending : w \in writes /\ w.at = c
  BY <1>1 DEF RowsAt
<1>3. (\A v, w \in Current(loop.pending) : v.task = w.task => v = w)'
  <2>1. \A w \in Current(loop.pending)' : w \in loop'.pending /\ w.group = Own /\ w.of = loop'.head
    BY DEF Current
  <2> QED
    BY <1>2, <2>1 DEF RowsInv, SameRow
<1> QED
  BY <1>1, <1>2, <1>3 DEF RowsInv, IsMarked

LEMMA UpdateRows ==
    ASSUME TypeInv, RowsInv, NEW c, UpdateStarts(c)
    PROVE  RowsInv'
<1>1. /\ phase' = "update" /\ inflight' = {} /\ loop'.exitWrites = {}
      /\ loop'.pending = {} \/ loop'.pending = RowsAt(c)
  BY DEF UpdateStarts
<1>2. TableFits
  BY DEF RowsInv, TableFits
<1>3. TableFits'
  <2>1. CASE writes' = writes
    BY <1>2, <2>1 DEF TableFits
  <2>2. ASSUME NEW w, w.of = c, w.task = 0, w.deltas = <<<<c, 0, runs + 1>>>>,
               writes' = PutWrite(writes, w)
        PROVE  TableFits'
    <3>1. IsMarked(w)
      <4>1. runs + 1 \in Nat
        BY CountsAreNumbers
      <4> QED
        BY <2>2, <4>1 DEF IsMarked
    <3> QED
      BY <1>2, <2>2, <3>1, WriteFits
  <2> QED
    BY <2>1, <2>2 DEF UpdateStarts
<1>4. \A w \in RowsAt(c) : IsMarked(w)
  BY DEF RowsInv, RowsAt
<1>5. phase' \notin Running
  BY <1>1 DEF Running
<1> QED
  BY <1>1, <1>3, <1>4, <1>5 DEF RowsInv, TableFits, IsMarked

LEMMA SucceedsRows ==
    ASSUME TypeInv, RowsInv, NEW t, Succeeds(t)
    PROVE  RowsInv'
<1>1. /\ writes' = writes /\ loop'.exitWrites = loop.exitWrites /\ loop'.head = loop.head
      /\ phase \in Running /\ t \in Tasks
      /\ inflight' = IF loop.durability = "exit" THEN inflight
                     ELSE inflight \cup {[op |-> "putWrites", row |-> RowOf(t)]}
      /\ \A w \in loop'.pending :
            w = RowOf(t) \/ (w \in loop.pending /\ (w.of # loop.head \/ w.group # Own \/ w.task # t))
  BY DEF Succeeds, TypeInv, CountsTyped, Running
<1>2. RowOf(t).task = t /\ IsMarked(RowOf(t))
  <2>1. runs \in Nat
    BY CountsAreNumbers
  <2> QED
    BY <2>1 DEF Succeeds, IsMarked
<1>3. (\A w \in loop.pending \cup loop.exitWrites : IsMarked(w))'
  BY <1>1, <1>2 DEF RowsInv, IsMarked
<1>4. (\A k \in inflight : k.op = "putWrites" => IsMarked(k.row))'
  BY <1>1, <1>2 DEF RowsInv, IsMarked
<1>5. (\A v, w \in Current(loop.pending) : v.task = w.task => v = w)'
  <2>1. \A w \in Current(loop.pending)' : w = RowOf(t) \/ (w \in Current(loop.pending) /\ w.task # t)
    BY <1>1 DEF Current
  <2> QED
    BY <1>1, <1>2, <2>1 DEF RowsInv
<1> QED
  BY <1>1, <1>3, <1>4, <1>5 DEF RowsInv, IsMarked

LEMMA AppliesRows ==
    ASSUME RowsInv, Applies
    PROVE  RowsInv'
<1>1. /\ writes' = writes /\ inflight' = inflight /\ loop'.pending = {}
      /\ \A w \in loop'.exitWrites :
          \/ w \in loop.exitWrites
          \/ \E v \in loop.pending : w.of = v.of /\ w.task = v.task /\ w.deltas = v.deltas
  BY DEF Applies
<1>2. \A w \in loop'.exitWrites : IsMarked(w)
  BY <1>1 DEF RowsInv, IsMarked
<1>3. Current(loop.pending)' = {}
  BY <1>1 DEF Current
<1> QED
  BY <1>1, <1>2, <1>3 DEF RowsInv, IsMarked

LEMMA FinishesRows ==
    ASSUME TypeInv, RowsInv, Finishes
    PROVE  RowsInv'
<1>1. /\ writes' = writes /\ loop'.pending = loop.pending /\ loop'.exitWrites = loop.exitWrites
      /\ loop'.head = loop.head /\ phase \in Running /\ phase' \in Running
  BY DEF Finishes, Running
<1>2. \A w \in loop.pending \cup loop.exitWrites : DOMAIN w = RowFields /\ IsMarked(w)
  BY DEF TypeInv, LoopTyped, IsWrite, RowsInv
<1>3. \A k \in inflight' : k.op = "putWrites" => IsMarked(k.row)
  <2>1. CASE loop.durability # "exit"
    BY <2>1 DEF Finishes, RowsInv
  <2>2. CASE loop.durability = "exit"
    <3>1. ASSUME NEW k \in inflight', k.op = "putWrites", k \notin inflight
          PROVE  IsMarked(k.row)
      <4>1. PICK w \in loop.pending \cup loop.exitWrites : k.row = [w EXCEPT !.at = k.row.at]
        BY <2>2, <3>1 DEF Finishes
      <4>2. k.row.of = w.of /\ k.row.task = w.task /\ k.row.deltas = w.deltas
        BY <1>2, <4>1 DEF RowFields
      <4> QED
        BY <1>2, <4>2 DEF IsMarked
    <3> QED
      BY <3>1 DEF RowsInv
  <2> QED
    BY <2>1, <2>2
<1>4. Current(loop.pending)' = Current(loop.pending)
  BY <1>1 DEF Current
<1> QED
  BY <1>1, <1>2, <1>3, <1>4 DEF RowsInv, IsMarked

LEMMA StepsKeepRows ==
    ASSUME TypeInv, RowsInv, Steps
    PROVE  RowsInv'
<1>0. TableFits /\ (writes' = writes => TableFits')
  BY DEF RowsInv, TableFits
<1>1. CASE Prepare \/ Settle
  <2>1. phase \in Running /\ loop' = loop /\ writes' = writes /\ inflight' = inflight
    BY <1>1 DEF Prepare, Settle, saverVars, pendingVars, Running
  <2> QED
    BY <1>0, <2>1, RowsStay
<1>2. CASE Return
  <2>1. loop' = loop /\ writes' = writes /\ inflight' = inflight /\ phase' \notin Running
    BY <1>2 DEF Return, saverVars, Running
  <2> QED
    BY <1>0, <2>1, RowsStay
<1>3. CASE Updates
  <2>1. loop'.pending = {} /\ loop'.exitWrites = loop.exitWrites /\ writes' = writes /\ inflight' = inflight
    BY <1>3 DEF Updates
  <2> QED
    BY <1>0, <2>1, RowsStay
<1>4. CASE PutLands \/ PutIsRejected \/ UNCHANGED vars
  <2>1. loop' = loop /\ phase' = phase /\ writes' = writes /\ inflight' = inflight
    BY <1>4, StutterStays DEF PutLands, PutIsRejected, saverVars, runVars
  <2> QED
    BY <1>0, <2>1, RowsStay
<1>5. ASSUME NEW k \in inflight, CallLands(k) \/ CallIsRejected(k)
      PROVE  RowsInv'
  <2>1. loop' = loop /\ phase' = phase /\ inflight' = inflight \ {k}
    BY <1>5 DEF CallLands, CallIsRejected, runVars
  <2>2. writes' = writes \/ (k.op = "putWrites" /\ writes' = PutWrite(writes, k.row))
    BY <1>5 DEF CallLands, CallIsRejected, saverVars, TypeInv, CallsTyped, IsCall
  <2>3. TableFits'
    BY <1>0, <2>2, WriteFits DEF RowsInv
  <2> QED
    BY <2>1, <2>3, RowsStay
<1>6. CASE Crash
  <2>1. loop'.pending = {} /\ loop'.exitWrites = {} /\ writes' = writes /\ inflight' = {}
    BY <1>6 DEF Crash, saverVars, NoLoop
  <2> QED
    BY <1>0, <2>1, RowsStay
<1> QED
  BY <1>1, <1>2, <1>3, <1>4, <1>5, <1>6, StartRows, UpdateRows, SucceedsRows, AppliesRows, FinishesRows
     DEF Steps

-----------------------------------------------------------------------------
(* Steps, for the history.                                                    *)

\* Steps that put nothing and start nothing.
Dwindles ==
    /\ stored' = stored /\ base' = base /\ nextId' = nextId
    /\ queue' = queue \/ queue' = <<>>
    /\ \A k \in inflight' : k.op = "put" => k \in inflight
    /\ phase' \in Live => phase \in Live
    /\ phase' \in Running => phase \in Running
    /\ phase' = "update" => phase = "update"
    /\ phase' \in Running \cup {"update"} =>
          /\ loop'.head = loop.head /\ loop'.plain = loop.plain /\ loop'.initial = loop.initial
          /\ loop'.empty = loop.empty /\ loop'.durability = loop.durability

LEMMA DwindlesKeeps ==
    ASSUME History, Dwindles
    PROVE  History'
<1>1. Live \subseteq Running
  BY DEF Live, Running
<1>2. Queued' \subseteq Queued
  BY DEF Dwindles, Queued
<1>3. MarksInv'
  <2>1. \A s, i : Tells(s, i)' <=> Tells(s, i)
    BY DEF Tells
  <2> QED
    BY <1>2 DEF History, MarksInv, Dwindles, Tells
<1>4. OrderInv'
  <2>1. (\A i, j \in DOMAIN queue : i < j => Pre(queue[i].plain, queue[j].plain) /\ queue[i].id < queue[j].id)'
    BY DEF History, OrderInv, Dwindles, Pre
  <2>2. (phase \in Live \cup {"update"} => Pre(base, loop.plain))'
    BY <1>1 DEF History, OrderInv, Dwindles, Pre
  <2>3. (\A c \in Queued : Pre(base, c.plain) /\ (phase \in Live => Pre(c.plain, loop.plain)))'
    BY <1>1, <1>2 DEF History, OrderInv, Dwindles, Pre
  <2>4. (phase \in Live /\ loop.durability = "exit" => queue = <<>>)'
    BY <1>1 DEF History, OrderInv, Dwindles
  <2> QED
    BY <2>1, <2>2, <2>3, <2>4 DEF OrderInv
<1>5. LatestInv'
  BY <1>1, <1>2 DEF History, LatestInv, Dwindles, Newest
<1>6. StubInv'
  BY <1>1, <1>2 DEF History, StubInv, Dwindles
<1> QED
  BY <1>3, <1>4, <1>5, <1>6 DEF History

LEMMA StartKeepsHistory ==
    ASSUME ThreadInv, NEW c \in (DOMAIN stored) \cup {None}, NEW l, NEW d, LoadedFields(l, c, d), Start(c, l)
    PROVE  History'
<1>0. TypeInv /\ MarksInv /\ LatestInv
  BY DEF ThreadInv, DurableInv, History
<1>1. /\ phase = "idle" /\ phase' = "tick" /\ inflight' = {} /\ queue = <<>> /\ stored' = stored
      /\ base' = l.plain /\ loop'.plain = l.plain /\ loop'.initial = l.initial /\ loop'.empty = l.empty
      /\ rejected' = rejected
  BY DEF Start, StartFrame, StartLoop
<1>2. /\ nextId \in Nat /\ nextId >= 1 /\ ~rejected.chain
      /\ c # None => c \in DOMAIN stored
      /\ \A i \in DOMAIN stored : i \in Nat /\ i < nextId /\ i # None
  BY <1>0, <1>1, CountsAreNumbers, NoneIsRejected, StoredAreIds DEF TypeInv, Quiet, IsId, Ids
<1>3. \/ c # None /\ loop'.head = c
      \/ loop'.head = nextId
      \/ c = None /\ loop'.head = nextId + 1
  BY DEF Start, StartHead
<1>4. IF c = None THEN l.plain = <<>> /\ l.empty = nextId /\ l.initial = None
                  ELSE l.plain = stored[c].plain /\ l.initial = c
  BY DEF LoadedFields
<1>5. loop'.head \in Nat /\ Tells(l.plain, loop'.head) /\ l.plain \in Seq(Marks)
  <2>1. CASE c = None
    <3>1. loop'.head \in Nat /\ l.plain = <<>>
      BY <1>2, <1>3, <1>4, <2>1
    <3>2. Tells(<<>>, loop'.head) /\ <<>> \in Seq(Marks)
      BY NothingTells
    <3> QED
      BY <3>1, <3>2
  <2>2. CASE c # None
    <3>1. Tells(l.plain, c)
      BY <1>0, <1>2, <1>4, <2>2 DEF MarksInv
    <3>2. c \in Nat /\ loop'.head \in Nat /\ c <= loop'.head
      BY <1>2, <1>3, <2>2
    <3> QED
      BY <3>1, <3>2, TellsLater DEF Tells
  <2> QED
    BY <2>1, <2>2
<1>6. /\ \A p \in Queued' : p.id = loop'.head /\ p.plain = l.plain
      /\ Len(queue') \in {0, 1}
      /\ DOMAIN queue' = 1..Len(queue')
      /\ loop'.durability = "exit" => queue' = <<>>
  <2>1. CASE queue' = <<>>
    BY <2>1 DEF Queued
  <2>2. ASSUME NEW p, p.id = loop'.head, p.plain = l.plain, Queued' = {p}, queue' \in Seq(Queued'),
               Len(queue') = 1, loop'.durability # "exit"
        PROVE  /\ \A q \in Queued' : q.id = loop'.head /\ q.plain = l.plain
               /\ Len(queue') \in {0, 1}
               /\ DOMAIN queue' = 1..Len(queue')
               /\ loop'.durability = "exit" => queue' = <<>>
    BY <2>2
  <2> QED
    BY <2>1, <2>2 DEF Start, StartQueue
<1>7. MarksInv'
  BY <1>0, <1>1, <1>5, <1>6 DEF MarksInv, Tells
<1>8. OrderInv'
  <2>1. Pre(l.plain, l.plain)
    BY <1>5, PreIsReflexive
  <2>2. \A i, j \in DOMAIN queue' : ~(i < j)
    BY <1>6
  <2> QED
    BY <1>1, <1>6, <2>1, <2>2 DEF OrderInv, Pre
<1>9. Newest(loop.head, loop.plain)' /\ (loop'.head \in DOMAIN stored => stored[loop'.head].plain = l.plain)
  <2>1. CASE c # None /\ loop'.head = c
    BY <1>1, <1>2, <1>4, <2>1 DEF Newest
  <2>2. CASE loop'.head = nextId \/ loop'.head = nextId + 1
    BY <1>1, <1>2, <2>2 DEF Newest
  <2> QED
    BY <1>3, <2>1, <2>2
<1>10. LatestInv'
  BY <1>0, <1>1, <1>5, <1>6, <1>9 DEF LatestInv, Newest
<1>11. StubInv'
  <2>1. ASSUME loop'.initial = None
        PROVE  (\A e \in DOMAIN stored : loop'.empty < e) /\ (\A p \in Queued' : loop'.empty < p.id)
    <3>1. c = None /\ loop'.empty = nextId /\ loop'.head = nextId + 1
      BY <1>1, <1>4, <2>1 DEF Start, StartHead
    <3>2. Latest = None
      BY <3>1 DEF Start
    <3>3. stored = <<>>
      BY <1>2, <3>2, LatestIs
    <3>4. DOMAIN stored = {}
      BY <3>3
    <3> QED
      BY <1>2, <1>6, <3>1, <3>4
  <2> QED
    BY <1>1, <2>1 DEF StubInv
<1> QED
  BY <1>7, <1>8, <1>10, <1>11 DEF History

LEMMA UpdateKeepsHistory ==
    ASSUME ThreadInv, "abandon" \notin Disorder, NEW c \in (DOMAIN stored) \cup {None}, UpdateStarts(c)
    PROVE  History'
<1>0. TypeInv /\ MarksInv /\ LatestInv
  BY DEF ThreadInv, DurableInv, History
<1>1. /\ phase' = "update" /\ inflight' = {} /\ queue' = <<>> /\ stored' = stored /\ nextId' = nextId
      /\ base' = (IF c = None THEN <<>> ELSE stored[c].plain)
      /\ loop'.plain = base' \/ loop'.plain = base' \o <<<<c, 0, runs + 1>>>>
  BY DEF UpdateStarts
<1>2. /\ nextId \in Nat /\ runs + 1 \in Nat /\ c \in Nat /\ c < nextId
      /\ c # None => c \in DOMAIN stored
  BY <1>0, CountsAreNumbers, StoredAreIds DEF IsId, Ids, None
<1>3. Tells(base', c) /\ base' \in Seq(Marks)
  BY <1>0, <1>1, <1>2, NothingTells DEF MarksInv, Tells
<1>4. Tells(loop'.plain, nextId) /\ Pre(base', loop'.plain)
  <2>1. CASE loop'.plain = base'
    BY <1>2, <1>3, <2>1, TellsLater, PreIsReflexive
  <2>2. CASE loop'.plain = base' \o <<<<c, 0, runs + 1>>>>
    <3> DEFINE t == <<<<c, 0, runs + 1>>>>
    <3>1. t \in Seq(Marks) /\ Once(t) /\ \A i \in 1..Len(t) : t[i][1] = c
      BY <1>2 DEF Marks, Once
    <3> HIDE DEF t
    <3>2. Pre(base', base' \o t) /\ Tells(base' \o t, c + 1)
      <4> DEFINE s == base'
      <4>1. Tells(s, c)
        BY <1>3
      <4> HIDE DEF s
      <4>2. Pre(s, s \o t) /\ Tells(s \o t, c + 1)
        BY <1>2, <3>1, <4>1, TellsMore
      <4> QED
        BY <4>2 DEF s
    <3>3. Tells(base' \o t, nextId)
      BY <1>2, <3>2, TellsLater
    <3> QED
      BY <2>2, <3>2, <3>3 DEF t
  <2> QED
    BY <1>1, <2>1, <2>2
<1>5. Queued' = {} /\ DOMAIN queue' = {}
  BY <1>1 DEF Queued
<1>6. phase' \notin Running /\ phase' \notin Live
  BY <1>1 DEF Running, Live
<1>7. MarksInv'
  BY <1>0, <1>1, <1>3, <1>4, <1>5, <1>6 DEF MarksInv, Tells
<1>8. OrderInv'
  BY <1>1, <1>4, <1>5, <1>6 DEF OrderInv, Pre
<1>9. LatestInv' /\ StubInv'
  BY <1>0, <1>1, <1>5, <1>6 DEF LatestInv, StubInv
<1> QED
  BY <1>7, <1>8, <1>9 DEF History

\* The rows of the superstep that is applied.
LEMMA CurrentIsSuperstep ==
    ASSUME TypeInv, RowsInv, phase \in Running
    PROVE  Superstep(Current(loop.pending), loop.head)
<1> DEFINE rows == Current(loop.pending)
           taskOf == [w \in rows |-> w.task]
<1>1. Tasks \subseteq Nat /\ IsFiniteSet(Tasks) /\ loop.head \in Nat
  BY CountsAreNumbers, CheckpointAssumption DEF TypeInv, LoopTyped, IsId, Ids
<1>2. \A w \in rows : /\ w \in loop.pending /\ w.group = Own /\ w.of = loop.head /\ w.task \in Tasks
                      /\ w.task \in Nat /\ IsMarked(w)
  BY <1>1 DEF Current, RowsInv
<1>3. \A v, w \in rows : v.task = w.task => v = w
  BY DEF RowsInv
<1>4. Own \in Int /\ loop.head \in Int
  BY <1>1, CheckpointAssumption DEF Own
<1>5. \A v, w \in rows : Before(v, w) <=> v.task < w.task
  BY <1>2, <1>4 DEF Before
<1>6. IsFiniteSet(rows)
  <2>1. taskOf \in Injection(rows, Tasks)
    <3>1. taskOf \in [rows -> Tasks] /\ \A v, w \in rows : taskOf[v] = taskOf[w] => v = w
      BY <1>2, <1>3
    <3> QED
      BY <3>1 DEF Injection, IsInjective
  <2> QED
    BY <1>1, <2>1, FS_Injection
<1> HIDE DEF rows
<1>7. Numbered(rows)
  BY <1>2, <1>3, <1>5, <1>6 DEF Numbered
<1> QED
  BY <1>1, <1>2, <1>7 DEF Superstep, rows

LEMMA AppliesKeepsHistory ==
    ASSUME ThreadInv, Applies
    PROVE  History'
<1> DEFINE more == Deltas(Current(loop.pending))
<1>0. TypeInv /\ RowsInv /\ MarksInv /\ OrderInv /\ LatestInv /\ StubInv /\ phase \in Running /\ phase \in Live
  BY DEF ThreadInv, DurableInv, History, Applies, Running, Live
<1>1. /\ stored' = stored /\ base' = base /\ inflight' = inflight /\ nextId' = nextId + 1
      /\ phase' \in Live /\ phase' # "update"
      /\ loop'.head = nextId /\ loop'.plain = loop.plain \o more
      /\ loop'.initial = loop.initial /\ loop'.empty = loop.empty /\ loop'.durability = loop.durability
  BY DEF Applies, Live
<1>2. /\ nextId \in Nat /\ loop.head \in Nat /\ loop.head < nextId
      /\ loop.empty \in Nat /\ loop.empty < nextId
      /\ \A i \in DOMAIN stored : i \in Nat /\ i < nextId
      /\ \A c \in Queued : c.id \in Nat /\ c.id < nextId
      /\ queue \in Seq(Queued)
  BY <1>0, CountsAreNumbers, StoredAreIds DEF TypeInv, LoopTyped, CallsTyped, IsCheckpoint, IsId, Ids
<1>3. more \in Seq(Marks) /\ Once(more) /\ \A i \in 1..Len(more) : more[i][1] = loop.head
  BY <1>0, CurrentIsSuperstep, DeltasOnce
<1> HIDE DEF more
<1>4. Tells(loop.plain, loop.head) /\ loop.plain \in Seq(Marks)
  BY <1>0 DEF MarksInv, Tells
<1>5. Pre(loop.plain, loop'.plain) /\ Tells(loop'.plain, nextId) /\ loop'.plain \in Seq(Marks)
  <2> DEFINE s == loop.plain
  <2>1. Tells(s, loop.head)
    BY <1>4
  <2> HIDE DEF s
  <2>2. s \o more \in Seq(Marks) /\ Pre(s, s \o more) /\ Tells(s \o more, loop.head + 1)
    BY SMTT(30), <1>2, <1>3, <2>1, TellsMore
  <2>3. Tells(s \o more, nextId)
    BY <1>2, <2>2, TellsLater
  <2> QED
    BY <1>1, <2>2, <2>3 DEF s
<1>6. /\ base \in Seq(Marks) /\ Pre(base, loop.plain)
      /\ \A c \in Queued : c.plain \in Seq(Marks) /\ Pre(c.plain, loop.plain)
  BY <1>0 DEF MarksInv, OrderInv, Tells
<1>7. /\ Pre(base, loop'.plain)
      /\ \A c \in Queued : Pre(c.plain, loop'.plain)
  BY <1>4, <1>5, <1>6, PreIsTransitive
<1>8. Pre(loop'.plain, loop'.plain)
  BY <1>5, PreIsReflexive
<1>9. \/ queue' = queue
      \/ /\ loop.durability # "exit"
         /\ \E c : /\ c.id = nextId /\ c.plain = loop'.plain
                   /\ Queued' = Queued \cup {c} /\ queue' \in Seq(Queued') /\ queue'[Len(queue')] = c
                   /\ Len(queue') = Len(queue) + 1
                   /\ \A i \in 1..Len(queue) : queue'[i] = queue[i]
  BY DEF Applies
<1>10. \A c \in Queued' : c \in Queued \/ (c.id = nextId /\ c.plain = loop'.plain)
  BY <1>9 DEF Queued
<1>11. MarksInv'
  BY <1>0, <1>1, <1>5, <1>6, <1>10 DEF MarksInv, Tells
<1>12. OrderInv'
  <2>1. (\A i, j \in DOMAIN queue : i < j => Pre(queue[i].plain, queue[j].plain) /\ queue[i].id < queue[j].id)'
    <3>1. CASE queue' = queue
      BY <1>0, <3>1 DEF OrderInv, Pre
    <3>2. ASSUME NEW c, c.id = nextId, c.plain = loop'.plain, queue'[Len(queue')] = c,
                 Queued' = Queued \cup {c}, queue' \in Seq(Queued'),
                 Len(queue') = Len(queue) + 1, \A i \in 1..Len(queue) : queue'[i] = queue[i],
                 NEW i \in DOMAIN queue', NEW j \in DOMAIN queue', i < j
          PROVE  Pre(queue'[i].plain, queue'[j].plain) /\ queue'[i].id < queue'[j].id
      <4>1. /\ Len(queue) \in Nat /\ DOMAIN queue = 1..Len(queue) /\ DOMAIN queue' = 1..Len(queue')
            /\ \A k \in 1..Len(queue) : queue[k] \in Queued
        BY <1>2, <3>2
      <4>2. i \in 1..Len(queue) /\ queue'[i] = queue[i] /\ queue[i] \in Queued
        BY <3>2, <4>1
      <4>3. CASE j \in 1..Len(queue)
        BY <1>0, <3>2, <4>1, <4>2, <4>3 DEF OrderInv
      <4>4. CASE j = Len(queue) + 1
        BY <1>2, <1>7, <3>2, <4>2, <4>4
      <4> QED
        BY <3>2, <4>1, <4>3, <4>4
    <3>3. CASE queue' # queue
      BY <1>9, <3>2, <3>3 DEF Pre
    <3> QED
      BY <3>1, <3>3
  <2>2. (\A c \in Queued : Pre(base, c.plain) /\ Pre(c.plain, loop.plain))'
    BY <1>0, <1>1, <1>7, <1>8, <1>10 DEF OrderInv, Pre
  <2>3. (Pre(base, loop.plain))'
    BY <1>1, <1>7 DEF Pre
  <2>4. loop'.durability = "exit" => queue' = <<>>
    BY <1>0, <1>1, <1>9 DEF OrderInv
  <2> QED
    BY <2>1, <2>2, <2>3, <2>4 DEF OrderInv
<1>13. LatestInv'
  <2>1. nextId \notin DOMAIN stored
    BY <1>2
  <2>2. (Newest(loop.head, loop.plain) /\ \A c \in Queued : c.id <= loop.head)'
    BY <1>1, <1>2, <1>10 DEF Newest
  <2>3. \A c \in Queued' : Newest(c.id, c.plain)'
    BY SMTT(30), <1>0, <1>1, <1>2, <1>10 DEF LatestInv, Newest
  <2>4. \A c \in Queued' : c.id \in DOMAIN stored => stored[c.id].plain = c.plain
    BY <1>0, <1>10, <2>1 DEF LatestInv
  <2> QED
    BY <1>0, <1>1, <2>2, <2>3, <2>4 DEF LatestInv
<1>14. StubInv'
  BY <1>0, <1>1, <1>2, <1>10 DEF StubInv
<1> QED
  BY <1>11, <1>12, <1>13, <1>14 DEF History

LEMMA FinishesKeepsHistory ==
    ASSUME ThreadInv, Finishes
    PROVE  History'
<1>0. /\ TypeInv /\ HeadIsPlain /\ MarksInv /\ OrderInv /\ LatestInv /\ StubInv
      /\ phase \in Live /\ phase \in Running
  BY DEF ThreadInv, DurableInv, HandedOver, History, Finishes, Running, Live
<1>1. /\ phase' = "drain" /\ phase' \notin Live /\ phase' \in Running
      /\ stored' = stored /\ base' = base /\ nextId' = nextId
      /\ loop'.head = loop.head /\ loop'.plain = loop.plain /\ loop'.initial = loop.initial
      /\ loop'.empty = loop.empty /\ loop'.durability = loop.durability
  BY DEF Finishes, Live, Running
<1>2. CASE loop.durability # "exit"
  <2>1. loop' = loop /\ queue' = queue /\ inflight' = inflight
    BY <1>2 DEF Finishes
  <2>2. Dwindles
    BY <1>0, <1>1, <2>1 DEF Dwindles
  <2> QED
    BY <2>2, DwindlesKeeps DEF ThreadInv
<1>3. CASE loop.durability = "exit"
  <2>1. queue = <<>> /\ Queued = {}
    BY <1>0, <1>3 DEF OrderInv, Queued
  <2>2. /\ \A c \in Queued' : c.id = loop.head /\ c.plain = loop.plain
        /\ DOMAIN queue' = 1..Len(queue') /\ Len(queue') \in {0, 1}
    <3>1. CASE rejected.chain
      BY <1>3, <2>1, <3>1 DEF Finishes, Queued
    <3>2. ASSUME NEW c, c.id = loop.head, c.plain = loop.plain, Queued' = Queued \cup {c},
                 queue' \in Seq(Queued'), Len(queue') = Len(queue) + 1
          PROVE  /\ \A e \in Queued' : e.id = loop.head /\ e.plain = loop.plain
                 /\ DOMAIN queue' = 1..Len(queue') /\ Len(queue') \in {0, 1}
      BY <2>1, <3>2
    <3> QED
      BY <1>3, <3>1, <3>2 DEF Finishes
  <2>3. \A k \in inflight' : k.op = "put" =>
            loop.initial = None /\ k.row.id = loop.empty /\ k.row.plain = <<>>
    BY <1>0, <1>3 DEF Finishes, StubInv
  <2>4. /\ loop.initial = None => loop.empty < loop.head
        /\ loop.empty \in Nat
        /\ \A i \in DOMAIN stored : i \in Nat
    BY <1>0, CountsAreNumbers, StoredAreIds DEF HeadIsPlain, TypeInv, LoopTyped, IsId, Ids
  <2>5. MarksInv'
    BY <1>0, <1>1, <2>2 DEF MarksInv, Tells
  <2>6. OrderInv'
    BY <1>0, <1>1, <2>2 DEF OrderInv, Pre
  <2>7. LatestInv'
    BY <1>0, <1>1, <2>2 DEF LatestInv, Newest, HeadIsPlain
  <2>8. StubInv'
    <3>1. ASSUME NEW k \in inflight', k.op = "put"
          PROVE  /\ \A d \in DOMAIN stored : k.row.id <= d /\ d # k.row.id
                 /\ \A c \in Queued' : k.row.id < c.id
                 /\ \A j \in inflight' : j.op = "put" => j.row.id = k.row.id
      <4>1. loop.initial = None /\ k.row.id = loop.empty
        BY <2>3, <3>1
      <4>2. \A d \in DOMAIN stored : loop.empty < d
        BY <1>0, <4>1 DEF StubInv
      <4> QED
        BY <2>2, <2>3, <2>4, <4>1, <4>2
    <3> QED
      BY <1>1, <2>3, <3>1 DEF StubInv
  <2> QED
    BY <2>5, <2>6, <2>7, <2>8 DEF History
<1> QED
  BY <1>2, <1>3

LEMMA UpdatesKeepsHistory ==
    ASSUME ThreadInv, Updates
    PROVE  History'
<1>0. TypeInv /\ MarksInv
  BY DEF ThreadInv, DurableInv, History
<1>1. /\ phase = "update" /\ phase' = "idle" /\ phase' \notin Live /\ phase' \notin Running
      /\ queue' = <<>> /\ inflight' = {} /\ base' = loop.plain
  BY <1>0 DEF Updates, TypeInv, Quiet, Live, Running
<1>2. PICK c : c.id = nextId /\ c.plain = loop.plain /\ stored' = Put(stored, c)
  BY DEF Updates
<1>3. /\ DOMAIN stored' = (DOMAIN stored) \cup {nextId} /\ stored'[nextId] = c
      /\ \A i \in DOMAIN stored : i # nextId => stored'[i] = stored[i]
  BY <1>2 DEF Put
<1>4. Tells(loop.plain, nextId) /\ loop.plain \in Seq(Marks)
  BY <1>0, <1>1 DEF MarksInv, Tells
<1>5. \A i \in DOMAIN stored' : Tells(stored'[i].plain, i)
  BY <1>0, <1>2, <1>3, <1>4 DEF MarksInv
<1>6. Queued' = {} /\ DOMAIN queue' = {}
  BY <1>1 DEF Queued
<1>7. MarksInv'
  BY <1>1, <1>4, <1>5, <1>6 DEF MarksInv, Tells
<1>8. OrderInv' /\ LatestInv' /\ StubInv'
  BY <1>1, <1>3, <1>6 DEF OrderInv, LatestInv, StubInv
<1> QED
  BY <1>7, <1>8 DEF History

\* The next put, and those after it.
LEMMA NextPut ==
    ASSUME TypeInv, OrderInv, MarksInv, PutLands
    PROVE  LET c == Head(queue) IN
           /\ c \in Queued /\ c.id \in Nat /\ c.plain \in Seq(Marks) /\ Tells(c.plain, c.id)
           /\ DOMAIN stored' = (DOMAIN stored) \cup {c.id} /\ stored'[c.id] = c
           /\ \A i \in DOMAIN stored : i # c.id => stored'[i] = stored[i]
           /\ Queued' \subseteq Queued
           /\ \A e \in Queued' : c.id < e.id /\ e.id \in Nat /\ e.plain \in Seq(Marks) /\ Pre(c.plain, e.plain)
           /\ \A i, j \in DOMAIN queue' : i < j => /\ Pre(queue'[i].plain, queue'[j].plain)
                                                   /\ queue'[i].id < queue'[j].id
<1> DEFINE c == Head(queue)
<1>1. /\ queue # <<>> /\ queue' = Tail(queue) /\ stored' = Put(stored, Head(queue)) /\ queue \in Seq(Queued)
  BY DEF PutLands, TypeInv, CallsTyped
<1>2. Queued = Queued' \cup {c}
  BY <1>1, QueueMoves
<1>3. \A e \in Queued : e.id \in Nat /\ e.plain \in Seq(Marks) /\ Tells(e.plain, e.id)
  BY CountsAreNumbers DEF TypeInv, CallsTyped, IsCheckpoint, IsId, Ids, MarksInv, Tells
<1>4. /\ Len(queue) \in Nat /\ DOMAIN queue = 1..Len(queue) /\ 1 \in DOMAIN queue /\ queue[1] = c
      /\ DOMAIN queue' = 1..(Len(queue) - 1)
      /\ \A i \in DOMAIN queue' : i + 1 \in DOMAIN queue /\ queue'[i] = queue[i + 1]
  <2>1. Len(queue) \in Nat /\ DOMAIN queue = 1..Len(queue) /\ Len(queue) > 0
    BY <1>1, EmptySeq, LenProperties
  <2>2. /\ Tail(queue) \in Seq(Queued) /\ Len(Tail(queue)) = Len(queue) - 1
        /\ \A i \in 1..Len(Tail(queue)) : Tail(queue)[i] = queue[i + 1]
    BY <1>1, HeadTailProperties
  <2>3. DOMAIN queue' = 1..(Len(queue) - 1)
    BY <1>1, <2>2, LenProperties
  <2>4. queue[1] = c
    BY <1>1
  <2> QED
    BY <1>1, <2>1, <2>2, <2>3, <2>4
<1>5. \A i, j \in DOMAIN queue : i < j => Pre(queue[i].plain, queue[j].plain) /\ queue[i].id < queue[j].id
  BY DEF OrderInv
<1>6. \A e \in Queued' : c.id < e.id /\ Pre(c.plain, e.plain)
  <2>1. ASSUME NEW i \in DOMAIN queue' PROVE c.id < queue'[i].id /\ Pre(c.plain, queue'[i].plain)
    <3>1. 1 < i + 1 /\ i + 1 \in DOMAIN queue
      BY <1>4
    <3> HIDE DEF c
    <3> QED
      BY <1>4, <1>5, <3>1
  <2> HIDE DEF c
  <2> QED
    BY <2>1 DEF Queued
<1>7. \A i, j \in DOMAIN queue' : i < j => /\ Pre(queue'[i].plain, queue'[j].plain)
                                           /\ queue'[i].id < queue'[j].id
  <2>1. ASSUME NEW i \in DOMAIN queue', NEW j \in DOMAIN queue', i < j
        PROVE  Pre(queue'[i].plain, queue'[j].plain) /\ queue'[i].id < queue'[j].id
    <3>1. i + 1 < j + 1 /\ i + 1 \in DOMAIN queue /\ j + 1 \in DOMAIN queue
      BY <1>4, <2>1
    <3> QED
      BY <1>4, <1>5, <3>1
  <2> QED
    BY <2>1
<1>8. /\ DOMAIN stored' = (DOMAIN stored) \cup {c.id} /\ stored'[c.id] = c
      /\ \A i \in DOMAIN stored : i # c.id => stored'[i] = stored[i]
  BY <1>1 DEF Put
<1> HIDE DEF c
<1>9. /\ c \in Queued /\ c.id \in Nat /\ c.plain \in Seq(Marks) /\ Tells(c.plain, c.id)
      /\ Queued' \subseteq Queued
      /\ \A e \in Queued' : c.id < e.id /\ e.id \in Nat /\ e.plain \in Seq(Marks) /\ Pre(c.plain, e.plain)
  BY <1>2, <1>3, <1>6
<1> QED
  BY <1>7, <1>8, <1>9 DEF c

LEMMA PutLandsKeepsHistory ==
    ASSUME ThreadInv, PutLands
    PROVE  History'
<1> DEFINE c == Head(queue)
<1>0. TypeInv /\ MarksInv /\ OrderInv /\ LatestInv /\ StubInv
  BY DEF ThreadInv, DurableInv, History
<1>1. /\ queue # <<>> /\ base' = c.plain /\ phase' = phase /\ loop' = loop /\ inflight' = inflight
      /\ nextId' = nextId
  BY DEF PutLands, runVars, countVars
<1>2. /\ c \in Queued /\ c.id \in Nat /\ c.plain \in Seq(Marks) /\ Tells(c.plain, c.id)
      /\ DOMAIN stored' = (DOMAIN stored) \cup {c.id} /\ stored'[c.id] = c
      /\ \A i \in DOMAIN stored : i # c.id => stored'[i] = stored[i]
      /\ Queued' \subseteq Queued
      /\ \A e \in Queued' : c.id < e.id /\ e.id \in Nat /\ e.plain \in Seq(Marks) /\ Pre(c.plain, e.plain)
      /\ \A i, j \in DOMAIN queue' : i < j => /\ Pre(queue'[i].plain, queue'[j].plain)
                                              /\ queue'[i].id < queue'[j].id
  BY <1>0, NextPut
<1> HIDE DEF c
<1>3. /\ phase # "update" /\ (phase \in Live => phase \in Running /\ loop.durability # "exit")
      /\ base \in Seq(Marks) /\ Pre(base, c.plain)
      /\ phase \in Live => c.id <= loop.head /\ Pre(c.plain, loop.plain)
      /\ phase \in Running => loop.plain \in Seq(Marks) /\ loop.head \in Nat
      /\ \A i \in DOMAIN stored : i \in Nat
  <2>1. phase # "update" /\ (phase \in Live => phase \in Running /\ loop.durability # "exit")
    BY <1>0, <1>1 DEF TypeInv, Quiet, OrderInv, Live, Running
  <2>2. /\ base \in Seq(Marks) /\ Pre(base, c.plain)
        /\ phase \in Live => c.id <= loop.head /\ Pre(c.plain, loop.plain)
    BY <1>0, <1>2 DEF MarksInv, OrderInv, LatestInv
  <2>3. /\ phase \in Running => loop.plain \in Seq(Marks) /\ loop.head \in Nat
        /\ \A i \in DOMAIN stored : i \in Nat
    BY <1>0, CountsAreNumbers, StoredAreIds DEF MarksInv, Tells, TypeInv, LoopTyped, IsId, Ids
  <2> QED
    BY <2>1, <2>2, <2>3
\* A state that was durable before and comes after the one that is put is this one.
<1>4. ASSUME NEW s \in Seq(Marks), Pre(c.plain, s), s = base
      PROVE  s = c.plain
  BY <1>2, <1>3, <1>4, PreIsAntisymmetric
<1>5. MarksInv'
  <2>1. \A i \in DOMAIN stored' : Tells(stored'[i].plain, i)
    BY <1>0, <1>2 DEF MarksInv
  <2> QED
    BY <1>0, <1>1, <1>2, <2>1 DEF MarksInv, Tells
<1>6. OrderInv'
  <2>1. (phase \in Live \cup {"update"} => Pre(base, loop.plain))'
    BY <1>1, <1>3 DEF Pre
  <2>2. (\A e \in Queued : Pre(base, e.plain) /\ (phase \in Live => Pre(e.plain, loop.plain)))'
    BY <1>0, <1>1, <1>2 DEF OrderInv, Pre
  <2>3. (\A i, j \in DOMAIN queue : i < j => Pre(queue[i].plain, queue[j].plain) /\ queue[i].id < queue[j].id)'
    BY <1>2 DEF Pre
  <2> QED
    BY <1>1, <1>3, <2>1, <2>2, <2>3 DEF OrderInv
<1>7. \A e \in Queued' : Newest(e.id, e.plain)' /\ (e.id \in DOMAIN stored' => stored'[e.id].plain = e.plain)
  <2> SUFFICES ASSUME NEW e \in Queued'
               PROVE  Newest(e.id, e.plain)' /\ (e.id \in DOMAIN stored' => stored'[e.id].plain = e.plain)
    OBVIOUS
  <2>1. /\ e \in Queued /\ c.id < e.id /\ e.id \in Nat /\ e.plain \in Seq(Marks) /\ Pre(c.plain, e.plain)
        /\ Newest(e.id, e.plain) /\ (e.id \in DOMAIN stored => stored[e.id].plain = e.plain)
    BY <1>0, <1>2 DEF LatestInv
  <2>2. e.id \in DOMAIN stored' => stored'[e.id].plain = e.plain
    BY <1>2, <2>1
  <2>3. CASE \A d \in DOMAIN stored : d <= e.id
    BY <1>2, <2>1, <2>2, <2>3 DEF Newest
  <2>4. CASE e.id \in DOMAIN stored /\ e.plain = base
    <3>1. e.plain = c.plain
      BY <1>4, <2>1, <2>4
    <3> QED
      BY <1>1, <1>2, <2>2, <2>4, <3>1 DEF Newest
  <2> QED
    BY <2>1, <2>3, <2>4 DEF Newest
<1>8. ASSUME phase \in Live
      PROVE  Newest(loop.head, loop.plain)'
  <2>1. /\ Newest(loop.head, loop.plain) /\ Pre(c.plain, loop.plain) /\ c.id <= loop.head
        /\ loop.plain \in Seq(Marks) /\ loop.head \in Nat
    BY <1>0, <1>3, <1>8 DEF LatestInv
  <2>2. CASE \A d \in DOMAIN stored : d <= loop.head
    BY <1>1, <1>2, <2>1, <2>2 DEF Newest
  <2>3. CASE loop.head \in DOMAIN stored /\ loop.plain = base
    <3>1. loop.plain = c.plain
      BY <1>4, <2>1, <2>3
    <3> QED
      BY <1>1, <1>2, <2>3, <3>1 DEF Newest
  <2> QED
    BY <2>1, <2>2, <2>3 DEF Newest
<1>9. LatestInv'
  BY <1>0, <1>1, <1>2, <1>7, <1>8 DEF LatestInv
<1>10. StubInv'
  <2>1. ASSUME NEW k \in inflight, k.op = "put"
        PROVE  \A d \in DOMAIN stored' : k.row.id <= d /\ (d = k.row.id => stored'[d].plain = <<>>)
    <3>1. k.row.id < c.id /\ k.row.id \in Nat
      BY <1>0, <1>2, <2>1, CountsAreNumbers DEF StubInv, TypeInv, CallsTyped, IsCall, IsCheckpoint, IsId, Ids
    <3> QED
      BY <1>0, <1>2, <2>1, <3>1 DEF StubInv
  <2>2. ASSUME phase \in Live, loop.initial = None
        PROVE  \A d \in DOMAIN stored' : loop.empty < d
    BY <1>0, <1>2, <2>2 DEF StubInv
  <2> QED
    BY <1>0, <1>1, <1>2, <2>1, <2>2 DEF StubInv
<1> QED
  BY <1>5, <1>6, <1>9, <1>10 DEF History

\* The put of the stub adds a checkpoint without state before all others.
StubLands(k) ==
    /\ phase \notin Live /\ k.row.plain = <<>> /\ k.row.id \in Nat
    /\ \A d \in DOMAIN stored : k.row.id <= d /\ (d = k.row.id => stored[d].plain = <<>>)
    /\ DOMAIN stored' = (DOMAIN stored) \cup {k.row.id} /\ stored'[k.row.id] = k.row
    /\ \A i \in DOMAIN stored : i # k.row.id => stored'[i] = stored[i]

LEMMA CallLandsDoes ==
    ASSUME TypeInv, StubInv, NEW k \in inflight, CallLands(k)
    PROVE  /\ inflight' = inflight \ {k} /\ queue' = queue /\ base' = base /\ nextId' = nextId
           /\ phase' = phase /\ loop' = loop
           /\ IF k.op = "put" THEN StubLands(k) ELSE stored' = stored
<1>1. /\ inflight' = inflight \ {k} /\ queue' = queue /\ base' = base /\ nextId' = nextId
      /\ phase' = phase /\ loop' = loop
      /\ IF k.op = "put" THEN stored' = Put(stored, k.row) ELSE stored' = stored
  BY DEF CallLands, runVars, countVars, historyVars
<1>2. ASSUME k.op = "put" PROVE StubLands(k)
  <2>1. /\ phase \notin Live /\ k.row.plain = <<>>
        /\ \A d \in DOMAIN stored : k.row.id <= d /\ (d = k.row.id => stored[d].plain = <<>>)
    BY <1>2 DEF StubInv
  <2>2. k.row.id \in Nat
    BY <1>2, CountsAreNumbers DEF TypeInv, CallsTyped, IsCall, IsCheckpoint, IsId, Ids
  <2>3. /\ DOMAIN stored' = (DOMAIN stored) \cup {k.row.id} /\ stored'[k.row.id] = k.row
        /\ \A i \in DOMAIN stored : i # k.row.id => stored'[i] = stored[i]
    BY <1>1, <1>2 DEF Put
  <2> QED
    BY <2>1, <2>2, <2>3 DEF StubLands
<1> QED
  BY <1>1, <1>2

LEMMA CallLandsKeepsHistory ==
    ASSUME ThreadInv, NEW k \in inflight, CallLands(k)
    PROVE  History'
<1>0. TypeInv /\ MarksInv /\ OrderInv /\ LatestInv /\ StubInv
  BY DEF ThreadInv, DurableInv, History
<1>1. /\ inflight' = inflight \ {k} /\ queue' = queue /\ base' = base /\ nextId' = nextId
      /\ phase' = phase /\ loop' = loop
      /\ IF k.op = "put" THEN StubLands(k) ELSE stored' = stored
  BY <1>0, CallLandsDoes
<1>2. CASE k.op # "put"
  <2>1. Dwindles
    BY <1>1, <1>2 DEF Dwindles
  <2> QED
    BY <2>1, DwindlesKeeps DEF ThreadInv
<1>3. CASE k.op = "put"
  <2>0. StubLands(k)
    BY <1>1, <1>3
  <2>1. Queued' = Queued
    BY <1>1 DEF Queued
  <2>2. \A i \in DOMAIN stored' : Tells(stored'[i].plain, i)
    BY <1>0, <2>0, NothingTells DEF MarksInv, StubLands
  <2>3. MarksInv'
    BY <1>0, <1>1, <2>1, <2>2 DEF MarksInv, Tells
  <2>4. OrderInv'
    BY <1>0, <1>1, <2>1 DEF OrderInv, Pre
  <2>5. \A c \in Queued : /\ Newest(c.id, c.plain)'
                          /\ (c.id \in DOMAIN stored' => stored'[c.id].plain = c.plain)
    <3>1. TAKE c \in Queued
    <3>2. /\ k.row.id < c.id /\ c.id \in Nat /\ k.row.id \in Nat
          /\ Newest(c.id, c.plain) /\ (c.id \in DOMAIN stored => stored[c.id].plain = c.plain)
      BY <1>0, <1>3, <2>0, CountsAreNumbers
         DEF StubInv, LatestInv, StubLands, TypeInv, CallsTyped, IsCheckpoint, IsId, Ids
    <3> QED
      BY <1>1, <2>0, <3>2 DEF StubLands, Newest
  <2>6. LatestInv'
    BY <1>1, <2>0, <2>1, <2>5 DEF LatestInv, StubLands
  <2>7. StubInv'
    <3>1. \A j \in inflight' : j.op = "put" =>
              /\ j.row.id = k.row.id /\ j.row.plain = <<>>
              /\ \A c \in Queued : j.row.id < c.id
              /\ \A i \in inflight' : i.op = "put" => i.row.id = j.row.id
      BY <1>0, <1>1, <1>3 DEF StubInv
    <3>2. \A d \in DOMAIN stored' : k.row.id <= d /\ (d = k.row.id => stored'[d].plain = <<>>)
      BY <2>0 DEF StubLands
    <3> QED
      BY <1>1, <2>0, <2>1, <3>1, <3>2 DEF StubInv, StubLands
  <2> QED
    BY <2>3, <2>4, <2>6, <2>7 DEF History
<1> QED
  BY <1>2, <1>3

-----------------------------------------------------------------------------
LEMMA InitIsThread ==
    ASSUME Init
    PROVE  ThreadInv
<1>1. /\ phase = "idle" /\ phase \notin Running /\ phase \notin Live /\ returned = FALSE
      /\ DOMAIN stored = {} /\ stored = <<>> /\ Queued = {} /\ inflight = {} /\ writes = {}
      /\ queue = <<>> /\ DOMAIN queue = {} /\ base = <<>>
      /\ loop.pending = {} /\ loop.exitWrites = {}
  BY DEF Init, Running, Live, Queued, NoLoop
<1>2. HandedOver
  BY <1>1 DEF HandedOver, HeadIsPlain, HeadIsHandedOver, WritesAreHandedOver, CurrentAtHead, HandsOver,
              ReturnedIsDurable
<1>3. RowsInv
  BY <1>1 DEF RowsInv
<1>4. MarksInv
  BY <1>1 DEF MarksInv
<1>5. OrderInv /\ LatestInv /\ StubInv
  BY <1>1 DEF OrderInv, LatestInv, StubInv
<1> QED
  BY <1>2, <1>3, <1>4, <1>5, InitIsTyped DEF ThreadInv, DurableInv, History

LEMMA StepsKeepThread ==
    ASSUME ThreadInv, "abandon" \notin Disorder, Steps
    PROVE  ThreadInv'
<1>1. DurableInv' /\ RowsInv'
  BY StepsHandOver, StepsKeepRows DEF ThreadInv, DurableInv
<1> SUFFICES History'
  BY <1>1 DEF ThreadInv
<1>2. CASE Prepare \/ Settle
  <2>1. /\ stored' = stored /\ base' = base /\ nextId' = nextId /\ queue' = queue /\ inflight' = inflight
        /\ loop' = loop /\ phase \in Live /\ phase \in Running /\ phase' # "update"
    BY <1>2 DEF Prepare, Settle, saverVars, pendingVars, countVars, historyVars, Live, Running
  <2> QED
    BY <2>1, DwindlesKeeps DEF Dwindles, ThreadInv
<1>3. CASE Return \/ Crash
  <2>1. /\ stored' = stored /\ base' = base /\ nextId' = nextId
        /\ queue' = queue \/ queue' = <<>>
        /\ \A k \in inflight' : k \in inflight
        /\ phase' = "idle" /\ phase' \notin Live /\ phase' \notin Running
    BY <1>3 DEF Return, Crash, saverVars, countVars, Live, Running
  <2> QED
    BY <2>1, DwindlesKeeps DEF Dwindles, ThreadInv
<1>4. CASE PutIsRejected \/ (\E k \in inflight : CallIsRejected(k)) \/ UNCHANGED vars
  <2>1. /\ stored' = stored /\ base' = base /\ nextId' = nextId
        /\ queue' = queue \/ queue' = <<>>
        /\ \A k \in inflight' : k \in inflight
        /\ phase' = phase /\ loop' = loop
    BY <1>4, StutterStays DEF PutIsRejected, CallIsRejected, saverVars, runVars, historyVars
  <2> QED
    BY <2>1, DwindlesKeeps DEF Dwindles, ThreadInv
<1>5. ASSUME NEW t, Succeeds(t)
      PROVE  History'
  <2>1. /\ stored' = stored /\ base' = base /\ nextId' = nextId /\ queue' = queue
        /\ \A k \in inflight' : k.op = "put" => k \in inflight
        /\ phase' = phase
        /\ loop'.head = loop.head /\ loop'.plain = loop.plain /\ loop'.initial = loop.initial
        /\ loop'.empty = loop.empty /\ loop'.durability = loop.durability
    BY <1>5 DEF Succeeds
  <2> QED
    BY <2>1, DwindlesKeeps DEF Dwindles, ThreadInv
<1> QED
  BY <1>2, <1>3, <1>4, <1>5, StartKeepsHistory, UpdateKeepsHistory, AppliesKeepsHistory,
     FinishesKeepsHistory, UpdatesKeepsHistory, PutLandsKeepsHistory, CallLandsKeepsHistory DEF Steps

-----------------------------------------------------------------------------
(* The refinement, step by step.                                              *)

\* What the thread is to ThreadHistory.
Value == IF stored = <<>> THEN <<>> ELSE stored[Latest].plain
Past == {<<>>} \cup {stored[c].plain : c \in DOMAIN stored}

LEMMA StoredStays ==
    ASSUME stored' = stored
    PROVE  Value' = Value /\ Past' = Past
  BY DEF Value, Past, Latest

LEMMA BeginsThread ==
    ASSUME stored' = stored, base' \in Past
    PROVE  Thread!Begin
  BY StoredStays DEF Value, Past, Thread!Begin

LEMMA StuttersThread ==
    ASSUME Value' = Value, Past' = Past, base' = base
    PROVE  UNCHANGED Thread!vars
  BY DEF Value, Past, Thread!vars

LEMMA CommitsThread ==
    ASSUME base \in Seq(Marks), base' \in Seq(Marks), Pre(base, base'), Once(base'),
           Value' = base', Past' = Past \cup {base'}
    PROVE  Thread!Commit
<1> DEFINE u == base
           v == base'
<1>1. u \in Seq(Marks) /\ v \in Seq(Marks) /\ Pre(u, v) /\ Once(v)
  OBVIOUS
<1>2. Value' = v /\ Past' = Past \cup {v}
  OBVIOUS
<1> HIDE DEF u, v
<1>3. Thread!IsPrefix(u, v)
  BY <1>1 DEF Pre, Thread!IsPrefix
<1>4. Thread!IsInjective(v)
  BY <1>1 DEF Once, Thread!IsInjective
<1>5. Thread!Extends(v, u)
  BY <1>3, <1>4 DEF Thread!Extends
<1> QED
  BY <1>2, <1>5 DEF u, v, Value, Past, Thread!Commit

\* A checkpoint that is put adds its state, which becomes the thread's if it is the latest.
LEMMA PutAdds ==
    ASSUME ThreadInv, ThreadInv', NEW c, c.id \in Nat,
           DOMAIN stored' = (DOMAIN stored) \cup {c.id}, stored'[c.id] = c,
           \A i \in DOMAIN stored : i # c.id => stored'[i] = stored[i]
    PROVE  /\ c.id \notin DOMAIN stored => Past' = Past \cup {c.plain}
           /\ c.id \in DOMAIN stored /\ stored[c.id].plain = c.plain =>
                  Past' = Past /\ Value' = Value /\ c.plain \in Past
           /\ (\A d \in DOMAIN stored : d <= c.id) => Value' = c.plain
<1>1. \A d \in DOMAIN stored : d \in Nat
  BY CountsAreNumbers, StoredAreIds DEF ThreadInv, DurableInv, IsId, Ids
<1>2. stored' # <<>>
  <2>1. c.id \in DOMAIN stored'
    OBVIOUS
  <2>2. DOMAIN <<>> = {}
    OBVIOUS
  <2> QED
    BY <2>1, <2>2
<1>3. ASSUME c.id \notin DOMAIN stored PROVE Past' = Past \cup {c.plain}
  BY <1>3 DEF Past
<1>4. ASSUME c.id \in DOMAIN stored, stored[c.id].plain = c.plain
      PROVE  Past' = Past /\ Value' = Value /\ c.plain \in Past
  <2>1. DOMAIN stored' = DOMAIN stored /\ \A i \in DOMAIN stored : stored'[i].plain = stored[i].plain
    BY <1>4
  <2>2. stored # <<>>
    <3>1. DOMAIN <<>> = {}
      OBVIOUS
    <3> QED
      BY <1>4, <3>1
  <2>3. Latest' = Latest
    BY <1>2, <2>1, <2>2 DEF Latest
  <2>4. Latest \in DOMAIN stored
    BY <2>2, LatestIs
  <2> QED
    BY <1>2, <1>4, <2>1, <2>2, <2>3, <2>4 DEF Past, Value
<1>5. ASSUME \A d \in DOMAIN stored : d <= c.id PROVE Value' = c.plain
  <2>1. c.id \in DOMAIN stored' /\ (\A d \in DOMAIN stored' : d <= c.id) /\ DOMAIN stored' \subseteq Nat
    BY <1>1, <1>5
  <2>2. Latest' = c.id
    <3>1. Latest' \in DOMAIN stored' /\ \A d \in DOMAIN stored' : d <= Latest'
      BY <1>2, <2>1 DEF Latest
    <3> DEFINE m == Latest'
    <3>2. m \in Nat /\ c.id \in Nat /\ m <= c.id /\ c.id <= m
      BY <2>1, <3>1
    <3> HIDE DEF m
    <3>3. m = c.id
      BY <3>2
    <3> QED
      BY <3>3 DEF m
  <2> QED
    BY <1>2, <2>2 DEF Value
<1> QED
  BY <1>3, <1>4, <1>5

LEMMA StartIsBegin ==
    ASSUME NEW c \in (DOMAIN stored) \cup {None}, NEW l, NEW d, LoadedFields(l, c, d), Start(c, l)
    PROVE  Thread!Begin
<1>1. stored' = stored /\ base' = l.plain
  BY DEF Start, StartFrame
<1>2. l.plain \in Past
  BY DEF LoadedFields, Past
<1> QED
  BY <1>1, <1>2, BeginsThread

LEMMA UpdateIsBegin ==
    ASSUME NEW c \in (DOMAIN stored) \cup {None}, UpdateStarts(c)
    PROVE  Thread!Begin
<1>1. stored' = stored /\ base' = (IF c = None THEN <<>> ELSE stored[c].plain)
  BY DEF UpdateStarts
<1>2. base' \in Past
  BY <1>1 DEF Past
<1> QED
  BY <1>1, <1>2, BeginsThread

LEMMA UpdatesIsCommit ==
    ASSUME ThreadInv, ThreadInv', Updates
    PROVE  Thread!Commit
<1>0. TypeInv /\ MarksInv /\ OrderInv
  BY DEF ThreadInv, DurableInv, History
<1>1. /\ phase = "update" /\ base' = loop.plain
      /\ \E c : c.id = nextId /\ c.plain = loop.plain /\ stored' = Put(stored, c)
  BY DEF Updates
<1>2. PICK c : c.id = nextId /\ c.plain = loop.plain /\ stored' = Put(stored, c)
  BY <1>1
<1>3. /\ base \in Seq(Marks) /\ loop.plain \in Seq(Marks) /\ Once(loop.plain) /\ Pre(base, loop.plain)
  BY <1>0, <1>1 DEF MarksInv, OrderInv, Tells
<1>4. nextId \in Nat /\ nextId \notin DOMAIN stored /\ \A d \in DOMAIN stored : d <= nextId
  BY <1>0, CountsAreNumbers, StoredAreIds DEF IsId, Ids
<1>5. /\ DOMAIN stored' = (DOMAIN stored) \cup {c.id} /\ stored'[c.id] = c
      /\ \A i \in DOMAIN stored : i # c.id => stored'[i] = stored[i]
  BY <1>2 DEF Put
<1>6. Past' = Past \cup {c.plain} /\ Value' = c.plain
  BY <1>2, <1>4, <1>5, PutAdds
<1> QED
  BY <1>1, <1>2, <1>3, <1>6, CommitsThread

LEMMA PutLandsIsCommit ==
    ASSUME ThreadInv, ThreadInv', PutLands
    PROVE  Thread!Commit \/ UNCHANGED Thread!vars
<1> DEFINE c == Head(queue)
<1>0. TypeInv /\ MarksInv /\ OrderInv /\ LatestInv
  BY DEF ThreadInv, DurableInv, History
<1>1. base' = c.plain
  BY DEF PutLands
<1>2. /\ c \in Queued /\ c.id \in Nat /\ c.plain \in Seq(Marks) /\ Tells(c.plain, c.id)
      /\ DOMAIN stored' = (DOMAIN stored) \cup {c.id} /\ stored'[c.id] = c
      /\ \A i \in DOMAIN stored : i # c.id => stored'[i] = stored[i]
  BY <1>0, NextPut
<1> HIDE DEF c
<1>3. /\ base \in Seq(Marks) /\ Pre(base, c.plain) /\ Once(c.plain)
      /\ Newest(c.id, c.plain) /\ (c.id \in DOMAIN stored => stored[c.id].plain = c.plain)
  BY <1>0, <1>2 DEF MarksInv, OrderInv, LatestInv, Tells
<1>4. CASE \A d \in DOMAIN stored : d <= c.id
  <2>1. Value' = c.plain
    BY <1>2, <1>4, PutAdds
  <2>2. Past' = Past \cup {c.plain}
    <3>1. CASE c.id \notin DOMAIN stored
      BY <1>2, <3>1, PutAdds
    <3>2. CASE c.id \in DOMAIN stored
      <4>1. Past' = Past /\ c.plain \in Past
        BY <1>2, <1>3, <3>2, PutAdds
      <4> QED
        BY <4>1
    <3> QED
      BY <3>1, <3>2
  <2>3. Thread!Commit
    BY <1>1, <1>2, <1>3, <2>1, <2>2, CommitsThread
  <2> QED
    BY <2>3
<1>5. CASE c.id \in DOMAIN stored /\ c.plain = base
  <2>1. Past' = Past /\ Value' = Value
    BY <1>2, <1>3, <1>5, PutAdds
  <2>2. base' = base
    BY <1>1, <1>5
  <2> QED
    BY <2>1, <2>2, StuttersThread
<1> QED
  BY <1>3, <1>4, <1>5 DEF Newest

\* The stub is not seen: the thread has other checkpoints, or it says nothing.
LEMMA CallLandsStutters ==
    ASSUME ThreadInv, ThreadInv', NEW k \in inflight, CallLands(k)
    PROVE  UNCHANGED Thread!vars
<1>1. /\ base' = base
      /\ IF k.op = "put" THEN StubLands(k) ELSE stored' = stored
  BY CallLandsDoes DEF ThreadInv, DurableInv, History
<1>2. CASE stored' = stored
  BY <1>1, <1>2, StoredStays, StuttersThread
<1>3. CASE StubLands(k)
  <2> DEFINE c == k.row
  <2>1. /\ c.id \in Nat /\ c.plain = <<>>
        /\ DOMAIN stored' = (DOMAIN stored) \cup {c.id} /\ stored'[c.id] = c
        /\ \A i \in DOMAIN stored : i # c.id => stored'[i] = stored[i]
        /\ \A d \in DOMAIN stored : c.id <= d /\ (d = c.id => stored[d].plain = <<>>)
    BY <1>3 DEF StubLands
  <2>2. \A d \in DOMAIN stored : d \in Nat
    BY CountsAreNumbers, StoredAreIds DEF ThreadInv, DurableInv, IsId, Ids
  <2> HIDE DEF c
  <2>3. CASE c.id \in DOMAIN stored
    <3>1. Past' = Past /\ Value' = Value
      BY <2>1, <2>3, PutAdds
    <3> QED
      BY <1>1, <3>1, StuttersThread
  <2>4. CASE c.id \notin DOMAIN stored
    <3>1. Past' = Past
      <4>1. Past' = Past \cup {c.plain}
        BY <2>1, <2>4, PutAdds
      <4> QED
        BY <2>1, <4>1 DEF Past
    <3>2. CASE stored = <<>>
      <4>1. \A d \in DOMAIN stored : d <= c.id
        BY <3>2
      <4>2. Value' = c.plain
        BY <2>1, <4>1, PutAdds
      <4>3. Value' = Value
        BY <2>1, <3>2, <4>2 DEF Value
      <4> QED
        BY <1>1, <3>1, <4>3, StuttersThread
    <3>3. CASE stored # <<>>
      <4>1. Latest \in DOMAIN stored /\ \A d \in DOMAIN stored : d <= Latest
        BY <3>3, LatestIs
      <4>2. Latest \in DOMAIN stored' /\ \A d \in DOMAIN stored' : d <= Latest
        BY <2>1, <4>1
      <4>3. stored' # <<>> /\ DOMAIN stored' \subseteq Nat
        BY SMTT(30), <2>1, <2>2, <4>2
      <4>4. Latest' = Latest
        <5> DEFINE m == Latest'
                   n == Latest
        <5>1. m \in DOMAIN stored' /\ \A d \in DOMAIN stored' : d <= m
          BY <4>2, <4>3 DEF Latest
        <5>2. n \in DOMAIN stored' /\ \A d \in DOMAIN stored' : d <= n
          BY <4>2
        <5> HIDE DEF m, n
        <5>3. m \in Nat /\ n \in Nat /\ m <= n /\ n <= m
          BY <4>3, <5>1, <5>2
        <5>4. m = n
          BY <5>3
        <5> QED
          BY <5>4 DEF m, n
      <4>5. stored'[Latest] = stored[Latest]
        BY <2>1, <2>4, <4>1
      <4>6. Value' = Value
        BY <3>3, <4>3, <4>4, <4>5 DEF Value
      <4> QED
        BY <1>1, <3>1, <4>6, StuttersThread
    <3> QED
      BY <3>2, <3>3
  <2> QED
    BY <2>3, <2>4
<1> QED
  BY <1>1, <1>2, <1>3

LEMMA StepsAreThread ==
    ASSUME ThreadInv, ThreadInv', Steps
    PROVE  Thread!Next \/ UNCHANGED Thread!vars
<1>1. CASE \/ Prepare \/ (\E t : Succeeds(t)) \/ Applies \/ Settle \/ Finishes \/ Return
           \/ PutIsRejected \/ (\E k \in inflight : CallIsRejected(k)) \/ Crash
           \/ UNCHANGED vars
  <2>1. stored' = stored /\ base' = base
    BY <1>1, StutterStays DEF Prepare, Succeeds, Applies, Settle, Finishes, Return, PutIsRejected,
                              CallIsRejected, Crash, saverVars, historyVars
  <2> QED
    BY <2>1, StoredStays, StuttersThread
<1> QED
  BY <1>1, StartIsBegin, UpdateIsBegin, UpdatesIsCommit, PutLandsIsCommit, CallLandsStutters
     DEF Steps, Thread!Next

\* The thread grows by the writes of whole supersteps on top of a state that it
\* has had, and no write is in it twice (_putCheckpoint, the chained puts and
\* the "exit" writes of PregelLoop, and updateState), as long as clients do not
\* go on from a checkpoint whose superstep has begun otherwise than by finishing it.
THEOREM ThreadIsHistory ==
    ASSUME "abandon" \notin Disorder
    PROVE  Spec => ThreadSpec
<1>1. Init => ThreadInv
  BY InitIsThread
<1>2. ThreadInv /\ [Next]_vars => ThreadInv'
  BY NextSteps, StepsKeepThread DEF ThreadInv, DurableInv
<1>3. Init => Thread!Init
  <2> SUFFICES ASSUME Init PROVE Thread!Init
    OBVIOUS
  <2>1. stored = <<>> /\ DOMAIN stored = {} /\ base = <<>>
    BY DEF Init
  <2> QED
    BY <2>1 DEF Thread!Init
<1>4. ThreadInv /\ ThreadInv' /\ [Next]_vars => [Thread!Next]_(Thread!vars)
  BY NextSteps, StepsAreThread DEF ThreadInv, DurableInv
<1> QED
  BY <1>1, <1>2, <1>3, <1>4, PTL DEF Spec, ThreadSpec, Thread!Spec

\* Joins of the same sequences are the same as far as both go.
LEMMA JoinsAgree ==
    ASSUME NEW r, NEW s, NEW k \in Nat, NEW n \in Nat, k <= n, \A i \in 1..k : r[i] = s[i],
           NEW f, Joins(f, r, k), NEW g, Joins(g, s, n)
    PROVE  \A i \in 1..k : f[i] = g[i]
<1> DEFINE T == {i \in 1..k : f[i] # g[i]}
<1> SUFFICES ASSUME T # {} PROVE FALSE
  OBVIOUS
<1>1. PICK i \in T : \A j \in T : i <= j
  <2>1. T \subseteq Nat
    OBVIOUS
  <2> HIDE DEF T
  <2> QED
    BY <2>1, LeastNatural
<1>2. i \in 1..k /\ i \in 1..n /\ f[i] # g[i]
  OBVIOUS
<1>3. f[i] = IF i = 1 THEN r[i] ELSE f[i - 1] \o r[i]
  BY <1>2, Zenon DEF Joins
<1>4. g[i] = IF i = 1 THEN s[i] ELSE g[i - 1] \o s[i]
  BY <1>2, Zenon DEF Joins
<1>5. CASE i = 1
  BY <1>2, <1>3, <1>4, <1>5
<1>6. CASE i # 1
  <2>1. i - 1 \in 1..k /\ i - 1 \notin T
    BY <1>1, <1>2, <1>6
  <2> QED
    BY <1>2, <1>3, <1>4, <1>6, <2>1
<1> QED
  BY <1>5, <1>6

\* FlattenSeq of a sequence that is longer by one.
LEMMA FlattenLonger ==
    ASSUME NEW n \in Nat, NEW r, Len(r) = n, NEW s, Len(s) = n + 1, \A i \in 1..n : r[i] = s[i],
           NEW S, s[n + 1] \in Seq(S), (r = <<>> <=> n = 0)
    PROVE  FlattenSeq(s) = FlattenSeq(r) \o s[n + 1]
<1>1. PICK g : Joins(g, s, n + 1) /\ FlattenSeq(s) = g[n + 1]
  BY FlattenJoins
<1>2. g[n + 1] = IF n = 0 THEN s[n + 1] ELSE g[n] \o s[n + 1]
  <2>1. \A i \in 1..(n + 1) : g[i] = IF i = 1 THEN s[i] ELSE g[i - 1] \o s[i]
    BY <1>1, Zenon DEF Joins
  <2>2. n + 1 \in 1..(n + 1) /\ n + 1 - 1 = n /\ (n + 1 = 1 <=> n = 0)
    OBVIOUS
  <2> QED
    BY <2>1, <2>2
<1>3. CASE n = 0
  <2>1. FlattenSeq(r) = <<>>
    BY <1>3 DEF FlattenSeq
  <2>2. <<>> \o s[n + 1] = s[n + 1]
    OBVIOUS
  <2> QED
    BY <1>1, <1>2, <1>3, <2>1, <2>2
<1>4. CASE n # 0
  <2>1. PICK f : Joins(f, r, n) /\ FlattenSeq(r) = f[n]
    BY <1>4, FlattenJoins
  <2>2. f[n] = g[n]
    <3>1. n \in 1..n /\ n + 1 \in Nat /\ n <= n + 1
      BY <1>4
    <3> QED
      BY <1>1, <2>1, <3>1, JoinsAgree
  <2> QED
    BY <1>1, <1>2, <1>4, <2>1, <2>2
<1> QED
  BY <1>3, <1>4

-----------------------------------------------------------------------------
(* The deltas of any rows, by their last one.                                 *)

\* m comes last among rows.
IsLast(m, rows) == m \in rows /\ \A v \in rows : v # m => Before(v, m)

LEMMA SomeAreOrdered ==
    ASSUME NEW rows, Ordered(rows), NEW some, some \subseteq rows
    PROVE  Ordered(some)
  BY FS_Subset DEF Ordered

LEMMA LastRow ==
    ASSUME NEW rows, Ordered(rows), rows # {}
    PROVE  \E m : IsLast(m, rows)
<1> DEFINE n == Cardinality(rows)
           m == Nth(rows, n)
<1>1. n \in Nat /\ n # 0
  BY FS_CardinalityType, FS_EmptySet DEF Ordered
<1>2. m \in rows /\ Cardinality(Below(rows, m)) = n - 1
  BY <1>1, NthIsRow
<1> HIDE DEF m
<1>3. \A v \in rows : v # m => Before(v, m)
  <2> SUFFICES ASSUME NEW v \in rows, v # m, ~Before(v, m) PROVE FALSE
    OBVIOUS
  <2>1. Before(m, v)
    BY <1>2 DEF Ordered
  <2>2. Below(rows, m) \cup {m} \subseteq Below(rows, v) /\ m \notin Below(rows, m)
    BY <1>2, <2>1 DEF Below, Ordered
  <2>3. IsFiniteSet(Below(rows, m)) /\ IsFiniteSet(Below(rows, v))
    BY FS_Subset DEF Below, Ordered
  <2>4. Cardinality(Below(rows, m) \cup {m}) = n - 1 + 1
    BY <1>2, <2>2, <2>3, FS_AddElement
  <2>5. Cardinality(Below(rows, m) \cup {m}) <= Cardinality(Below(rows, v))
    BY <2>2, <2>3, FS_Subset
  <2>6. Cardinality(Below(rows, v)) \in 0..(n - 1)
    BY RowsAreRanked
  <2> QED
    BY <1>1, <2>4, <2>5, <2>6
<1> QED
  BY <1>2, <1>3 DEF IsLast

\* Without the last row there is one row less, and the others stay at their places.
LEMMA WithoutLast ==
    ASSUME NEW rows, Ordered(rows), NEW m, IsLast(m, rows)
    PROVE  /\ Ordered(rows \ {m})
           /\ Cardinality(rows \ {m}) \in Nat /\ Cardinality(rows) = Cardinality(rows \ {m}) + 1
           /\ \A i \in 1..Cardinality(rows \ {m}) : Nth(rows \ {m}, i) = Nth(rows, i)
           /\ Nth(rows, Cardinality(rows)) = m
<1> DEFINE rest == rows \ {m}
           n == Cardinality(rest)
<1>1. Ordered(rest)
  BY SomeAreOrdered
<1>2. n \in Nat /\ Cardinality(rows) = n + 1 /\ IsFiniteSet(rest)
  <2>1. IsFiniteSet(rest) /\ m \notin rest /\ rows = rest \cup {m}
    BY <1>1 DEF IsLast, Ordered
  <2> HIDE DEF rest
  <2> QED
    BY <2>1, FS_AddElement, FS_CardinalityType
<1>3. \A v \in rest : v \in rows /\ Below(rest, v) = Below(rows, v)
  BY DEF Below, IsLast, Ordered
<1>4. Below(rows, m) = rest
  BY DEF Below, IsLast, Ordered
<1> HIDE DEF rest
<1>5. \A i \in 1..(n + 1) : Nth(rows, i) \in rows /\ Cardinality(Below(rows, Nth(rows, i))) = i - 1
  BY <1>2, NthIsRow
<1>6. ASSUME NEW i \in 1..n PROVE Nth(rest, i) = Nth(rows, i)
  <2>1. Nth(rest, i) \in rest /\ Cardinality(Below(rest, Nth(rest, i))) = i - 1
    BY <1>1, NthIsRow
  <2>2. Nth(rest, i) \in rows /\ Cardinality(Below(rows, Nth(rest, i))) = i - 1
    BY <1>3, <2>1
  <2>3. i \in 1..(n + 1)
    BY <1>2
  <2> QED
    BY <1>5, <2>2, <2>3, RowsAreRanked
<1>7. Nth(rows, n + 1) = m
  <2>1. n + 1 \in 1..(n + 1) /\ n + 1 - 1 = n
    BY <1>2
  <2>2. m \in rows /\ Cardinality(Below(rows, m)) = n
    BY <1>4 DEF IsLast
  <2> QED
    BY <1>5, <2>1, <2>2, RowsAreRanked
<1> QED
  BY <1>1, <1>2, <1>6, <1>7 DEF rest

LEMMA DeltasByLast ==
    ASSUME NEW rows, Ordered(rows), NEW m, IsLast(m, rows), NEW S, m.deltas \in Seq(S)
    PROVE  Deltas(rows) = Deltas(rows \ {m}) \o m.deltas
<1> DEFINE n == Cardinality(rows \ {m})
           r == [i \in 1..n |-> Nth(rows \ {m}, i).deltas]
           s == [i \in 1..Cardinality(rows) |-> Nth(rows, i).deltas]
<1>1. /\ n \in Nat /\ Cardinality(rows) = n + 1
      /\ \A i \in 1..n : Nth(rows \ {m}, i) = Nth(rows, i)
      /\ Nth(rows, n + 1) = m
  BY WithoutLast
<1>2. Deltas(rows) = FlattenSeq(s) /\ Deltas(rows \ {m}) = FlattenSeq(r)
  BY DEF Deltas
<1> HIDE DEF n
<1>3. Len(r) = n /\ Len(s) = n + 1 /\ (r = <<>> <=> n = 0)
  <2>1. Len(r) = n /\ Len(s) = n + 1
    BY <1>1
  <2>2. r \in [1..n -> {Nth(rows \ {m}, i).deltas : i \in 1..n}]
    OBVIOUS
  <2> HIDE DEF r
  <2> QED
    BY <1>1, <2>1, <2>2, EmptySeq
<1>4. (\A i \in 1..n : r[i] = s[i]) /\ s[n + 1] = m.deltas
  <2>1. n + 1 \in 1..Cardinality(rows) /\ \A i \in 1..n : i \in 1..Cardinality(rows)
    BY <1>1
  <2> QED
    BY <1>1, <2>1
<1> HIDE DEF r, s
<1>5. s[n + 1] \in Seq(S)
  BY <1>4
<1>6. FlattenSeq(s) = FlattenSeq(r) \o s[n + 1]
  <2>1. n \in Nat /\ \A i \in 1..n : r[i] = s[i]
    BY <1>1, <1>4
  <2> QED
    BY <2>1, <1>3, <1>5, FlattenLonger, SMTT(60)
<1> QED
  BY <1>2, <1>4, <1>6

LEMMA FirstNatural ==
    ASSUME NEW T, T \subseteq Nat, T # {}
    PROVE  \E x \in T : \A y \in Nat : y < x => y \notin T
<1>1. PICK x \in T : \A y \in T : x <= y
  BY LeastNatural
<1>2. \A y \in Nat : y < x => y \notin T
  BY <1>1
<1> QED
  BY <1>2

\* Rows with sequences, in their order.
Sequenced(rows, S) == Ordered(rows) /\ \A w \in rows : w.deltas \in Seq(S)

LEMMA DeltasAreSequence ==
    ASSUME NEW S, NEW rows, Sequenced(rows, S)
    PROVE  Deltas(rows) \in Seq(S)
<1> DEFINE T == {k \in Nat : \E r \in SUBSET rows : Cardinality(r) = k /\ Deltas(r) \notin Seq(S)}
<1> SUFFICES ASSUME T # {} PROVE FALSE
  BY FS_CardinalityType DEF Sequenced, Ordered
<1>1. PICK k \in T : \A j \in Nat : j < k => j \notin T
  <2>1. T \subseteq Nat
    OBVIOUS
  <2> HIDE DEF T
  <2> QED
    BY <2>1, FirstNatural
<1>2. PICK r \in SUBSET rows : Cardinality(r) = k /\ Deltas(r) \notin Seq(S)
  OBVIOUS
<1>3. Ordered(r) /\ r # {}
  <2>1. Ordered(r)
    BY SomeAreOrdered DEF Sequenced
  <2>2. <<>> \in Seq(S)
    OBVIOUS
  <2> QED
    BY <1>2, <2>1, <2>2, NoDeltas
<1>4. PICK m : IsLast(m, r)
  BY <1>3, LastRow
<1>5. m.deltas \in Seq(S)
  BY <1>4 DEF IsLast, Sequenced
<1>6. Cardinality(r \ {m}) \in Nat /\ k = Cardinality(r \ {m}) + 1
  BY <1>2, <1>3, <1>4, WithoutLast
<1>7. Deltas(r \ {m}) \in Seq(S)
  <2>1. Cardinality(r \ {m}) \notin T
    <3> DEFINE j == Cardinality(r \ {m})
    <3>1. j \in Nat /\ j < k
      BY <1>6
    <3> HIDE DEF j, T
    <3>2. j \notin T
      BY <1>1, <3>1
    <3> QED
      BY <3>2 DEF j
  <2> QED
    BY <1>6, <2>1
<1>8. Deltas(r) = Deltas(r \ {m}) \o m.deltas
  BY <1>3, <1>4, <1>5, DeltasByLast
<1> QED
  BY <1>2, <1>5, <1>7, <1>8

LEMMA Associative ==
    ASSUME NEW S, NEW r \in Seq(S), NEW s \in Seq(S), NEW t \in Seq(S)
    PROVE  (r \o s) \o t = r \o (s \o t)
  OBVIOUS

\* The deltas of rows and of others that all come after them.
Precede(first, second) == \A v \in first, w \in second : Before(v, w)
JoinInOrder(first, second) == Deltas(first \cup second) = Deltas(first) \o Deltas(second)

LEMMA DeltasJoin ==
    ASSUME NEW S, NEW first, NEW second, Sequenced(first \cup second, S), Precede(first, second)
    PROVE  JoinInOrder(first, second)
<1> DEFINE T == {k \in Nat : \E r \in SUBSET second :
                     Cardinality(r) = k /\ Deltas(first \cup r) # Deltas(first) \o Deltas(r)}
<1>0. Ordered(second) /\ Ordered(first) /\ Sequenced(first, S) /\ Sequenced(second, S)
  BY SomeAreOrdered DEF Sequenced
<1> SUFFICES ASSUME T # {} PROVE FALSE
  BY <1>0, FS_CardinalityType DEF Ordered, JoinInOrder
<1>1. PICK k \in T : \A j \in Nat : j < k => j \notin T
  <2>1. T \subseteq Nat
    OBVIOUS
  <2> HIDE DEF T
  <2> QED
    BY <2>1, FirstNatural
<1>2. PICK r \in SUBSET second : Cardinality(r) = k /\ Deltas(first \cup r) # Deltas(first) \o Deltas(r)
  OBVIOUS
<1>3. Deltas(first) \in Seq(S)
  BY <1>0, DeltasAreSequence
<1>4. r # {}
  <2> SUFFICES ASSUME r = {} PROVE FALSE
    OBVIOUS
  <2>1. first \cup r = first /\ Deltas(r) = <<>>
    BY NoDeltas
  <2> QED
    BY <1>2, <1>3, <2>1
<1>5. Ordered(r) /\ Ordered(first \cup r)
  <2>1. r \subseteq first \cup second /\ first \cup r \subseteq first \cup second
    OBVIOUS
  <2> QED
    BY <2>1, SomeAreOrdered DEF Sequenced
<1>6. PICK m : IsLast(m, r)
  BY <1>4, <1>5, LastRow
<1>7. m.deltas \in Seq(S) /\ m \in second /\ m \notin first
  BY <1>0, <1>6 DEF IsLast, Sequenced, Ordered, Precede
<1>8. IsLast(m, first \cup r)
  BY <1>6, <1>7 DEF IsLast, Precede
<1>9. (first \cup r) \ {m} = first \cup (r \ {m})
  BY <1>7
<1>10. Deltas(first \cup (r \ {m})) = Deltas(first) \o Deltas(r \ {m})
  <2>1. Cardinality(r \ {m}) \in Nat /\ k = Cardinality(r \ {m}) + 1
    BY <1>2, <1>5, <1>6, WithoutLast
  <2>2. Cardinality(r \ {m}) \notin T
    <3> DEFINE j == Cardinality(r \ {m})
    <3>1. j \in Nat /\ j < k
      BY <2>1
    <3> HIDE DEF j, T
    <3>2. j \notin T
      BY <1>1, <3>1
    <3> QED
      BY <3>2 DEF j
  <2> QED
    BY <2>1, <2>2
<1>11. Deltas(r) = Deltas(r \ {m}) \o m.deltas
  BY <1>5, <1>6, <1>7, DeltasByLast
<1>12. Deltas(first \cup r) = Deltas(first \cup (r \ {m})) \o m.deltas
  BY <1>5, <1>7, <1>8, <1>9, DeltasByLast
<1>13. Deltas(r \ {m}) \in Seq(S)
  <2>1. Sequenced(r \ {m}, S)
    BY <1>0, <1>5, SomeAreOrdered DEF Sequenced
  <2> QED
    BY <2>1, DeltasAreSequence
<1>14. (Deltas(first) \o Deltas(r \ {m})) \o m.deltas = Deltas(first) \o (Deltas(r \ {m}) \o m.deltas)
  <2> DEFINE s == Deltas(first)
             t == Deltas(r \ {m})
             u == m.deltas
  <2>1. s \in Seq(S) /\ t \in Seq(S) /\ u \in Seq(S)
    BY <1>3, <1>7, <1>13
  <2> HIDE DEF s, t, u
  <2>2. (s \o t) \o u = s \o (t \o u)
    BY <2>1, Associative
  <2> QED
    BY <2>2 DEF s, t, u
<1> QED
  BY <1>2, <1>10, <1>11, <1>12, <1>14

\* Rows with the same deltas under other names that are in the same order; those
\* without deltas do not count.
Renamed(g, rows) ==
    /\ \A w \in rows : g[w].deltas = w.deltas
    /\ \A v, w \in rows : Before(g[v], g[w]) <=> Before(v, w)
Telling(rows) == {w \in rows : w.deltas # <<>>}

LEMMA RenamedAreOrdered ==
    ASSUME NEW rows, Ordered(rows), NEW g, Renamed(g, rows)
    PROVE  Ordered({g[w] : w \in rows})
<1>1. \A v, w \in rows : g[v] = g[w] => v = w
  BY DEF Ordered, Renamed
<1>2. IsFiniteSet({g[w] : w \in rows})
  <2> DEFINE f == [w \in rows |-> g[w]]
  <2>1. {g[w] : w \in rows} = {f[w] : w \in rows}
    OBVIOUS
  <2>2. f \in Surjection(rows, {g[w] : w \in rows})
    BY DEF Surjection
  <2> QED
    BY <2>2, FS_Surjection DEF Ordered
<1> QED
  BY <1>1, <1>2 DEF Ordered, Renamed

LEMMA DeltasRenamed ==
    ASSUME NEW S, NEW rows, Sequenced(rows, S), NEW g, Renamed(g, rows)
    PROVE  Deltas({g[w] : w \in Telling(rows)}) = Deltas(rows)
<1> DEFINE named(r) == {g[w] : w \in Telling(r)}
           T == {k \in Nat : \E r \in SUBSET rows : Cardinality(r) = k /\ Deltas(named(r)) # Deltas(r)}
<1> SUFFICES ASSUME T # {} PROVE FALSE
  BY FS_CardinalityType DEF Ordered, Sequenced
<1>1. PICK k \in T : \A j \in Nat : j < k => j \notin T
  <2>1. T \subseteq Nat
    OBVIOUS
  <2> HIDE DEF T
  <2> QED
    BY <2>1, FirstNatural
<1>2. PICK r \in SUBSET rows : Cardinality(r) = k /\ Deltas(named(r)) # Deltas(r)
  OBVIOUS
<1>3. r # {}
  <2> SUFFICES ASSUME r = {} PROVE FALSE
    OBVIOUS
  <2>1. named(r) = {}
    BY DEF Telling
  <2> QED
    BY <1>2, <2>1
<1>4. Ordered(r)
  BY SomeAreOrdered DEF Sequenced
<1>5. PICK m : IsLast(m, r)
  BY <1>3, <1>4, LastRow
<1>6. m.deltas \in Seq(S) /\ m \in r /\ m \in rows
  BY <1>5 DEF IsLast, Sequenced
<1>7. Deltas(named(r \ {m})) = Deltas(r \ {m})
  <2>1. Cardinality(r \ {m}) \in Nat /\ k = Cardinality(r \ {m}) + 1
    BY <1>2, <1>4, <1>5, WithoutLast
  <2>2. Cardinality(r \ {m}) \notin T
    <3> DEFINE j == Cardinality(r \ {m})
    <3>1. j \in Nat /\ j < k
      BY <2>1
    <3> HIDE DEF j, T
    <3>2. j \notin T
      BY <1>1, <3>1
    <3> QED
      BY <3>2 DEF j
  <2> QED
    BY <2>1, <2>2
<1>8. Deltas(r) = Deltas(r \ {m}) \o m.deltas
  BY <1>4, <1>5, <1>6, DeltasByLast
<1>9. Deltas(r \ {m}) \in Seq(S)
  <2>1. Sequenced(r \ {m}, S)
    BY <1>4, SomeAreOrdered DEF Sequenced
  <2> QED
    BY <2>1, DeltasAreSequence
<1>10. CASE m.deltas = <<>>
  <2>1. named(r) = named(r \ {m})
    BY <1>10 DEF Telling
  <2>2. Deltas(r) = Deltas(r \ {m})
    BY <1>8, <1>9, <1>10
  <2> QED
    BY <1>2, <1>7, <2>1, <2>2
<1>11. CASE m.deltas # <<>>
  <2>1. Ordered(named(r))
    <3>1. Ordered(Telling(r)) /\ Renamed(g, Telling(r))
      BY <1>4, SomeAreOrdered DEF Telling, Renamed
    <3> QED
      BY <3>1, RenamedAreOrdered
  <2>2. IsLast(g[m], named(r))
    <3>1. m \in Telling(r)
      BY <1>6, <1>11 DEF Telling
    <3>2. \A w \in Telling(r) : w # m => Before(g[w], g[m])
      BY <1>5 DEF IsLast, Telling, Renamed
    <3> QED
      BY <3>1, <3>2 DEF IsLast
  <2>3. named(r) \ {g[m]} = named(r \ {m})
    <3>1. \A w \in Telling(r) : w # m => g[w] # g[m]
      BY <1>4, <1>5 DEF IsLast, Telling, Renamed, Ordered
    <3>2. Telling(r \ {m}) = Telling(r) \ {m}
      BY DEF Telling
    <3> QED
      BY <3>1, <3>2
  <2>4. g[m].deltas = m.deltas
    BY <1>6 DEF Renamed
  <2> HIDE DEF named
  <2>5. Deltas(named(r)) = Deltas(named(r) \ {g[m]}) \o g[m].deltas
    BY <1>6, <2>1, <2>2, <2>4, DeltasByLast
  <2> QED
    BY <1>2, <1>7, <1>8, <2>3, <2>4, <2>5
<1> QED
  BY <1>10, <1>11

-----------------------------------------------------------------------------
(* What a reader rebuilds.                                                    *)

\* One step of Rebuild's walk over the parents, with f for the steps after it.
Visit(f, n, i) ==
    LET p == stored[i].parent IN
    CASE stored[i].snapshot # {} -> CHOOSE s \in stored[i].snapshot : TRUE
      [] stored[i].snapshot = {} /\ p \notin DOMAIN stored -> <<>>
      [] stored[i].snapshot = {} /\ p \in DOMAIN stored /\ n = 0 -> Endless
      [] OTHER -> LET before == f[n - 1][p]
                  IN IF before = Endless THEN Endless ELSE before \o Deltas(RowsAt(p))
Walks(f, m) == f = [n \in 0..m |-> [i \in DOMAIN stored |-> Visit(f, n, i)]]

LEMMA VisitIs ==
    ASSUME NEW f, NEW n, NEW i, NEW p, p = stored[i].parent
    PROVE  /\ stored[i].snapshot # {} => Visit(f, n, i) = CHOOSE s \in stored[i].snapshot : TRUE
           /\ stored[i].snapshot = {} /\ p \notin DOMAIN stored => Visit(f, n, i) = <<>>
           /\ stored[i].snapshot = {} /\ p \in DOMAIN stored /\ n = 0 => Visit(f, n, i) = Endless
           /\ stored[i].snapshot = {} /\ p \in DOMAIN stored /\ n # 0 /\ f[n - 1][p] = Endless =>
                  Visit(f, n, i) = Endless
<1>1. ASSUME stored[i].snapshot # {} PROVE Visit(f, n, i) = CHOOSE s \in stored[i].snapshot : TRUE
  BY <1>1, Zenon DEF Visit
<1>2. ASSUME stored[i].snapshot = {}, p \notin DOMAIN stored PROVE Visit(f, n, i) = <<>>
  BY <1>2, Zenon DEF Visit
<1>3. ASSUME stored[i].snapshot = {}, p \in DOMAIN stored, n = 0 PROVE Visit(f, n, i) = Endless
  BY <1>3, Zenon DEF Visit
<1>4. ASSUME stored[i].snapshot = {}, p \in DOMAIN stored, n # 0, f[n - 1][p] = Endless
      PROVE  Visit(f, n, i) = Endless
  BY <1>4, Zenon DEF Visit
<1> QED
  BY <1>1, <1>2, <1>3, <1>4, Zenon

LEMMA VisitGoesOn ==
    ASSUME NEW f, NEW n, NEW i
    PROVE  LET p == stored[i].parent IN
           stored[i].snapshot = {} /\ p \in DOMAIN stored /\ n # 0 /\ f[n - 1][p] # Endless =>
               Visit(f, n, i) = f[n - 1][p] \o Deltas(RowsAt(p))
  BY Zenon DEF Visit

LEMMA VisitsAgree ==
    ASSUME NEW f, NEW g, NEW n, NEW i,
           n # 0 /\ stored[i].parent \in DOMAIN stored =>
               f[n - 1][stored[i].parent] = g[n - 1][stored[i].parent]
    PROVE  Visit(f, n, i) = Visit(g, n, i)
<1> DEFINE p == stored[i].parent
<1>1. CASE stored[i].snapshot # {}
  BY <1>1, VisitIs, Zenon
<1>2. CASE stored[i].snapshot = {} /\ p \notin DOMAIN stored
  BY <1>2, VisitIs, Zenon
<1>3. CASE stored[i].snapshot = {} /\ p \in DOMAIN stored /\ n = 0
  BY <1>3, VisitIs, Zenon
<1>4. CASE stored[i].snapshot = {} /\ p \in DOMAIN stored /\ n # 0 /\ f[n - 1][p] = Endless
  BY <1>4, VisitIs, Zenon
<1>5. CASE stored[i].snapshot = {} /\ p \in DOMAIN stored /\ n # 0 /\ f[n - 1][p] # Endless
  <2>1. Visit(f, n, i) = f[n - 1][p] \o Deltas(RowsAt(p))
    BY <1>5, VisitGoesOn, Zenon
  <2>2. f[n - 1][p] = g[n - 1][p]
    BY <1>5
  <2>3. Visit(g, n, i) = g[n - 1][p] \o Deltas(RowsAt(p))
    BY <1>5, <2>2, VisitGoesOn, Zenon
  <2> QED
    BY <2>1, <2>2, <2>3
<1> QED
  BY <1>1, <1>2, <1>3, <1>4, <1>5

LEMMA WalkStep ==
    ASSUME NEW f, NEW m, Walks(f, m), NEW n \in 0..m, NEW i \in DOMAIN stored
    PROVE  f[n][i] = Visit(f, n, i)
<1> DEFINE h == [k \in 0..m |-> [j \in DOMAIN stored |-> Visit(f, k, j)]]
<1>1. f = h
  BY DEF Walks
<1>2. h[n][i] = Visit(f, n, i)
  OBVIOUS
<1> HIDE DEF h
<1> QED
  BY <1>1, <1>2

LEMMA WalkExists ==
    ASSUME NEW m \in Nat
    PROVE  \E f : Walks(f, m)
<1> DEFINE T == {k \in Nat : ~\E f : Walks(f, k)}
<1> SUFFICES ASSUME T # {} PROVE FALSE
  OBVIOUS
<1>1. PICK k \in T : \A j \in Nat : j < k => j \notin T
  <2>1. T \subseteq Nat
    OBVIOUS
  <2> HIDE DEF T
  <2> QED
    BY <2>1, FirstNatural
<1>2. k \in Nat /\ ~\E f : Walks(f, k)
  OBVIOUS
<1>3. CASE k = 0
  <2> DEFINE f == [n \in 0..k |-> [i \in DOMAIN stored |-> Visit(<<>>, 0, i)]]
  <2>1. \A n \in 0..k, i \in DOMAIN stored : n = 0 /\ Visit(<<>>, 0, i) = Visit(f, n, i)
    <3>1. \A n \in 0..k : n = 0
      BY <1>3
    <3> HIDE DEF f
    <3> QED
      BY <3>1, VisitsAgree
  <2>2. Walks(f, k)
    <3> DEFINE h == [n \in 0..k |-> [i \in DOMAIN stored |-> Visit(f, n, i)]]
    <3>1. f = h
      BY <2>1
    <3> QED
      BY <3>1 DEF Walks
  <2> QED
    BY <1>2, <2>2
<1>4. CASE k # 0
  <2>1. k - 1 \in Nat /\ k - 1 \notin T
    <3>1. k - 1 \in Nat /\ k - 1 < k
      BY <1>2, <1>4
    <3> HIDE DEF T
    <3> QED
      BY <1>1, <3>1
  <2>2. PICK f : Walks(f, k - 1)
    BY <2>1
  <2> DEFINE g == [n \in 0..k |-> [i \in DOMAIN stored |-> IF n < k THEN f[n][i] ELSE Visit(f, n, i)]]
  <2>3. ASSUME NEW n \in 0..k, NEW i \in DOMAIN stored
        PROVE  g[n][i] = Visit(g, n, i)
    <3>1. n < k => f[n][i] = Visit(f, n, i)
      <4>1. n < k => n \in 0..(k - 1)
        BY <1>2
      <4>2. \A j \in 0..(k - 1), d \in DOMAIN stored : f[j][d] = Visit(f, j, d)
        BY <2>2, WalkStep
      <4> QED
        BY <4>1, <4>2
    <3>2. g[n][i] = Visit(f, n, i)
      BY <1>2, <3>1
    <3>3. n # 0 => \A j \in DOMAIN stored : g[n - 1][j] = f[n - 1][j]
      BY <1>2
    <3> HIDE DEF g
    <3>4. Visit(f, n, i) = Visit(g, n, i)
      BY <3>3, VisitsAgree
    <3> QED
      BY <3>2, <3>4
  <2>4. Walks(g, k)
    <3> DEFINE h == [n \in 0..k |-> [i \in DOMAIN stored |-> Visit(g, n, i)]]
    <3>1. g = h
      BY <2>3
    <3> QED
      BY <3>1 DEF Walks
  <2> QED
    BY <1>2, <2>4
<1> QED
  BY <1>3, <1>4

LEMMA RebuildWalks ==
    ASSUME NEW c, Cardinality(DOMAIN stored) \in Nat
    PROVE  \E f : /\ Walks(f, Cardinality(DOMAIN stored))
                  /\ Rebuild(c) = f[Cardinality(DOMAIN stored)][c]
<1> DEFINE F == CHOOSE f : Walks(f, Cardinality(DOMAIN stored))
<1>1. Walks(F, Cardinality(DOMAIN stored))
  BY WalkExists
<1>2. Rebuild(c) = F[Cardinality(DOMAIN stored)][c]
  BY Zenon DEF Rebuild, Walks, Visit
<1> QED
  BY <1>1, <1>2

\* A thread whose checkpoints without a snapshot tell what the parent tells and
\* the writes under it add, up to one that tells nothing.
Told(i) ==
    LET d == stored[i]
        p == d.parent
    IN /\ p \in Nat /\ p < i /\ (p = None \/ p \in DOMAIN stored)
       /\ d.snapshot \subseteq {d.plain}
       /\ d.snapshot = {} /\ p = None => d.plain = <<>>
       /\ d.snapshot = {} /\ p # None => d.plain = stored[p].plain \o Deltas(RowsAt(p))
       /\ d.plain # Endless

LEMMA RebuildTold ==
    ASSUME IsFiniteSet(DOMAIN stored), DOMAIN stored \subseteq Nat \ {None}, \A i \in DOMAIN stored : Told(i),
           NEW c \in DOMAIN stored
    PROVE  Rebuild(c) = stored[c].plain
<1> DEFINE N == Cardinality(DOMAIN stored)
           Older(i) == {j \in DOMAIN stored : j < i}
<1>1. N \in Nat
  BY FS_CardinalityType
<1>2. PICK f : Walks(f, N) /\ Rebuild(c) = f[N][c]
  BY <1>1, RebuildWalks
<1>3. \A n \in 0..N, i \in DOMAIN stored : f[n][i] = Visit(f, n, i)
  BY <1>2, WalkStep
<1>4. \A i \in DOMAIN stored : IsFiniteSet(Older(i)) /\ Cardinality(Older(i)) \in Nat /\ Cardinality(Older(i)) <= N
  <2>1. \A i \in DOMAIN stored : Older(i) \subseteq DOMAIN stored
    OBVIOUS
  <2> HIDE DEF Older
  <2> QED
    BY <2>1, FS_Subset, FS_CardinalityType
<1>5. ASSUME NEW i \in DOMAIN stored, NEW p \in DOMAIN stored, p < i
      PROVE  Cardinality(Older(p)) < Cardinality(Older(i))
  <2>1. p \notin Older(p) /\ Older(p) \cup {p} \subseteq Older(i)
    BY <1>5
  <2> HIDE DEF Older
  <2>2. Cardinality(Older(p) \cup {p}) = Cardinality(Older(p)) + 1
    BY <1>4, <2>1, FS_AddElement
  <2>3. Cardinality(Older(p) \cup {p}) <= Cardinality(Older(i))
    BY <1>4, <2>1, FS_Subset
  <2> QED
    BY <1>4, <2>2, <2>3
<1> DEFINE Tells2(n) == \A i \in DOMAIN stored : Cardinality(Older(i)) <= n => f[n][i] = stored[i].plain
           T == {n \in 0..N : ~Tells2(n)}
<1> HIDE DEF Older, N
<1>6. T = {}
  <2> SUFFICES ASSUME T # {} PROVE FALSE
    OBVIOUS
  <2>1. PICK n \in T : \A j \in Nat : j < n => j \notin T
    <3>1. T \subseteq Nat
      BY <1>1
    <3> HIDE DEF T
    <3> QED
      BY <3>1, FirstNatural
  <2>2. n \in 0..N /\ n \in Nat
    BY <1>1
  <2>3. PICK i \in DOMAIN stored : Cardinality(Older(i)) <= n /\ f[n][i] # stored[i].plain
    OBVIOUS
  <2> DEFINE d == stored[i]
             p == d.parent
  <2>4. Told(i)
    OBVIOUS
  <2>5. f[n][i] = Visit(f, n, i)
    BY <1>3, <2>2
  <2>6. CASE d.snapshot # {}
    <3>1. f[n][i] = CHOOSE s \in d.snapshot : TRUE
      BY <2>5, <2>6, VisitIs
    <3>2. d.snapshot = {d.plain}
      BY <2>4, <2>6 DEF Told
    <3> QED
      BY <2>3, <3>1, <3>2
  <2>7. CASE d.snapshot = {} /\ p = None
    <3>1. f[n][i] = <<>>
      BY <2>5, <2>7, VisitIs
    <3> QED
      BY <2>3, <2>4, <2>7, <3>1 DEF Told
  <2>8. CASE d.snapshot = {} /\ p # None
    <3>1. p \in DOMAIN stored /\ p < i /\ d.plain = stored[p].plain \o Deltas(RowsAt(p))
      BY <2>4, <2>8 DEF Told
    <3>2. Cardinality(Older(p)) < Cardinality(Older(i)) /\ Cardinality(Older(p)) \in Nat
          /\ Cardinality(Older(i)) \in Nat
      BY <1>4, <1>5, <3>1
    <3>3. n - 1 \in Nat /\ n - 1 < n /\ n - 1 \in 0..N /\ Cardinality(Older(p)) <= n - 1 /\ n # 0
      BY <1>1, <2>2, <2>3, <3>2
    <3>4. n - 1 \notin T
      <4> HIDE DEF T
      <4> QED
        BY <2>1, <3>3
    <3>5. f[n - 1][p] = stored[p].plain
      BY <3>1, <3>3, <3>4
    <3>6. stored[p].plain # Endless
      BY <3>1 DEF Told
    <3>7. f[n][i] = f[n - 1][p] \o Deltas(RowsAt(p))
      <4>1. f[n - 1][p] # Endless
        BY <3>5, <3>6
      <4>2. stored[i].snapshot = {} /\ p \in DOMAIN stored /\ n # 0
        BY <2>8, <3>1, <3>3
      <4>3. Visit(f, n, i) = f[n - 1][p] \o Deltas(RowsAt(p))
        BY <4>1, <4>2, VisitGoesOn, Zenon
      <4> QED
        BY <2>5, <4>3
    <3> QED
      BY <2>3, <3>1, <3>5, <3>7
  <2> QED
    BY <2>6, <2>7, <2>8
<1>7. N \in 0..N /\ N \notin T
  BY <1>1, <1>6
<1> QED
  BY <1>2, <1>4, <1>7

-----------------------------------------------------------------------------
(* The checkpoints chain, for clients that keep order.                        *)

\* Rows that are stored or on their way, and whether one under c was lost.
Rows == writes \cup LostRows(inflight)
RowsOf(c) == {w \in Rows : w.at = c}
Damaged(c) == \E w \in lost : w.at = c /\ \A v \in Rows : ~SameRow(v, w)

\* Checkpoints that are stored or on their way.
Stubs == {k.row : k \in {j \in inflight : j.op = "put"}}
Puts == {stored[c] : c \in DOMAIN stored} \cup Queued \cup Stubs
Childless(c) == \A d \in Puts : d.parent # c

\* No stored checkpoint has lost its parent, or a row under it.
Sound ==
    \A d \in DOMAIN stored :
        /\ ~Damaged(stored[d].parent)
        /\ \/ stored[d].parent \in DOMAIN stored \cup {None}
           \/ \E s \in Stubs : s.id = stored[d].parent

OneRow == \A v, w \in Rows : SameRow(v, w) => v = w

\* A checkpoint without a snapshot is what the rows under its parent make of this.
Linked(d) ==
    /\ d.parent < d.id
    /\ d.snapshot = {} /\ d.parent = None => d.plain = <<>>
    /\ d.snapshot = {} /\ ~Damaged(d.parent) =>
           \A e \in Puts : e.id = d.parent => d.plain = e.plain \o Deltas(RowsOf(e.id))
Links == \A d \in Puts : Linked(d)
TrueSnapshots == Sound => \A d \in Puts : d.snapshot \subseteq {d.plain}

\* What is on its way is new, and has no child among the stored.
FreshPuts ==
    /\ \A d \in Queued \cup Stubs : d.id \notin DOMAIN stored
    /\ \A d \in DOMAIN stored, e \in Queued : stored[d].parent # e.id
    /\ \A s \in Stubs : s.parent = None
    /\ \A j, k \in inflight : j.op = "put" /\ k.op = "put" => j = k

StepsInv ==
    /\ \A d \in Puts : d.step \in Int
    /\ phase \in Live \cup {"update"} => loop.step \in Int

\* The loop's own rows are all of the superstep under way.
HeadInv ==
    phase \in Live =>
        /\ Childless(loop.head)
        /\ \A w \in loop.pending : w.at = loop.head /\ w.group = Own /\ w.of = loop.head /\ w.task \in Tasks
        /\ RowsOf(loop.head) \subseteq loop.pending
        /\ loop.skipDone
        /\ phase = "run" => \A w \in loop.pending : w.task \notin todo
        /\ Sound => loop.live = loop.plain

\* Without "exit" they have been handed over, as has the head.
HeadInOrder ==
    phase \in Live /\ loop.durability # "exit" =>
        /\ loop.config = loop.head
        /\ loop.pending \ RowsOf(loop.head) \subseteq lost

\* In "exit" the loop's writes, stored under the anchor, will make its state of the one there.
Anchored(rows, c) == {[w EXCEPT !.at = c] : w \in rows}
ExitInv ==
    phase \in Live /\ loop.durability = "exit" =>
        /\ inflight = {} /\ loop.config = loop.initial /\ loop.head \notin DOMAIN stored
        /\ RowsOf(loop.head) = {}
        /\ Anchor < loop.head /\ Childless(Anchor) /\ RowsOf(Anchor) = {}
        /\ Sequenced(loop.exitWrites, Marks)
        /\ \A w \in loop.exitWrites : w.at = None /\ w.group \in Int /\ w.group < loop.step
        /\ loop.initial # None =>
               \A e \in Puts : e.id = Anchor => loop.plain = e.plain \o Deltas(Anchored(loop.exitWrites, Anchor))
        /\ loop.initial = None =>
               loop.plain = Deltas(Anchored(loop.exitWrites, Anchor)) /\ \A e \in Puts : e.id # Anchor

UpdateInv ==
    phase = "update" =>
        \/ /\ loop.source = "fork" /\ loop.initial \in DOMAIN stored
           /\ loop.config = stored[loop.initial].parent /\ loop.plain = stored[loop.initial].plain
        \/ /\ loop.source = "update" /\ loop.config # None
           /\ ~Damaged(loop.config) =>
                  \A e \in Puts : e.id = loop.config => loop.plain = e.plain \o Deltas(RowsOf(e.id))

Chained == Links /\ TrueSnapshots /\ FreshPuts
LoopInv == HeadInv /\ HeadInOrder /\ ExitInv /\ UpdateInv
ChainInv == OneRow /\ Chained /\ StepsInv /\ LoopInv

-----------------------------------------------------------------------------
\* What a step leaves of c's rows: what was whole and still is, is what it was.
Kept(c) == ~Damaged(c)' => ~Damaged(c) /\ RowsOf(c)' = RowsOf(c)

\* A row leaves the tables as a lost one only.
LEMMA RowsKept ==
    ASSUME OneRow, Rows' \subseteq Rows, lost \subseteq lost', Rows \ Rows' \subseteq lost'
    PROVE  OneRow' /\ \A c : Kept(c)
<1>1. OneRow'
  BY DEF OneRow, SameRow
<1>2. ASSUME NEW c, ~Damaged(c)'
      PROVE  ~Damaged(c) /\ RowsOf(c)' = RowsOf(c)
  <2>1. \A w \in lost' : w.at = c => \E v \in Rows' : SameRow(v, w)
    BY <1>2 DEF Damaged, SameRow
  <2>2. ~Damaged(c)
    BY <2>1 DEF Damaged
  <2>3. ASSUME NEW w \in RowsOf(c), w \notin Rows' PROVE FALSE
    <3>1. w \in Rows /\ w.at = c /\ w \in lost'
      BY <2>3 DEF RowsOf
    <3>2. PICK v \in Rows' : SameRow(v, w)
      BY <2>1, <3>1
    <3> QED
      BY <2>3, <3>1, <3>2 DEF OneRow
  <2> QED
    BY <2>2, <2>3 DEF RowsOf
<1> QED
  BY <1>1, <1>2 DEF Kept

\* Rows under other checkpoints do not concern c.
LEMMA RowsAdded ==
    ASSUME NEW New, Rows' = Rows \cup New, lost' = lost, NEW c, \A w \in New : w.at # c
    PROVE  Kept(c)
<1>1. RowsOf(c)' = RowsOf(c)
  BY DEF RowsOf
<1>2. Damaged(c) => Damaged(c)'
  BY DEF Damaged, SameRow
<1> QED
  BY <1>1, <1>2 DEF Kept

LEMMA SoundWas ==
    ASSUME Sound', \A d \in Puts : Kept(d.parent),
           \A d \in DOMAIN stored :
               /\ d \in DOMAIN stored' /\ stored'[d].parent = stored[d].parent
               /\ stored[d].parent \in DOMAIN stored' \/ (\E s \in Stubs' : s.id = stored[d].parent) =>
                      stored[d].parent \in DOMAIN stored \/ \E s \in Stubs : s.id = stored[d].parent
    PROVE  Sound
<1>1. \A d \in DOMAIN stored : stored[d] \in Puts
  BY DEF Puts
<1> QED
  BY <1>1 DEF Sound, Kept

LEMMA ChainGrows ==
    ASSUME Links, TrueSnapshots, Sound' => Sound, \A d \in Puts : Kept(d.parent),
           NEW New, Puts' \subseteq Puts \cup New, \A d \in Puts, e \in New : d.parent # e.id,
           \A d \in New : Linked(d)' /\ (Sound' => d.snapshot \subseteq {d.plain})
    PROVE  Links' /\ TrueSnapshots'
<1>1. ASSUME NEW d \in Puts PROVE Linked(d)'
  <2>1. Linked(d) /\ Kept(d.parent) /\ \A e \in New : d.parent # e.id
    BY <1>1 DEF Links
  <2>2. ASSUME d.snapshot = {}, ~Damaged(d.parent)', NEW e \in Puts', e.id = d.parent
        PROVE  d.plain = e.plain \o Deltas(RowsOf(e.id)')
    <3>1. e \in Puts
      BY <2>1, <2>2
    <3>2. ~Damaged(d.parent) /\ RowsOf(e.id)' = RowsOf(e.id)
      BY <2>1, <2>2 DEF Kept
    <3> QED
      BY <2>1, <2>2, <3>1, <3>2 DEF Linked
  <2> QED
    BY <2>1, <2>2 DEF Linked
<1> QED
  BY <1>1 DEF Links, TrueSnapshots

\* Steps that add neither a checkpoint nor a row, and leave the loop as it is.
LEMMA LoopGoesOn ==
    ASSUME StepsInv, LoopInv,
           loop' = loop \/ phase' = "idle", phase' \in Live => phase \in Live, phase' # "update",
           phase' = "run" => \A w \in loop.pending : w.task \notin todo',
           Puts' \subseteq Puts, Rows' \subseteq Rows, lost \subseteq lost', Rows \ Rows' \subseteq lost',
           Sound' => Sound, phase \in Live /\ loop.durability = "exit" => inflight' = {} /\ stored' = stored
    PROVE  StepsInv' /\ LoopInv'
<1>1. CASE phase' \in Live
  <2>1. loop' = loop /\ phase \in Live
    BY <1>1 DEF Live
  <2>2. \A c : RowsOf(c)' \subseteq RowsOf(c) /\ RowsOf(c) \ RowsOf(c)' \subseteq lost'
    BY DEF RowsOf
  <2>3. \A c : Childless(c) => Childless(c)'
    BY DEF Childless
  <2>4. HeadInv'
    BY <2>1, <2>2, <2>3 DEF LoopInv, HeadInv
  <2>5. HeadInOrder'
    BY <2>1, <2>2 DEF LoopInv, HeadInOrder
  <2>6. ExitInv'
    <3>1. Anchor' = Anchor
      BY <2>1 DEF Anchor
    <3> QED
      BY <2>1, <2>2, <2>3, <3>1 DEF LoopInv, ExitInv
  <2>7. StepsInv' /\ UpdateInv'
    BY <2>1 DEF StepsInv, UpdateInv
  <2> QED
    BY <2>4, <2>5, <2>6, <2>7 DEF LoopInv
<1>2. CASE phase' \notin Live
  BY <1>2 DEF StepsInv, LoopInv, HeadInv, HeadInOrder, ExitInv, UpdateInv
<1> QED
  BY <1>1, <1>2

LEMMA ChainMoves ==
    ASSUME ChainInv,
           loop' = loop \/ phase' = "idle", phase' \in Live => phase \in Live, phase' # "update",
           phase' = "run" => \A w \in loop.pending : w.task \notin todo',
           Puts' \subseteq Puts, Rows' \subseteq Rows, lost \subseteq lost', Rows \ Rows' \subseteq lost',
           phase \in Live /\ loop.durability = "exit" => inflight' = {} /\ stored' = stored,
           \A d \in DOMAIN stored :
               /\ d \in DOMAIN stored' /\ stored'[d].parent = stored[d].parent
               /\ stored[d].parent \in DOMAIN stored' \/ (\E s \in Stubs' : s.id = stored[d].parent) =>
                      stored[d].parent \in DOMAIN stored \/ \E s \in Stubs : s.id = stored[d].parent,
           FreshPuts'
    PROVE  ChainInv'
<1>1. OneRow' /\ \A c : Kept(c)
  BY RowsKept DEF ChainInv
<1>2. Sound' => Sound
  BY <1>1, SoundWas
<1>3. Links' /\ TrueSnapshots'
  <2> DEFINE New == {}
  <2>1. Puts' \subseteq Puts \cup New
    OBVIOUS
  <2>2. Links /\ TrueSnapshots /\ \A d \in New : FALSE
    BY DEF ChainInv, Chained
  <2> HIDE DEF New
  <2> QED
    BY <1>1, <1>2, <2>1, <2>2, ChainGrows
<1>4. StepsInv' /\ LoopInv'
  BY <1>2, LoopGoesOn DEF ChainInv
<1> QED
  BY <1>1, <1>3, <1>4 DEF ChainInv, Chained

\* Steps of the process that touch neither the tables nor the calls.
LEMMA StaysChained ==
    ASSUME ChainInv, stored' = stored, writes' = writes, queue' = queue, inflight' = inflight, lost' = lost,
           loop' = loop, phase' \in Live => phase \in Live, phase' # "update",
           phase' = "run" => \A w \in loop.pending : w.task \notin todo'
    PROVE  ChainInv'
<1>1. Queued' = Queued /\ Stubs' = Stubs /\ Rows' = Rows
  BY DEF Queued, Stubs, Rows, LostRows
<1>2. Puts' = Puts
  BY <1>1 DEF Puts
<1>3. FreshPuts'
  BY <1>1 DEF ChainInv, Chained, FreshPuts
<1>4. phase \in Live /\ loop.durability = "exit" => inflight = {}
  BY DEF ChainInv, LoopInv, ExitInv
<1> QED
  BY <1>1, <1>2, <1>3, <1>4, ChainMoves

LEMMA PrepareKeepsChain ==
    ASSUME ChainInv, Prepare
    PROVE  ChainInv'
<1>1. /\ stored' = stored /\ writes' = writes /\ queue' = queue /\ inflight' = inflight /\ lost' = lost
      /\ loop' = loop /\ phase \in Live /\ phase' = "run"
      /\ todo' = IF loop.skipDone THEN Tasks \ {w.task : w \in Current(loop.pending)} ELSE Tasks
  BY DEF Prepare, saverVars, pendingVars, historyVars, Live
<1>2. loop.skipDone /\ \A w \in loop.pending : w \in Current(loop.pending)
  BY <1>1 DEF ChainInv, LoopInv, HeadInv, Current
<1>3. \A w \in loop.pending : w.task \notin todo'
  BY <1>1, <1>2
<1> QED
  BY <1>1, <1>3, StaysChained

LEMMA SettleKeepsChain ==
    ASSUME ChainInv, Settle \/ Return
    PROVE  ChainInv'
<1>1. /\ stored' = stored /\ writes' = writes /\ queue' = queue /\ inflight' = inflight /\ lost' = lost
      /\ loop' = loop /\ phase' \in {"tick", "idle"} /\ (phase' = "tick" => phase \in Live)
  BY DEF Settle, Return, saverVars, pendingVars, historyVars, Live
<1> QED
  BY <1>1, StaysChained DEF Live

LEMMA PutIsRejectedKeepsChain ==
    ASSUME TypeInv, ChainInv, PutIsRejected
    PROVE  ChainInv'
<1>1. /\ stored' = stored /\ writes' = writes /\ queue' = <<>> /\ queue # <<>> /\ inflight' = inflight /\ lost' = lost
      /\ loop' = loop /\ phase' = phase /\ todo' = todo
  BY DEF PutIsRejected, saverVars, runVars, historyVars
<1>2. Queued' = {} /\ Stubs' = Stubs /\ Rows' = Rows
  BY <1>1 DEF Queued, Stubs, Rows, LostRows
<1>3. Puts' \subseteq Puts
  BY <1>1, <1>2 DEF Puts
<1>4. FreshPuts'
  BY <1>1, <1>2 DEF ChainInv, Chained, FreshPuts
<1>5. phase' # "update"
  BY <1>1 DEF TypeInv, Quiet
<1>6. phase \in Live /\ loop.durability = "exit" => inflight = {}
  BY DEF ChainInv, LoopInv, ExitInv
<1>7. phase' = "run" => \A w \in loop.pending : w.task \notin todo'
  BY <1>1 DEF ChainInv, LoopInv, HeadInv, Live
<1> QED
  BY <1>1, <1>2, <1>3, <1>4, <1>5, <1>6, <1>7, ChainMoves

LEMMA CallIsRejectedKeepsChain ==
    ASSUME TypeInv, ChainInv, NEW k \in inflight, CallIsRejected(k)
    PROVE  ChainInv'
<1>1. /\ stored' = stored /\ writes' = writes /\ queue' = queue /\ inflight' = inflight \ {k}
      /\ loop' = loop /\ phase' = phase /\ todo' = todo /\ lost' = lost \cup LostRows({k})
  BY DEF CallIsRejected, saverVars, runVars
<1>2. Queued' = Queued /\ Stubs' \subseteq Stubs
  BY <1>1 DEF Queued, Stubs
<1>3. Rows' \subseteq Rows /\ Rows \ Rows' \subseteq lost'
  BY <1>1 DEF Rows, LostRows
<1>4. Puts' \subseteq Puts
  BY <1>1, <1>2 DEF Puts
<1>5. FreshPuts'
  BY <1>1, <1>2 DEF ChainInv, Chained, FreshPuts
<1>6. phase' # "update"
  BY <1>1 DEF TypeInv, Quiet
<1>7. phase \in Live => loop.durability # "exit"
  BY DEF ChainInv, LoopInv, ExitInv
<1>8. phase' = "run" => \A w \in loop.pending : w.task \notin todo'
  BY <1>1 DEF ChainInv, LoopInv, HeadInv, Live
<1>9. lost \subseteq lost'
  BY <1>1
<1> QED
  BY <1>1, <1>2, <1>3, <1>4, <1>5, <1>6, <1>7, <1>8, <1>9, ChainMoves

LEMMA CrashKeepsChain ==
    ASSUME ChainInv, Crash
    PROVE  ChainInv'
<1>1. /\ stored' = stored /\ writes' = writes /\ queue' = <<>> /\ inflight' = {}
      /\ phase' = "idle" /\ lost' = lost \cup LostRows(inflight)
  BY DEF Crash, saverVars
<1>2. Queued' = {} /\ Stubs' = {}
  BY <1>1 DEF Queued, Stubs
<1>3. Rows' \subseteq Rows /\ Rows \ Rows' \subseteq lost' /\ lost \subseteq lost'
  BY <1>1 DEF Rows, LostRows
<1>4. Puts' \subseteq Puts
  BY <1>1, <1>2 DEF Puts
<1>5. FreshPuts'
  BY <1>1, <1>2 DEF ChainInv, Chained, FreshPuts
<1>6. phase' \notin Live
  BY <1>1 DEF Live
<1> QED
  BY <1>1, <1>2, <1>3, <1>4, <1>5, <1>6, ChainMoves

LEMMA PutLandsKeepsChain ==
    ASSUME TypeInv, OrderInv, MarksInv, StubInv, ChainInv, PutLands
    PROVE  ChainInv'
<1> DEFINE c == Head(queue)
<1>1. /\ writes' = writes /\ inflight' = inflight /\ loop' = loop /\ phase' = phase /\ todo' = todo /\ lost' = lost
      /\ queue # <<>> /\ queue' = Tail(queue)
  BY DEF PutLands, runVars
<1>2. /\ c \in Queued
      /\ DOMAIN stored' = (DOMAIN stored) \cup {c.id} /\ stored'[c.id] = c
      /\ \A i \in DOMAIN stored : i # c.id => stored'[i] = stored[i]
      /\ Queued' \subseteq Queued
      /\ \A e \in Queued' : c.id < e.id /\ e.id \in Nat
      /\ c.id \in Nat
  BY NextPut
<1> HIDE DEF c
<1>3. c \in Puts /\ c.id \notin DOMAIN stored /\ c.parent < c.id /\ c.parent \in Nat
  <2>1. c \in Puts
    BY <1>2 DEF Puts
  <2>2. c.id \notin DOMAIN stored /\ c.parent < c.id
    BY <1>2, <2>1 DEF ChainInv, Chained, FreshPuts, Links, Linked
  <2>3. c.parent \in Nat
    BY <1>2, CountsAreNumbers DEF TypeInv, CallsTyped, IsCheckpoint, Ids
  <2> QED
    BY <2>1, <2>2, <2>3
<1>4. Stubs' = Stubs /\ Rows' = Rows
  BY <1>1 DEF Stubs, Rows, LostRows
<1>5. \A d \in DOMAIN stored : d \in DOMAIN stored' /\ stored'[d] = stored[d]
  BY <1>2, <1>3
<1>6. Puts' \subseteq Puts
  <2>1. \A d \in DOMAIN stored' : stored'[d] \in Puts
    BY <1>2, <1>3, <1>5 DEF Puts
  <2> QED
    BY <1>2, <1>4, <2>1 DEF Puts
<1>7. FreshPuts'
  <2>1. \A d \in Queued' \cup Stubs' : d.id \notin DOMAIN stored'
    <3>1. \A d \in Queued' : d.id # c.id
      BY <1>2
    <3>2. \A s \in Stubs : s.id # c.id
      BY <1>2, CountsAreNumbers DEF StubInv, Stubs, TypeInv, CallsTyped, IsCall, IsCheckpoint, IsId, Ids
    <3> QED
      BY <1>2, <1>4, <3>1, <3>2 DEF ChainInv, Chained, FreshPuts
  <2>2. \A d \in DOMAIN stored', e \in Queued' : stored'[d].parent # e.id
    BY <1>2, <1>3 DEF ChainInv, Chained, FreshPuts
  <2>3. (\A s \in Stubs : s.parent = None)' /\ (\A j, k \in inflight : j.op = "put" /\ k.op = "put" => j = k)'
    BY <1>1, <1>4 DEF ChainInv, Chained, FreshPuts
  <2> QED
    BY <2>1, <2>2, <2>3 DEF FreshPuts
<1>8. phase' # "update"
  BY <1>1 DEF TypeInv, Quiet
<1>9. phase \in Live => loop.durability # "exit"
  BY <1>1 DEF OrderInv
<1>10. phase' = "run" => \A w \in loop.pending : w.task \notin todo'
  BY <1>1 DEF ChainInv, LoopInv, HeadInv, Live
<1>11. ASSUME NEW d \in DOMAIN stored
       PROVE  stored[d].parent \in DOMAIN stored' => stored[d].parent \in DOMAIN stored
  BY <1>2 DEF ChainInv, Chained, FreshPuts
<1> QED
  BY <1>1, <1>4, <1>5, <1>6, <1>7, <1>8, <1>9, <1>10, <1>11, ChainMoves

LEMMA CallLandsKeepsChain ==
    ASSUME TypeInv, StubInv, ChainInv, NEW k \in inflight, CallLands(k)
    PROVE  ChainInv'
<1>1. /\ queue' = queue /\ inflight' = inflight \ {k}
      /\ loop' = loop /\ phase' = phase /\ todo' = todo /\ lost' = lost
  BY DEF CallLands, runVars, historyVars
<1>2. Queued' = Queued /\ Stubs' \subseteq Stubs /\ lost \subseteq lost'
  BY <1>1 DEF Queued, Stubs
<1>3. phase' # "update"
  BY <1>1 DEF TypeInv, Quiet
<1>4. phase \in Live => loop.durability # "exit"
  BY DEF ChainInv, LoopInv, ExitInv
<1>5. phase' = "run" => \A w \in loop.pending : w.task \notin todo'
  BY <1>1 DEF ChainInv, LoopInv, HeadInv, Live
<1>6. CASE k.op = "put"
  <2>1. StubLands(k) /\ writes' = writes
    BY <1>6, CallLandsDoes DEF CallLands
  <2>2. k.row \in Stubs /\ k.row.id \notin DOMAIN stored /\ k.row.parent = None
    BY <1>6 DEF Stubs, ChainInv, Chained, FreshPuts
  <2>3. Rows' = Rows
    BY <1>1, <1>6, <2>1 DEF Rows, LostRows
  <2>4. \A d \in DOMAIN stored : d \in DOMAIN stored' /\ stored'[d] = stored[d]
    BY <2>1, <2>2 DEF StubLands
  <2>5. Puts' \subseteq Puts
    <3>1. \A d \in DOMAIN stored' : stored'[d] \in Puts
      BY <2>1, <2>2, <2>4 DEF StubLands, Puts
    <3> QED
      BY <1>2, <3>1 DEF Puts
  <2>6. FreshPuts'
    <3>1. \A d \in Queued : d.id # k.row.id /\ d.id # None
      BY <1>6, CountsAreNumbers DEF StubInv, TypeInv, CallsTyped, IsCheckpoint, IsId, Ids
    <3>2. Stubs' = {}
      BY <1>1, <1>6 DEF Stubs, ChainInv, Chained, FreshPuts
    <3>3. \A j, i \in inflight' : j.op = "put" /\ i.op = "put" => j = i
      BY <1>1 DEF ChainInv, Chained, FreshPuts
    <3>4. \A d \in DOMAIN stored' : stored'[d].parent = None \/ (d \in DOMAIN stored /\ stored'[d] = stored[d])
      BY <2>1, <2>2, <2>4 DEF StubLands
    <3>5. \A d \in DOMAIN stored', e \in Queued : stored'[d].parent # e.id
      BY <3>1, <3>4 DEF ChainInv, Chained, FreshPuts
    <3>6. \A d \in Queued : d.id \notin DOMAIN stored'
      BY <2>1, <3>1 DEF StubLands, ChainInv, Chained, FreshPuts
    <3> QED
      BY <1>2, <3>2, <3>3, <3>5, <3>6 DEF FreshPuts
  <2>7. ASSUME NEW d \in DOMAIN stored, stored[d].parent \in DOMAIN stored'
        PROVE  stored[d].parent \in DOMAIN stored \/ \E s \in Stubs : s.id = stored[d].parent
    BY <2>1, <2>2, <2>7 DEF StubLands
  <2> QED
    BY <1>1, <1>2, <1>3, <1>4, <1>5, <2>3, <2>4, <2>5, <2>6, <2>7, ChainMoves
<1>7. CASE k.op # "put"
  <2>1. stored' = stored /\ writes' = PutWrite(writes, k.row) /\ k.op = "putWrites"
    BY <1>7 DEF CallLands, TypeInv, CallsTyped, IsCall
  <2>2. Stubs' = Stubs
    BY <1>1, <1>7 DEF Stubs
  <2>3. k.row \in Rows /\ writes \subseteq Rows
    BY <2>1 DEF Rows, LostRows
  <2>4. k.row \in writes' /\ writes \subseteq writes' /\ writes' \subseteq Rows
    BY <2>1, <2>3 DEF PutWrite, ChainInv, OneRow
  <2>5. Rows' = Rows
    <3>1. Rows' \subseteq Rows
      BY <1>1, <2>4 DEF Rows, LostRows
    <3>2. Rows \subseteq Rows'
      BY <1>1, <2>4 DEF Rows, LostRows
    <3> QED
      BY <3>1, <3>2
  <2>6. Puts' = Puts
    BY <1>2, <2>1, <2>2 DEF Puts
  <2>7. FreshPuts'
    <3>1. \A j, i \in inflight' : j.op = "put" /\ i.op = "put" => j = i
      BY <1>1 DEF ChainInv, Chained, FreshPuts
    <3> QED
      BY <1>2, <2>1, <2>2, <3>1 DEF ChainInv, Chained, FreshPuts
  <2> QED
    BY <1>1, <1>2, <1>3, <1>4, <1>5, <2>1, <2>2, <2>5, <2>6, <2>7, ChainMoves
<1> QED
  BY <1>6, <1>7

-----------------------------------------------------------------------------
LEMMA PutsAreTyped ==
    ASSUME TypeInv, NEW d \in Puts
    PROVE  IsCheckpoint(d) /\ d.id \in Nat /\ d.id # None /\ d.parent \in Nat /\ d.parent \in Ids
<1>1. IsCheckpoint(d)
  BY DEF Puts, Stubs, TypeInv, SaverTyped, CallsTyped, IsCall
<1> QED
  BY <1>1, CountsAreNumbers DEF IsCheckpoint, IsId, Ids

LEMMA RowsAreTyped ==
    ASSUME TypeInv, NEW w \in Rows
    PROVE  IsWrite(w) /\ IsId(w.at)
  BY DEF Rows, LostRows, TypeInv, SaverTyped, CallsTyped, IsCall

LEMMA NewIds ==
    ASSUME TypeInv, NEW i, i = nextId \/ i = nextId + 1
    PROVE  /\ i \notin DOMAIN stored /\ RowsOf(i) = {} /\ Childless(i)
           /\ \A d \in Puts : d.id # i
           /\ i \in Nat /\ i # None /\ \A c \in Ids : c < i
<1>1. i \notin Ids /\ i \notin DOMAIN stored
  BY FreshIds
<1>2. \A d \in Puts : d.id # i /\ d.parent # i
  BY <1>1, PutsAreTyped DEF IsCheckpoint, IsId
<1>3. \A w \in Rows : w.at # i
  BY <1>1, RowsAreTyped DEF IsId
<1>4. i \in Nat /\ i # None /\ \A c \in Ids : c < i
  BY CountsAreNumbers DEF Ids, None
<1> QED
  BY <1>1, <1>2, <1>3, <1>4 DEF Childless, RowsOf

\* In a thread that is whole, and of which nothing is on its way, readers see what was written.
LEMMA SoundIsTold ==
    ASSUME ThreadInv, Links, TrueSnapshots, Sound, inflight = {}
    PROVE  \A c \in DOMAIN stored : Rebuild(c) = stored[c].plain
<1>0. TypeInv /\ MarksInv
  BY DEF ThreadInv, DurableInv, History
<1>1. Stubs = {} /\ Rows = writes
  BY DEF Stubs, Rows, LostRows
<1>2. \A c : RowsOf(c) = RowsAt(c)
  BY <1>1 DEF RowsOf, RowsAt
<1>3. \A c \in DOMAIN stored : stored[c] \in Puts /\ stored[c].id = c
  BY <1>0, StoredAreIds DEF Puts
<1>4. ASSUME NEW c \in DOMAIN stored PROVE Told(c)
  <2> DEFINE d == stored[c]
  <2>1. /\ Linked(d) /\ d.snapshot \subseteq {d.plain} /\ ~Damaged(d.parent)
        /\ d.parent = None \/ d.parent \in DOMAIN stored
    BY <1>1, <1>3, <1>4 DEF Links, TrueSnapshots, Sound
  <2>2. d.parent \in Nat /\ d.parent < c
    BY <1>0, <1>3, <1>4, <2>1, PutsAreTyped DEF Linked
  <2>3. ASSUME d.snapshot = {}, d.parent # None
        PROVE  d.plain = stored[d.parent].plain \o Deltas(RowsAt(d.parent))
    <3>1. stored[d.parent] \in Puts /\ stored[d.parent].id = d.parent
      BY <1>3, <2>1, <2>3
    <3> QED
      BY <1>2, <2>1, <2>3, <3>1 DEF Linked
  <2>4. d.plain # Endless
    <3>1. Once(d.plain)
      BY <1>0, <1>4 DEF MarksInv, Tells
    <3>2. ~Once(Endless)
      BY DEF Once, Endless
    <3> QED
      BY <3>1, <3>2
  <2> QED
    BY <2>1, <2>2, <2>3, <2>4 DEF Told, Linked
<1>5. IsFiniteSet(DOMAIN stored) /\ DOMAIN stored \subseteq Nat \ {None}
  <2>1. nextId \in Nat /\ DOMAIN stored \subseteq Ids /\ \A c \in DOMAIN stored : c # None
    BY <1>0, StoredAreIds, CountsAreNumbers DEF IsId
  <2>2. IsFiniteSet(0..(nextId - 1))
    BY <2>1, FS_Interval
  <2> QED
    BY <2>1, <2>2, FS_Subset DEF Ids
<1> QED
  BY <1>4, <1>5, RebuildTold

\* _putCheckpoint, for the chain.
LEMMA PutCheckpointAdds ==
    ASSUME NEW l, DOMAIN l = LoopFields, NEW id, NEW updated, NEW more, NEW source,
           queue \in Seq(Queued), PutCheckpoint(l, id, updated, more, source)
    PROVE  /\ PutLoop(l, id) /\ loop'.live = l.live /\ loop'.skipDone = l.skipDone
           /\ loop'.step = IF id = l.head THEN l.step ELSE l.step + 1
           /\ \E p : /\ p.id = id /\ p.parent = l.config /\ p.plain = l.plain
                     /\ p.snapshot = IF TakesSnapshot(l, id, updated) THEN {l.live} ELSE {}
                     /\ p.step = IF id = l.head THEN l.step - 1 ELSE l.step
                     /\ Queued' \subseteq Queued \cup {p}
                     /\ ~DoCheckpoint(l, id) => Queued' = Queued
<1> DEFINE p == CheckpointOf(l, id, updated, more, source)
<1>1. loop' = AfterPut(l, id, updated, more, source)
  BY DEF PutCheckpoint
<1>2. /\ p.id = id /\ p.parent = l.config /\ p.plain = l.plain
      /\ p.snapshot = IF TakesSnapshot(l, id, updated) THEN {l.live} ELSE {}
      /\ p.step = IF id = l.head THEN l.step - 1 ELSE l.step
  BY DEF CheckpointOf, Checkpoint, Exiting
<1>3. queue' = IF DoCheckpoint(l, id) /\ ~rejected.chain THEN Append(queue, p) ELSE queue
  BY DEF PutCheckpoint, Chain
<1>4. Queued' \subseteq Queued \cup {p} /\ (~DoCheckpoint(l, id) => Queued' = Queued)
  <2> HIDE DEF p
  <2>1. CASE DoCheckpoint(l, id) /\ ~rejected.chain
    <3>1. queue' = Append(queue, p)
      BY <1>3, <2>1
    <3>2. Queued' = Queued \cup {p}
      BY <3>1, AppendToQueue DEF Queued
    <3> QED
      BY <2>1, <3>2
  <2>2. CASE ~(DoCheckpoint(l, id) /\ ~rejected.chain)
    BY <1>3, <2>2 DEF Queued
  <2> QED
    BY <2>1, <2>2
<1>5. /\ loop'.live = l.live /\ loop'.skipDone = l.skipDone
      /\ loop'.step = IF id = l.head THEN l.step ELSE l.step + 1
  BY <1>1 DEF AfterPut, Exiting, LoopFields
<1>6. PutLoop(l, id)
  BY PutCheckpointDoes
<1> QED
  BY <1>2, <1>4, <1>5, <1>6

\* What a run starts with.
LoadedRest(l, c, explicit) ==
    /\ l.live = IF c = None THEN <<>> ELSE Rebuild(c)
    /\ l.step = IF c = None THEN -1 ELSE stored[c].step + 1
    /\ l.skipDone = (c = None \/ ~explicit \/ RowsAt(c) = {})

LEMMA LoadedHasRest ==
    ASSUME NEW c, NEW durability, NEW explicit
    PROVE  LoadedRest(Loaded(c, durability, explicit), c, explicit)
<1>1. CASE c = None
  BY <1>1 DEF Loaded, LoadedRest, NoLoop
<1>2. CASE c # None
  <2> DEFINE l == Loaded(c, durability, explicit)
  <2>1. l.live = Rebuild(c)
    BY <1>2 DEF Loaded, NoLoop
  <2>2. l.step = stored[c].step + 1
    BY <1>2 DEF Loaded, NoLoop
  <2>3. l.skipDone = (~explicit \/ RowsAt(c) = {})
    BY <1>2 DEF Loaded, NoLoop
  <2> QED
    BY <1>2, <2>1, <2>2, <2>3 DEF LoadedRest
<1> QED
  BY <1>1, <1>2

\* Between runs the chain is what is stored.
LEMMA ChainAtRest ==
    ASSUME ThreadInv, ChainInv, queue = <<>>, inflight = {}
    PROVE  /\ Queued = {} /\ Stubs = {} /\ Rows = writes /\ \A c : RowsOf(c) = RowsAt(c)
           /\ \A d \in Puts : d.id \in DOMAIN stored /\ d = stored[d.id]
           /\ \A c \in DOMAIN stored : /\ stored[c] \in Puts /\ stored[c].id = c /\ c \in Nat /\ c # None
                                       /\ stored[c].plain \in Seq(Marks) /\ stored[c].step \in Int
                                       /\ Untouched(c) => Childless(c)
           /\ Sound => \A c \in DOMAIN stored : Rebuild(c) = stored[c].plain
<1>0. TypeInv /\ MarksInv
  BY DEF ThreadInv, DurableInv, History
<1>1. Queued = {} /\ Stubs = {} /\ Rows = writes
  BY DEF Queued, Stubs, Rows, LostRows
<1>2. Puts = {stored[c] : c \in DOMAIN stored}
  BY <1>1 DEF Puts
<1>3. \A c \in DOMAIN stored : stored[c].id = c /\ c \in Nat /\ c # None
  BY <1>0, StoredAreIds, CountsAreNumbers DEF IsId, Ids
<1>4. \A c \in DOMAIN stored : stored[c].plain \in Seq(Marks) /\ stored[c].step \in Int
  BY <1>0, <1>2 DEF MarksInv, Tells, ChainInv, StepsInv
<1>5. \A c : RowsOf(c) = RowsAt(c)
  BY <1>1 DEF RowsOf, RowsAt
<1>6. \A c \in DOMAIN stored : Untouched(c) => Childless(c)
  BY <1>2 DEF Untouched, Childless
<1>7. Sound => \A c \in DOMAIN stored : Rebuild(c) = stored[c].plain
  BY SoundIsTold DEF ChainInv, Chained
<1> QED
  BY <1>1, <1>2, <1>3, <1>4, <1>5, <1>6, <1>7

LEMMA AddsNothing ==
    ASSUME NEW s \in Seq(Marks)
    PROVE  s = s \o Deltas({})
<1>1. s \o <<>> = s
  OBVIOUS
<1> QED
  BY <1>1, NoDeltas

\* How a run of an orderly client starts.
GoesOn(c, l, explicit) ==
    /\ c # None /\ loop' = l /\ queue' = queue /\ nextId' = nextId /\ l.durability # "exit"
    /\ Untouched(c) \/ (c = Latest /\ OwnRows(c))
    /\ ~explicit \/ RowsAt(c) = {}
BranchesOff(c, l) ==
    \E id, more, source :
        /\ id = (IF c = None THEN nextId + 1 ELSE nextId) /\ nextId' = id + 1
        /\ PutCheckpoint(l, id, FALSE, more, source)
        /\ RowsAt(c) = {} /\ (l.durability = "exit" => Untouched(c))

LEMMA RunsAreOrderly ==
    ASSUME Disorder = {}, NEW c, NEW durability, NEW explicit,
           Invoke(durability, c, explicit) \/ Resume(durability, c, explicit),
           NEW l, l = Loaded(c, durability, explicit)
    PROVE  Ready(c) /\ Started /\ (GoesOn(c, l, explicit) \/ BranchesOff(c, l))
<1>1. l.durability = durability
  BY LoadedLoop DEF LoadedFields
<1>2. CASE Invoke(durability, c, explicit)
  <2> DEFINE id == IF c = None THEN nextId + 1 ELSE nextId
  <2>1. /\ Ready(c) /\ Started /\ PutCheckpoint(l, id, FALSE, TRUE, "input") /\ nextId' = id + 1
        /\ IF durability = "exit" THEN Untouched(c) ELSE RowsAt(c) = {}
    BY <1>2 DEF Invoke
  <2>2. RowsAt(c) = {} /\ (durability = "exit" => Untouched(c))
    BY <2>1 DEF Untouched
  <2> QED
    BY <1>1, <2>1, <2>2 DEF BranchesOff
<1>3. CASE Resume(durability, c, explicit)
  <2>1. /\ Ready(c) /\ Started /\ c # None /\ durability # "exit" /\ CanName(c, explicit)
        /\ \/ Untouched(c)
           \/ Forks(c, explicit) /\ RowsAt(c) = {}
           \/ ~explicit /\ OwnRows(c)
        /\ IF Forks(c, explicit)
           THEN PutCheckpoint(l, nextId, FALSE, l.more, "fork") /\ nextId' = nextId + 1
           ELSE loop' = l /\ UNCHANGED <<queue, nextId>>
    BY <1>3 DEF Resume
  <2>2. CASE Forks(c, explicit)
    <3>1. RowsAt(c) = {}
      BY <2>1, <2>2 DEF Untouched, Forks
    <3> QED
      BY <1>1, <2>1, <2>2, <3>1 DEF BranchesOff
  <2>3. CASE ~Forks(c, explicit)
    <3>1. Untouched(c) => RowsAt(c) = {}
      BY DEF Untouched
    <3>2. ~explicit => c = Latest
      BY <2>1 DEF CanName
    <3> QED
      BY <1>1, <2>1, <2>3, <3>1, <3>2 DEF GoesOn
  <2> QED
    BY <2>1, <2>2, <2>3
<1> QED
  BY <1>2, <1>3

\* The parts of a start that the two ways share.
StartedFrom(c, l, explicit) ==
    /\ queue = <<>> /\ inflight = {} /\ inflight' = {} /\ stored' = stored /\ writes' = writes
    /\ lost' = lost /\ phase' = "tick" /\ c \in (DOMAIN stored) \cup {None}
    /\ LoadedFields(l, c, l.durability) /\ LoadedRest(l, c, explicit)

LEMMA StartKeeps ==
    ASSUME ThreadInv, ChainInv, NEW c, NEW l, NEW explicit, StartedFrom(c, l, explicit)
    PROVE  /\ Rows' = Rows /\ Stubs' = {} /\ (Sound' => Sound) /\ OneRow'
           /\ \A d \in Puts : Kept(d.parent)
           /\ \A x : RowsOf(x)' = RowsOf(x)
           /\ Sound => l.live = l.plain
           /\ l.plain \in Seq(Marks) /\ l.step \in Int
<1>1. Rows' = Rows /\ Stubs' = Stubs /\ Stubs = {} /\ lost' = lost
  BY DEF StartedFrom, Rows, LostRows, Stubs
<1>2. OneRow' /\ \A x : Kept(x)
  BY <1>1, RowsKept DEF ChainInv
<1>3. Sound' => Sound
  BY <1>1, <1>2, SoundWas DEF StartedFrom
<1>4. /\ Sound => l.live = l.plain
      /\ l.plain \in Seq(Marks) /\ l.step \in Int
  <2>1. CASE c = None
    <3>1. <<>> \in Seq(Marks) /\ -1 \in Int
      OBVIOUS
    <3>2. l.plain = <<>> /\ l.live = <<>> /\ l.step = -1
      BY <2>1 DEF StartedFrom, LoadedFields, LoadedRest
    <3> QED
      BY <3>1, <3>2
  <2>2. CASE c # None
    <3>1. c \in DOMAIN stored /\ queue = <<>> /\ inflight = {}
      BY <2>2 DEF StartedFrom
    <3>2. stored[c].plain \in Seq(Marks) /\ stored[c].step \in Int /\ (Sound => Rebuild(c) = stored[c].plain)
      BY <3>1, ChainAtRest
    <3>3. l.plain = stored[c].plain /\ l.live = Rebuild(c) /\ l.step = stored[c].step + 1
      BY <2>2 DEF StartedFrom, LoadedFields, LoadedRest
    <3> QED
      BY <3>2, <3>3
  <2> QED
    BY <2>1, <2>2
<1>5. \A x : RowsOf(x)' = RowsOf(x)
  BY <1>1 DEF RowsOf
<1> QED
  BY <1>1, <1>2, <1>3, <1>4, <1>5

LEMMA GoingOnKeepsChain ==
    ASSUME ThreadInv, ChainInv, NEW c, NEW l, NEW explicit, StartedFrom(c, l, explicit), GoesOn(c, l, explicit)
    PROVE  ChainInv'
<1>0. /\ queue = <<>> /\ queue' = <<>> /\ inflight = {} /\ inflight' = {} /\ stored' = stored
      /\ phase' = "tick" /\ loop' = l /\ c \in DOMAIN stored /\ c # None /\ l.durability # "exit"
  BY DEF StartedFrom, GoesOn
<1>1. /\ Rows' = Rows /\ Stubs' = {} /\ (Sound' => Sound) /\ OneRow'
      /\ \A d \in Puts : Kept(d.parent)
      /\ \A x : RowsOf(x)' = RowsOf(x)
      /\ Sound => l.live = l.plain
      /\ l.step \in Int
  BY StartKeeps
<1>2. /\ Queued = {} /\ Stubs = {} /\ \A x : RowsOf(x) = RowsAt(x)
      /\ \A d \in Puts : d.id \in DOMAIN stored /\ d = stored[d.id]
      /\ Untouched(c) => Childless(c)
  BY <1>0, ChainAtRest
<1>3. Queued' = {}
  BY <1>0 DEF Queued
<1>4. Puts' = Puts
  BY <1>0, <1>1, <1>2, <1>3 DEF Puts
<1>5. Links' /\ TrueSnapshots'
  <2> DEFINE New == {}
  <2>1. Puts' \subseteq Puts \cup New /\ \A d \in New : FALSE
    BY <1>4
  <2>2. Links /\ TrueSnapshots
    BY DEF ChainInv, Chained
  <2> HIDE DEF New
  <2> QED
    BY <1>1, <2>1, <2>2, ChainGrows
<1>6. FreshPuts'
  BY <1>0, <1>1, <1>3 DEF FreshPuts
<1>7. /\ l.head = c /\ l.config = c /\ l.pending = RowsAt(c) /\ l.skipDone
  BY <1>0 DEF StartedFrom, LoadedFields, LoadedRest, GoesOn
<1>8. Childless(c)
  <2>1. ASSUME c = Latest, NEW d \in Puts, d.parent = c PROVE FALSE
    <3>1. d.id <= Latest
      BY <1>0, <1>2, <2>1, LatestIs
    <3>2. d.parent < d.id
      BY DEF ChainInv, Chained, Links, Linked
    <3>3. d.id \in Nat /\ d.parent \in Nat
      BY PutsAreTyped DEF ThreadInv, DurableInv
    <3> QED
      BY <2>1, <3>1, <3>2, <3>3
  <2> QED
    BY <1>2, <2>1 DEF GoesOn, Childless
<1>9. HeadInv'
  <2>1. \A w \in RowsAt(c) : w.at = c /\ w.group = Own /\ w.of = c /\ w.task \in Tasks
    BY DEF GoesOn, Untouched, OwnRows, RowsAt
  <2>2. Childless(c)'
    BY <1>4, <1>8 DEF Childless
  <2> QED
    BY <1>0, <1>1, <1>2, <1>7, <2>1, <2>2 DEF HeadInv
<1>10. HeadInOrder' /\ ExitInv' /\ UpdateInv'
  BY <1>0, <1>1, <1>2, <1>7 DEF HeadInOrder, ExitInv, UpdateInv
<1>11. StepsInv'
  BY <1>0, <1>1, <1>4 DEF ChainInv, StepsInv
<1> QED
  BY <1>1, <1>5, <1>6, <1>9, <1>10, <1>11 DEF ChainInv, Chained, LoopInv

LEMMA NoRows ==
    ASSUME NEW S, NEW c
    PROVE  Sequenced({}, S) /\ Anchored({}, c) = {}
<1>1. IsFiniteSet({})
  BY FS_EmptySet
<1> QED
  BY <1>1 DEF Sequenced, Ordered, Anchored

LEMMA BranchingOffKeepsChain ==
    ASSUME ThreadInv, ChainInv, NEW c, NEW l, NEW explicit, StartedFrom(c, l, explicit), BranchesOff(c, l)
    PROVE  ChainInv'
<1>t. TypeInv
  BY DEF ThreadInv, DurableInv
<1>0. /\ queue = <<>> /\ inflight = {} /\ inflight' = {} /\ stored' = stored
      /\ phase' = "tick" /\ c \in (DOMAIN stored) \cup {None}
      /\ RowsAt(c) = {} /\ (l.durability = "exit" => Untouched(c))
  BY DEF StartedFrom, BranchesOff
<1>1. /\ Rows' = Rows /\ Stubs' = {} /\ (Sound' => Sound) /\ OneRow'
      /\ \A d \in Puts : Kept(d.parent)
      /\ \A x : RowsOf(x)' = RowsOf(x)
      /\ Sound => l.live = l.plain
      /\ l.plain \in Seq(Marks) /\ l.step \in Int
  BY StartKeeps
<1>2. /\ Queued = {} /\ Stubs = {} /\ \A x : RowsOf(x) = RowsAt(x)
      /\ \A d \in Puts : d.id \in DOMAIN stored /\ d = stored[d.id]
      /\ \A x \in DOMAIN stored : Untouched(x) => Childless(x)
  BY <1>0, ChainAtRest
<1>3. PICK id, more, source :
          /\ id = (IF c = None THEN nextId + 1 ELSE nextId) /\ nextId' = id + 1
          /\ PutCheckpoint(l, id, FALSE, more, source)
  BY DEF BranchesOff
<1>4. /\ DOMAIN l = LoopFields /\ l.exitWrites = {} /\ l.config = c /\ l.initial = c
      /\ l.head = (IF c = None THEN nextId ELSE c) /\ l.empty = l.head
      /\ l.plain = (IF c = None THEN <<>> ELSE stored[c].plain) /\ l.pending = {}
  BY <1>0 DEF StartedFrom, LoadedFields
<1>5. l.skipDone
  BY <1>0 DEF StartedFrom, LoadedRest
<1>6. c \in Ids /\ (c # None => c \in DOMAIN stored)
  BY <1>t, <1>0, StoredAreIds, CountsAreNumbers DEF IsId, Ids, None
<1>7. /\ id \notin DOMAIN stored /\ RowsOf(id) = {} /\ Childless(id)
      /\ \A d \in Puts : d.id # id
      /\ id \in Nat /\ id # None /\ c < id /\ c # id
      /\ l.head < id /\ id # l.head
  <2>1. /\ id \notin DOMAIN stored /\ RowsOf(id) = {} /\ Childless(id)
        /\ \A d \in Puts : d.id # id
        /\ id \in Nat /\ id # None /\ \A x \in Ids : x < id
    BY <1>t, <1>3, NewIds
  <2>2. c < id /\ c \in Nat /\ nextId \in Nat
    BY <1>t, <1>6, <2>1, CountsAreNumbers DEF Ids
  <2>3. l.head < id /\ l.head \in Nat
    BY <1>3, <1>4, <2>2
  <2> QED
    BY <2>1, <2>2, <2>3
<1>8. PICK p :
          /\ PutLoop(l, id) /\ loop'.live = l.live /\ loop'.skipDone = l.skipDone /\ loop'.step = l.step + 1
          /\ p.id = id /\ p.parent = c /\ p.plain = l.plain
          /\ p.snapshot \subseteq {l.live} /\ p.step = l.step
          /\ Queued' \subseteq {p} /\ (~DoCheckpoint(l, id) => Queued' = {})
  <2>1. queue \in Seq(Queued)
    BY <1>t DEF TypeInv, CallsTyped
  <2>2. PutCheckpoint(l, id, FALSE, more, source) /\ DOMAIN l = LoopFields
    BY <1>3, <1>4
  <2>3. /\ PutLoop(l, id) /\ loop'.live = l.live /\ loop'.skipDone = l.skipDone
        /\ loop'.step = IF id = l.head THEN l.step ELSE l.step + 1
        /\ \E p : /\ p.id = id /\ p.parent = l.config /\ p.plain = l.plain
                  /\ p.snapshot = IF TakesSnapshot(l, id, FALSE) THEN {l.live} ELSE {}
                  /\ p.step = IF id = l.head THEN l.step - 1 ELSE l.step
                  /\ Queued' \subseteq Queued \cup {p}
                  /\ ~DoCheckpoint(l, id) => Queued' = Queued
    BY <2>1, <2>2, PutCheckpointAdds
  <2> QED
    BY <1>2, <1>4, <1>7, <2>3
<1>9. Puts' \subseteq Puts \cup {p} /\ (~DoCheckpoint(l, id) => Puts' \subseteq Puts)
  BY <1>0, <1>1, <1>8 DEF Puts
<1>10. \A e \in Puts' : e.id = c => c # None /\ e.plain = l.plain
  <2>1. TAKE e \in Puts'
  <2>2. HAVE e.id = c
  <2>3. e \in Puts
    BY <1>7, <1>8, <1>9, <2>2
  <2>4. c # None /\ e = stored[c]
    BY <1>t, <1>2, <2>2, <2>3, PutsAreTyped
  <2> QED
    BY <1>4, <2>4
<1>11. Links' /\ TrueSnapshots'
  <2>1. Linked(p)'
    <3>1. p.parent < p.id
      BY <1>7, <1>8
    <3>2. p.parent = None => p.plain = <<>>
      BY <1>4, <1>8
    <3>3. ASSUME NEW e \in Puts', e.id = p.parent
          PROVE  p.plain = e.plain \o Deltas(RowsOf(e.id)')
      <4>1. RowsOf(e.id)' = {} /\ p.plain = e.plain /\ p.plain \in Seq(Marks)
        BY <1>0, <1>1, <1>2, <1>8, <1>10, <3>3
      <4> QED
        BY <4>1, AddsNothing
    <3> QED
      BY <3>1, <3>2, <3>3 DEF Linked
  <2>2. Sound' => p.snapshot \subseteq {p.plain}
    BY <1>1, <1>8
  <2>3. \A d \in Puts : d.parent # id
    BY <1>7 DEF Childless
  <2> DEFINE New == {p}
  <2>4. \A d \in New : d = p
    OBVIOUS
  <2>5. Puts' \subseteq Puts \cup New
    BY <1>9
  <2>6. Links /\ TrueSnapshots
    BY DEF ChainInv, Chained
  <2> HIDE DEF New
  <2>7. \A d \in New : Linked(d)' /\ (Sound' => d.snapshot \subseteq {d.plain})
    BY <2>1, <2>2, <2>4
  <2>8. \A d \in Puts, e \in New : d.parent # e.id
    BY <1>8, <2>3, <2>4
  <2> QED
    BY <1>1, <2>5, <2>6, <2>7, <2>8, ChainGrows
<1>12. FreshPuts'
  <2>1. \A d \in DOMAIN stored : stored[d].parent # id
    BY <1>7 DEF Childless, Puts
  <2> QED
    BY <1>0, <1>1, <1>7, <1>8, <2>1 DEF FreshPuts
<1>13. /\ loop'.head = id /\ loop'.initial = c /\ loop'.empty = l.head /\ loop'.plain = l.plain
       /\ loop'.pending = {} /\ loop'.exitWrites = {} /\ loop'.durability = l.durability
       /\ loop'.config = IF DoCheckpoint(l, id) THEN id ELSE c
  BY <1>4, <1>8 DEF PutLoop
<1>14. \A x : Childless(x) /\ (x = c => ~DoCheckpoint(l, id)) => Childless(x)'
  BY <1>8, <1>9 DEF Childless
<1>15. HeadInv'
  <2>1. Childless(id)'
    BY <1>7, <1>14
  <2> QED
    BY <1>0, <1>1, <1>5, <1>7, <1>8, <1>13, <2>1 DEF HeadInv
<1>16. HeadInOrder'
  BY <1>0, <1>13 DEF HeadInOrder, DoCheckpoint
<1>17. ExitInv'
  <2> SUFFICES ASSUME l.durability = "exit" PROVE ExitInv'
    BY <1>13 DEF ExitInv
  <2>1. ~DoCheckpoint(l, id) /\ Puts' \subseteq Puts
    BY <1>7, <1>9 DEF DoCheckpoint, Exiting
  <2>2. Anchor' = l.head
    BY <1>4, <1>13 DEF Anchor
  <2>3. Childless(l.head) /\ RowsOf(l.head) = {}
    <3>1. CASE c = None
      BY <1>t, <1>4, <3>1, NewIds
    <3>2. CASE c # None
      BY <1>0, <1>2, <1>4, <1>6, <3>2
    <3> QED
      BY <3>1, <3>2
  <2>4. Childless(l.head)'
    BY <1>14, <2>1, <2>3
  <2>5. c # None => \A e \in Puts' : e.id = l.head => l.plain = e.plain \o Deltas({})
    BY <1>1, <1>4, <1>10, AddsNothing
  <2>6. c = None => l.plain = Deltas({}) /\ \A e \in Puts' : e.id # l.head
    <3>1. ASSUME c = None PROVE \A e \in Puts' : e.id # l.head
      BY <1>t, <1>4, <2>1, <3>1, NewIds
    <3> QED
      BY <1>4, <3>1, NoDeltas
  <2>7. Sequenced({}, Marks) /\ Anchored({}, l.head) = {}
    BY NoRows
  <2>8. /\ Sequenced(loop'.exitWrites, Marks) /\ Deltas(Anchored(loop'.exitWrites, Anchor')) = Deltas({})
    BY <1>13, <2>2, <2>7
  <2>9. /\ loop'.initial # None =>
               \A e \in Puts' : e.id = Anchor' => loop'.plain = e.plain \o Deltas(Anchored(loop'.exitWrites, Anchor'))
        /\ loop'.initial = None =>
               loop'.plain = Deltas(Anchored(loop'.exitWrites, Anchor')) /\ \A e \in Puts' : e.id # Anchor'
    BY <1>13, <2>2, <2>5, <2>6, <2>8
  <2>10. /\ inflight' = {} /\ loop'.config = loop'.initial /\ loop'.head \notin DOMAIN stored'
         /\ Anchor' < loop'.head /\ Childless(Anchor)' /\ RowsOf(Anchor)' = {} /\ RowsOf(loop.head)' = {}
    BY <1>0, <1>1, <1>7, <1>13, <2>1, <2>2, <2>3, <2>4
  <2>11. \A w \in loop'.exitWrites : FALSE
    BY <1>13
  <2> QED
    BY <2>8, <2>9, <2>10, <2>11 DEF ExitInv, Sequenced, Ordered
<1>18. UpdateInv' /\ StepsInv'
  <2>1. \A d \in Puts' : d.step \in Int
    BY <1>1, <1>8, <1>9 DEF ChainInv, StepsInv
  <2>2. loop'.step \in Int
    BY <1>1, <1>8
  <2> QED
    BY <1>0, <2>1, <2>2 DEF UpdateInv, StepsInv
<1> QED
  BY <1>1, <1>11, <1>12, <1>15, <1>16, <1>17, <1>18 DEF ChainInv, Chained, LoopInv

LEMMA StartKeepsChain ==
    ASSUME Disorder = {}, ThreadInv, ChainInv, NEW c \in (DOMAIN stored) \cup {None}, NEW d, NEW explicit,
           Invoke(d, c, explicit) \/ Resume(d, c, explicit)
    PROVE  ChainInv'
<1> DEFINE l == Loaded(c, d, explicit)
<1>1. Ready(c) /\ Started /\ (GoesOn(c, l, explicit) \/ BranchesOff(c, l))
  BY RunsAreOrderly
<1>2. LoadedFields(l, c, l.durability) /\ LoadedRest(l, c, explicit)
  BY LoadedLoop, LoadedHasRest DEF LoadedFields
<1> HIDE DEF l
<1>3. StartedFrom(c, l, explicit)
  BY <1>1, <1>2 DEF StartedFrom, Ready, Started, saverVars
<1> QED
  BY <1>1, <1>3, GoingOnKeepsChain, BranchingOffKeepsChain

LEMMA OneRowsDeltas ==
    ASSUME NEW u, NEW S, u.deltas \in Seq(S), ~Before(u, u)
    PROVE  Deltas({u}) = u.deltas
<1>1. IsFiniteSet({u})
  BY FS_Singleton
<1>2. Ordered({u}) /\ IsLast(u, {u})
  BY <1>1 DEF Ordered, IsLast
<1>3. Deltas({u}) = Deltas({u} \ {u}) \o u.deltas
  BY <1>2, DeltasByLast
<1>4. {u} \ {u} = {}
  OBVIOUS
<1>5. Deltas({u} \ {u}) = <<>>
  BY <1>4, NoDeltas
<1>6. <<>> \o u.deltas = u.deltas
  OBVIOUS
<1> QED
  BY <1>3, <1>5, <1>6

LEMMA StartUpdateKeepsChain ==
    ASSUME Disorder = {}, ThreadInv, ChainInv, NEW c \in (DOMAIN stored) \cup {None}, NEW explicit,
           StartUpdate(c, explicit)
    PROVE  ChainInv'
<1>t. TypeInv
  BY DEF ThreadInv, DurableInv
<1> DEFINE l == Loaded(c, "sync", explicit)
           u == Write(c, Own, c, 0, <<<<c, 0, runs + 1>>>>)
           rows == {w \in RowsAt(c) : w.task \in Tasks}
           deltas == (IF explicit \/ c = None THEN <<>> ELSE Deltas(rows)) \o u.deltas
<1>0. /\ queue = <<>> /\ queue' = queue /\ inflight = {} /\ inflight' = {} /\ stored' = stored /\ lost' = lost
      /\ phase' = "update" /\ c # None /\ c \in DOMAIN stored /\ Untouched(c)
      /\ writes' = PutWrite(writes, u)
      /\ loop' = [l EXCEPT !.plain = @ \o deltas, !.live = @ \o deltas, !.source = "update"]
  BY DEF StartUpdate, Ready, pendingVars
<1>1. LoadedFields(l, c, "sync") /\ LoadedRest(l, c, explicit)
  BY LoadedLoop, LoadedHasRest
<1>2. /\ Queued = {} /\ Stubs = {} /\ Rows = writes /\ \A x : RowsOf(x) = RowsAt(x)
      /\ \A d \in Puts : d.id \in DOMAIN stored /\ d = stored[d.id]
      /\ stored[c] \in Puts /\ c \in Nat /\ stored[c].plain \in Seq(Marks) /\ stored[c].step \in Int
      /\ Childless(c)
  BY <1>0, ChainAtRest
<1>3. u.at = c /\ u.deltas = <<<<c, 0, runs + 1>>>> /\ u.deltas \in Seq(Marks) /\ ~Before(u, u)
  <2>1. u.at = c /\ u.deltas = <<<<c, 0, runs + 1>>>> /\ u.group = Own /\ u.of = c /\ u.task = 0
    BY DEF Write
  <2>2. runs + 1 \in Nat /\ Own \in Int /\ c \in Nat
    BY <1>t, <1>2, CountsAreNumbers DEF Own
  <2>3. <<c, 0, runs + 1>> \in Marks
    BY <2>2 DEF Marks
  <2>4. <<<<c, 0, runs + 1>>>> \in Seq(Marks)
    BY <2>3
  <2>5. ~Before(u, u)
    <3> HIDE DEF u
    <3> QED
      BY <2>1, <2>2 DEF Before
  <2> QED
    BY <2>1, <2>4, <2>5
<1>4. deltas = u.deltas
  <2>1. rows = {}
    BY <1>0 DEF Untouched
  <2>2. Deltas(rows) = <<>>
    BY <2>1, NoDeltas
  <2>3. <<>> \o u.deltas = u.deltas
    BY <1>3
  <2> HIDE DEF rows, u
  <2> QED
    BY <2>2, <2>3
<1> HIDE DEF l, u, deltas
<1>5. RowsAt(c) = {}
  BY <1>0 DEF Untouched
<1>6. writes' = writes \cup {u}
  BY <1>0, <1>3, <1>5 DEF PutWrite, SameRow, RowsAt
<1>7. Rows' = Rows \cup {u} /\ RowsOf(c)' = {u}
  <2>1. Rows' = Rows \cup {u}
    BY <1>0, <1>6 DEF Rows, LostRows
  <2>2. \A w \in Rows : w.at # c
    BY <1>2, <1>5 DEF RowsAt
  <2> QED
    BY <1>3, <2>1, <2>2 DEF RowsOf
<1>8. OneRow'
  BY <1>2, <1>3, <1>5, <1>7 DEF OneRow, SameRow, RowsAt, ChainInv
<1>9. \A d \in Puts : Kept(d.parent)
  <2>1. TAKE d \in Puts
  <2>2. d.parent # c
    BY <1>2 DEF Childless
  <2> DEFINE New == {u}
  <2>3. \A w \in New : w.at # d.parent
    BY <1>3, <2>2
  <2>4. Rows' = Rows \cup New
    BY <1>7
  <2> HIDE DEF New
  <2> QED
    BY <1>0, <2>3, <2>4, RowsAdded
<1>10. Queued' = {} /\ Stubs' = {}
  BY <1>0 DEF Queued, Stubs
<1>11. Puts' = Puts
  BY <1>0, <1>2, <1>10 DEF Puts
<1>12. Sound' => Sound
  BY <1>0, <1>2, <1>9, <1>10, SoundWas
<1>13. Links' /\ TrueSnapshots'
  <2> DEFINE New == {}
  <2>1. Puts' \subseteq Puts \cup New /\ \A d \in New : FALSE
    BY <1>11
  <2>2. Links /\ TrueSnapshots
    BY DEF ChainInv, Chained
  <2> HIDE DEF New
  <2> QED
    BY <1>9, <1>12, <2>1, <2>2, ChainGrows
<1>14. FreshPuts'
  BY <1>0, <1>10 DEF FreshPuts
<1>15. /\ loop'.source = "update" /\ loop'.config = c /\ loop'.plain = stored[c].plain \o u.deltas
       /\ loop'.step \in Int
  <2>1. DOMAIN l = LoopFields /\ l.plain = stored[c].plain /\ l.config = c /\ l.step = stored[c].step + 1
    BY <1>0, <1>1 DEF LoadedFields, LoadedRest
  <2>2. /\ loop'.source = "update" /\ loop'.config = l.config /\ loop'.step = l.step
        /\ loop'.plain = l.plain \o deltas
    BY <1>0, <2>1 DEF LoopFields
  <2> QED
    BY <1>2, <1>4, <2>1, <2>2
<1>16. UpdateInv'
  <2>1. Deltas(RowsOf(c)') = u.deltas
    BY <1>3, <1>7, OneRowsDeltas
  <2>2. \A e \in Puts' : e.id = c => e = stored[c]
    BY <1>2, <1>11
  <2>3. \A e \in Puts' : e.id = loop'.config => loop'.plain = e.plain \o Deltas(RowsOf(e.id)')
    BY <1>15, <2>1, <2>2
  <2> QED
    BY <1>0, <1>15, <2>3 DEF UpdateInv
<1>17. HeadInv' /\ HeadInOrder' /\ ExitInv'
  BY <1>0 DEF HeadInv, HeadInOrder, ExitInv, Live
<1>18. StepsInv'
  BY <1>11, <1>15 DEF StepsInv, ChainInv
<1> QED
  BY <1>8, <1>13, <1>14, <1>16, <1>17, <1>18 DEF ChainInv, Chained, LoopInv

LEMMA StartCopyKeepsChain ==
    ASSUME ThreadInv, ChainInv, NEW c \in DOMAIN stored, StartCopy(c)
    PROVE  ChainInv'
<1> DEFINE l == Loaded(c, "sync", TRUE)
<1>0. /\ queue = <<>> /\ queue' = queue /\ inflight = {} /\ inflight' = {} /\ stored' = stored /\ lost' = lost
      /\ phase' = "update" /\ writes' = writes
      /\ loop' = [l EXCEPT !.config = stored[c].parent, !.source = "fork", !.pending = {}]
  BY DEF StartCopy, Ready, pendingVars, saverVars
<1>1. LoadedFields(l, c, "sync") /\ LoadedRest(l, c, TRUE)
  BY LoadedLoop, LoadedHasRest
<1> HIDE DEF l
<1>2. c # None /\ Queued = {} /\ Stubs = {} /\ stored[c].step \in Int
  BY <1>0, ChainAtRest
<1>3. Queued' = {} /\ Stubs' = {} /\ Rows' = Rows
  BY <1>0 DEF Queued, Stubs, Rows, LostRows
<1>4. Puts' = Puts
  BY <1>0, <1>2, <1>3 DEF Puts
<1>5. OneRow' /\ \A x : Kept(x)
  BY <1>0, <1>3, RowsKept DEF ChainInv
<1>6. Sound' => Sound
  BY <1>0, <1>2, <1>3, <1>5, SoundWas
<1>7. Links' /\ TrueSnapshots'
  <2> DEFINE New == {}
  <2>1. Puts' \subseteq Puts \cup New /\ \A d \in New : FALSE
    BY <1>4
  <2>2. Links /\ TrueSnapshots
    BY DEF ChainInv, Chained
  <2> HIDE DEF New
  <2> QED
    BY <1>5, <1>6, <2>1, <2>2, ChainGrows
<1>8. FreshPuts'
  BY <1>0, <1>3 DEF FreshPuts
<1>9. /\ loop'.source = "fork" /\ loop'.config = stored[c].parent /\ loop'.initial = c
      /\ loop'.plain = stored[c].plain /\ loop'.step \in Int
  <2>1. DOMAIN l = LoopFields /\ l.plain = stored[c].plain /\ l.initial = c /\ l.step = stored[c].step + 1
    BY <1>1, <1>2 DEF LoadedFields, LoadedRest
  <2> QED
    BY <1>0, <1>2, <2>1 DEF LoopFields
<1>10. UpdateInv'
  BY <1>0, <1>9 DEF UpdateInv
<1>11. HeadInv' /\ HeadInOrder' /\ ExitInv'
  BY <1>0 DEF HeadInv, HeadInOrder, ExitInv, Live
<1>12. StepsInv'
  BY <1>4, <1>9 DEF StepsInv, ChainInv
<1> QED
  BY <1>5, <1>7, <1>8, <1>10, <1>11, <1>12 DEF ChainInv, Chained, LoopInv

LEMMA FinishUpdateKeepsChain ==
    ASSUME ThreadInv, ChainInv, FinishUpdate
    PROVE  ChainInv'
<1>t. TypeInv
  BY DEF ThreadInv, DurableInv
<1>0. /\ phase = "update" /\ phase' = "idle" /\ writes' = writes /\ queue' = queue /\ inflight' = inflight
      /\ lost' = lost
  BY DEF FinishUpdate, pendingVars
<1>1. queue = <<>> /\ inflight = {}
  BY <1>t, <1>0 DEF TypeInv, Quiet
<1>2. PICK p :
          /\ stored' = Put(stored, p)
          /\ p.id = nextId /\ p.parent = loop.config /\ p.plain = loop.plain /\ p.step = loop.step
          /\ p.snapshot = IF loop.source = "fork" THEN stored[loop.initial].snapshot ELSE {}
  <2>1. PICK more : stored' = Put(stored, Checkpoint(nextId, loop.config, loop.plain,
                                     IF loop.source = "fork" THEN stored[loop.initial].snapshot ELSE {},
                                     <<0, 0>>, loop.step, more, loop.source))
    BY DEF FinishUpdate
  <2> DEFINE q == Checkpoint(nextId, loop.config, loop.plain,
                             IF loop.source = "fork" THEN stored[loop.initial].snapshot ELSE {},
                             <<0, 0>>, loop.step, more, loop.source)
  <2>2. /\ q.id = nextId /\ q.parent = loop.config /\ q.plain = loop.plain /\ q.step = loop.step
        /\ q.snapshot = IF loop.source = "fork" THEN stored[loop.initial].snapshot ELSE {}
    BY DEF Checkpoint
  <2> HIDE DEF q
  <2> QED
    BY <2>1, <2>2 DEF q
<1>3. /\ Queued = {} /\ Stubs = {}
      /\ \A x \in DOMAIN stored : stored[x] \in Puts /\ stored[x].id = x
  BY <1>1, ChainAtRest
<1>4. Queued' = {} /\ Stubs' = {} /\ Rows' = Rows
  BY <1>0, <1>1 DEF Queued, Stubs, Rows, LostRows
<1>5. /\ nextId \notin DOMAIN stored /\ Childless(nextId)
      /\ nextId \in Nat /\ \A x \in Ids : x < nextId
  BY <1>t, NewIds
<1>6. /\ DOMAIN stored' = (DOMAIN stored) \cup {nextId} /\ stored'[nextId] = p
      /\ \A x \in DOMAIN stored : stored'[x] = stored[x] /\ x # nextId
  BY <1>2, <1>5 DEF Put
<1>7. Puts' \subseteq Puts \cup {p}
  BY <1>4, <1>6 DEF Puts
<1>8. OneRow' /\ (\A x : Kept(x)) /\ \A x : RowsOf(x)' = RowsOf(x) /\ (Damaged(x) => Damaged(x)')
  <2>1. OneRow' /\ \A x : Kept(x)
    BY <1>0, <1>4, RowsKept DEF ChainInv
  <2>2. \A x : RowsOf(x)' = RowsOf(x) /\ (Damaged(x) => Damaged(x)')
    BY <1>0, <1>4 DEF RowsOf, Damaged, SameRow
  <2> QED
    BY <2>1, <2>2
<1>9. \A d \in Puts : d.parent # nextId
  BY <1>5 DEF Childless
<1>10. Sound' => Sound
  <2>1. ASSUME NEW d \in DOMAIN stored
        PROVE  /\ d \in DOMAIN stored' /\ stored'[d].parent = stored[d].parent
               /\ stored[d].parent \in DOMAIN stored' => stored[d].parent \in DOMAIN stored
    BY <1>3, <1>6, <1>9
  <2> QED
    BY <1>4, <1>8, <2>1, SoundWas
<1>11. loop.config \in Ids
  BY <1>t DEF TypeInv, LoopTyped
<1>12. Linked(p)' /\ (Sound' => p.snapshot \subseteq {p.plain})
  <2>1. p.parent < p.id
    BY <1>2, <1>5, <1>11
  <2>2. CASE /\ loop.source = "fork" /\ loop.initial \in DOMAIN stored
             /\ loop.config = stored[loop.initial].parent /\ loop.plain = stored[loop.initial].plain
    <3> DEFINE d == stored[loop.initial]
    <3>1. d \in Puts /\ Linked(d) /\ (Sound => d.snapshot \subseteq {d.plain})
      BY <1>3, <2>2 DEF ChainInv, Chained, Links, TrueSnapshots
    <3>2. p.parent = d.parent /\ p.plain = d.plain /\ p.snapshot = d.snapshot
      BY <1>2, <2>2
    <3> HIDE DEF d
    <3>3. ASSUME p.snapshot = {}, ~Damaged(p.parent)', NEW e \in Puts', e.id = p.parent
          PROVE  p.plain = e.plain \o Deltas(RowsOf(e.id)')
      <4>1. e \in Puts
        BY <1>2, <1>7, <2>1, <3>3, <1>9, <3>1, <3>2
      <4>2. d.plain = e.plain \o Deltas(RowsOf(e.id))
        BY <1>8, <3>1, <3>2, <3>3, <4>1 DEF Linked
      <4> QED
        BY <1>8, <3>2, <4>2
    <3>4. p.snapshot = {} /\ p.parent = None => p.plain = <<>>
      BY <3>1, <3>2 DEF Linked
    <3> QED
      BY <1>10, <2>1, <3>1, <3>2, <3>3, <3>4 DEF Linked
  <2>3. CASE /\ loop.source = "update" /\ loop.config # None
             /\ ~Damaged(loop.config) =>
                    \A e \in Puts : e.id = loop.config => loop.plain = e.plain \o Deltas(RowsOf(e.id))
    <3>1. p.snapshot = {} /\ p.parent # None
      BY <1>2, <2>3
    <3>2. ASSUME ~Damaged(p.parent)', NEW e \in Puts', e.id = p.parent
          PROVE  p.plain = e.plain \o Deltas(RowsOf(e.id)')
      <4>1. e \in Puts
        BY <1>2, <1>5, <1>7, <1>11, <3>2
      <4> QED
        BY <1>2, <1>8, <2>3, <3>2, <4>1
    <3> QED
      BY <2>1, <3>1, <3>2 DEF Linked
  <2> QED
    BY <1>0, <2>2, <2>3 DEF ChainInv, LoopInv, UpdateInv
<1>13. Links' /\ TrueSnapshots'
  <2> DEFINE New == {p}
  <2>1. Puts' \subseteq Puts \cup New /\ \A d \in New : d = p
    BY <1>7
  <2>2. Links /\ TrueSnapshots
    BY DEF ChainInv, Chained
  <2> HIDE DEF New
  <2>3. \A d \in Puts, e \in New : d.parent # e.id
    BY <1>2, <1>9, <2>1
  <2>4. \A d \in New : Linked(d)' /\ (Sound' => d.snapshot \subseteq {d.plain})
    BY <1>12, <2>1
  <2> QED
    BY <1>8, <1>10, <2>1, <2>2, <2>3, <2>4, ChainGrows
<1>14. FreshPuts'
  BY <1>0, <1>1, <1>4 DEF FreshPuts
<1>15. LoopInv'
  BY <1>0 DEF LoopInv, HeadInv, HeadInOrder, ExitInv, UpdateInv, Live
<1>16. StepsInv'
  BY <1>0, <1>2, <1>7 DEF ChainInv, StepsInv, Live
<1> QED
  BY <1>8, <1>13, <1>14, <1>15, <1>16 DEF ChainInv, Chained

-----------------------------------------------------------------------------
(* The rows of "exit".                                                        *)

LEMMA JoinIsOrdered ==
    ASSUME NEW first, NEW second, Ordered(first), Ordered(second),
           \A v \in first, w \in second : Before(v, w) /\ ~Before(w, v) /\ v # w
    PROVE  Ordered(first \cup second)
<1>1. IsFiniteSet(first \cup second)
  BY FS_Union DEF Ordered
<1>2. ASSUME NEW u \in first \cup second, NEW v \in first \cup second, NEW w \in first \cup second,
             Before(u, v), Before(v, w)
      PROVE  Before(u, w)
  BY <1>2 DEF Ordered
<1>3. ASSUME NEW v \in first \cup second, NEW w \in first \cup second
      PROVE  v # w <=> Before(v, w) \/ Before(w, v)
  BY <1>3 DEF Ordered
<1> QED
  BY <1>1, <1>2, <1>3 DEF Ordered

\* The same row under c.
LEMMA RowUnder ==
    ASSUME NEW w, DOMAIN w = RowFields, NEW c
    PROVE  /\ [w EXCEPT !.at = c].at = c /\ [w EXCEPT !.at = c].group = w.group
           /\ [w EXCEPT !.at = c].of = w.of /\ [w EXCEPT !.at = c].task = w.task
           /\ [w EXCEPT !.at = c].deltas = w.deltas /\ DOMAIN [w EXCEPT !.at = c] = RowFields
  BY DEF RowFields

LEMMA AnchoredRows ==
    ASSUME NEW rows, NEW S, Sequenced(rows, S), \A w \in rows : DOMAIN w = RowFields, NEW c
    PROVE  /\ Sequenced(Anchored(rows, c), S)
           /\ \A v \in Anchored(rows, c) : v.at = c /\ \E w \in rows : v = [w EXCEPT !.at = c]
<1> DEFINE g == [w \in rows |-> [w EXCEPT !.at = c]]
<1>1. ASSUME NEW w \in rows
      PROVE  /\ g[w].at = c /\ g[w].group = w.group /\ g[w].of = w.of /\ g[w].task = w.task
             /\ g[w].deltas = w.deltas /\ g[w] = [w EXCEPT !.at = c]
  <2>1. g[w] = [w EXCEPT !.at = c]
    OBVIOUS
  <2> HIDE DEF g
  <2> QED
    BY <2>1, RowUnder
<1>2. Anchored(rows, c) = {g[w] : w \in rows}
  BY DEF Anchored
<1> HIDE DEF g
<1>3. Renamed(g, rows)
  BY <1>1 DEF Renamed, Before
<1>4. Ordered({g[w] : w \in rows})
  BY <1>3, RenamedAreOrdered DEF Sequenced
<1>5. \A v \in Anchored(rows, c) : \E w \in rows : v = g[w]
  BY <1>2
<1>6. \A v \in Anchored(rows, c) : v.deltas \in Seq(S)
  <2>1. \A w \in rows : g[w].deltas \in Seq(S)
    <3>1. TAKE w \in rows
    <3>2. g[w].deltas = w.deltas /\ w.deltas \in Seq(S)
      BY <1>1 DEF Sequenced
    <3> QED
      BY <3>2
  <2> QED
    BY <1>5, <2>1
<1>7. ASSUME NEW v \in Anchored(rows, c)
      PROVE  v.at = c /\ \E w \in rows : v = [w EXCEPT !.at = c]
  <2>1. PICK w \in rows : v = g[w]
    BY <1>5
  <2>2. g[w].at = c /\ g[w] = [w EXCEPT !.at = c]
    BY <1>1
  <2> QED
    BY <2>1, <2>2
<1> QED
  BY <1>2, <1>4, <1>6, <1>7 DEF Sequenced

LEMMA WriteIs ==
    ASSUME NEW at, NEW group, NEW of, NEW task, NEW deltas, NEW w, w = Write(at, group, of, task, deltas)
    PROVE  /\ w.at = at /\ w.group = group /\ w.of = of /\ w.task = task /\ w.deltas = deltas
           /\ DOMAIN w = RowFields
  BY DEF Write, RowFields

\* What _captureExitDeltaWrites adds tells what the superstep has written.
Captured(rows, step) == {Write(None, step, w.of, w.task, w.deltas) : w \in {v \in rows : v.deltas # <<>>}}

ExitWritesGrowTo(old, rows, step, c) ==
    /\ Sequenced(old \cup Captured(rows, step), Marks)
    /\ Deltas(Anchored(old \cup Captured(rows, step), c)) = Deltas(Anchored(old, c)) \o Deltas(rows)
    /\ Deltas(Anchored(old, c)) \in Seq(Marks) /\ Deltas(rows) \in Seq(Marks)

LEMMA ExitWritesGrow ==
    ASSUME NEW old, NEW rows, NEW step \in Int, NEW c, Sequenced(old, Marks), Sequenced(rows, Marks),
           \A w \in old : DOMAIN w = RowFields /\ w.group \in Int /\ w.group < step,
           \A w \in rows : DOMAIN w = RowFields /\ w.group = Own
    PROVE  ExitWritesGrowTo(old, rows, step, c)
<1>0. Own \in Int
  BY CheckpointAssumption DEF Own
<1> DEFINE g == [w \in rows |-> Write(None, step, w.of, w.task, w.deltas)]
           h == [w \in rows |-> Write(c, step, w.of, w.task, w.deltas)]
           cap == Captured(rows, step)
<1>1. \A w \in rows : /\ g[w].at = None /\ g[w].group = step /\ g[w].of = w.of /\ g[w].task = w.task
                      /\ g[w].deltas = w.deltas /\ DOMAIN g[w] = RowFields
  BY WriteIs
<1>2. \A w \in rows : /\ h[w].at = c /\ h[w].group = step /\ h[w].of = w.of /\ h[w].task = w.task
                      /\ h[w].deltas = w.deltas /\ DOMAIN h[w] = RowFields
  BY WriteIs
<1>13. \A w \in rows : h[w] = [g[w] EXCEPT !.at = c]
  BY DEF Write
<1>3. cap = {g[w] : w \in Telling(rows)}
  BY DEF Captured, Telling
<1> HIDE DEF g, h, cap
<1>4. Renamed(g, rows) /\ Renamed(h, rows)
  <2>1. \A v, w \in rows : Before(g[v], g[w]) <=> Before(v, w)
    BY <1>0, <1>1 DEF Before
  <2>2. \A v, w \in rows : Before(h[v], h[w]) <=> Before(v, w)
    BY <1>0, <1>2 DEF Before
  <2> QED
    BY <1>1, <1>2, <2>1, <2>2 DEF Renamed
<1>5. Sequenced(cap, Marks) /\ \A w \in cap : w.at = None /\ w.group = step /\ DOMAIN w = RowFields
  <2>1. Telling(rows) \subseteq rows
    BY DEF Telling
  <2>2. Ordered(Telling(rows)) /\ Renamed(g, Telling(rows))
    BY <1>4, <2>1, SomeAreOrdered DEF Sequenced, Renamed
  <2>3. Ordered(cap)
    BY <1>3, <2>2, RenamedAreOrdered
  <2> QED
    BY <1>1, <1>3, <2>1, <2>3 DEF Sequenced
<1>6. Sequenced(old \cup cap, Marks)
  <2>1. \A v \in old, w \in cap : Before(v, w) /\ ~Before(w, v) /\ v # w
    BY <1>5 DEF Before
  <2> QED
    BY <1>5, <2>1, JoinIsOrdered DEF Sequenced
<1>7. Anchored(old \cup cap, c) = Anchored(old, c) \cup {h[w] : w \in Telling(rows)}
  <2>1. Anchored(cap, c) = {h[w] : w \in Telling(rows)}
    <3>1. Anchored(cap, c) = {[v EXCEPT !.at = c] : v \in {g[w] : w \in Telling(rows)}}
      BY <1>3 DEF Anchored
    <3>2. \A w \in Telling(rows) : h[w] = [g[w] EXCEPT !.at = c]
      BY <1>13 DEF Telling
    <3>3. {[v EXCEPT !.at = c] : v \in {g[w] : w \in Telling(rows)}} = {[g[w] EXCEPT !.at = c] : w \in Telling(rows)}
      BY Zenon
    <3>4. ASSUME NEW v, v \in {[g[w] EXCEPT !.at = c] : w \in Telling(rows)}
          PROVE  v \in {h[w] : w \in Telling(rows)}
      <4>1. PICK w \in Telling(rows) : v = [g[w] EXCEPT !.at = c]
        BY <3>4
      <4>2. v = h[w]
        BY <3>2, <4>1
      <4> QED
        BY <4>2
    <3>5. ASSUME NEW v, v \in {h[w] : w \in Telling(rows)}
          PROVE  v \in {[g[w] EXCEPT !.at = c] : w \in Telling(rows)}
      <4>1. PICK w \in Telling(rows) : v = h[w]
        BY <3>5
      <4>2. v = [g[w] EXCEPT !.at = c]
        BY <3>2, <4>1
      <4> QED
        BY <4>2
    <3>6. {[g[w] EXCEPT !.at = c] : w \in Telling(rows)} = {h[w] : w \in Telling(rows)}
      BY <3>4, <3>5, Zenon
    <3> QED
      BY <3>1, <3>3, <3>6, Zenon
  <2> QED
    BY <2>1 DEF Anchored
<1>8. Sequenced(Anchored(old \cup cap, c), Marks) /\ Sequenced(Anchored(old, c), Marks)
  BY <1>5, <1>6, AnchoredRows
<1>9. \A v \in Anchored(old, c), w \in {h[x] : x \in Telling(rows)} : Before(v, w)
  <2>1. \A v \in Anchored(old, c) : v.group \in Int /\ v.group < step
    <3>1. TAKE v \in Anchored(old, c)
    <3>2. PICK w \in old : v = [w EXCEPT !.at = c]
      BY AnchoredRows
    <3>3. v.group = w.group
      BY <3>2, RowUnder
    <3> QED
      BY <3>3
  <2>2. \A w \in {h[x] : x \in Telling(rows)} : w.group = step
    BY <1>2 DEF Telling
  <2> QED
    BY <2>1, <2>2 DEF Before
<1>10. Deltas(Anchored(old \cup cap, c)) = Deltas(Anchored(old, c)) \o Deltas({h[w] : w \in Telling(rows)})
  <2> DEFINE first == Anchored(old, c)
             second == {h[w] : w \in Telling(rows)}
  <2>1. Sequenced(first \cup second, Marks) /\ Precede(first, second)
    BY <1>7, <1>8, <1>9 DEF Precede
  <2> HIDE DEF first, second
  <2>2. JoinInOrder(first, second)
    BY <2>1, DeltasJoin
  <2>3. Deltas(first \cup second) = Deltas(first) \o Deltas(second)
    BY <2>2 DEF JoinInOrder
  <2> QED
    BY <1>7, <2>3 DEF first, second
<1>11. Deltas({h[w] : w \in Telling(rows)}) = Deltas(rows)
  BY <1>4, DeltasRenamed
<1>12. Deltas(Anchored(old, c)) \in Seq(Marks) /\ Deltas(rows) \in Seq(Marks)
  BY <1>8, DeltasAreSequence
<1> QED
  BY <1>6, <1>10, <1>11, <1>12 DEF cap, ExitWritesGrowTo

\* A task that succeeds adds its row, which the superstep's tasks have not had so far.
LEMMA TaskSucceedsKeepsChain ==
    ASSUME ThreadInv, ChainInv, NEW t \in todo, TaskSucceeds(t)
    PROVE  ChainInv'
<1>t. TypeInv
  BY DEF ThreadInv, DurableInv
<1> DEFINE row == RowOf(t)
           New == IF loop.durability = "exit" THEN {} ELSE {row}
<1>1. /\ phase = "run" /\ phase' = phase /\ phase \in Live /\ phase # "update"
      /\ row.at = loop.head /\ row.of = loop.head /\ row.group = Own /\ row.task = t /\ t \in Tasks
      /\ loop'.head = loop.head /\ loop'.config = loop.config /\ loop'.initial = loop.initial
      /\ loop'.empty = loop.empty /\ loop'.plain = loop.plain /\ loop'.durability = loop.durability
      /\ loop'.exitWrites = loop.exitWrites
      /\ inflight' = IF loop.durability = "exit" THEN inflight
                     ELSE inflight \cup {[op |-> "putWrites", row |-> row]}
      /\ todo' = todo \ {t} /\ stored' = stored /\ writes' = writes /\ queue' = queue /\ lost' = lost
  <2>1. Succeeds(t)
    BY <1>t, TaskSucceedsDoes
  <2>2. lost' = lost
    BY DEF TaskSucceeds, historyVars
  <2>3. t \in Tasks
    BY <1>t DEF TypeInv, CountsTyped
  <2> QED
    BY <2>1, <2>2, <2>3 DEF Succeeds, Live
<1>2. /\ Childless(loop.head)
      /\ \A w \in loop.pending : /\ w.at = loop.head /\ w.group = Own /\ w.of = loop.head
                                 /\ w.task \in Tasks /\ w.task \notin todo
      /\ RowsOf(loop.head) \subseteq loop.pending
      /\ loop.skipDone /\ (Sound => loop.live = loop.plain)
  BY <1>1 DEF ChainInv, LoopInv, HeadInv
<1>3. /\ loop'.live = loop.live /\ loop'.skipDone = loop.skipDone /\ loop'.step = loop.step
      /\ loop'.pending = loop.pending \cup {row}
  <2>1. loop' = [loop EXCEPT !.pending = {v \in @ : v.of # row.of \/ v.group # Own \/ v.task # t} \cup {row}]
    BY DEF TaskSucceeds, RowOf
  <2>2. DOMAIN loop = LoopFields
    BY <1>t DEF TypeInv, LoopTyped
  <2> HIDE DEF row
  <2>3. /\ loop'.live = loop.live /\ loop'.skipDone = loop.skipDone /\ loop'.step = loop.step
        /\ loop'.pending = {v \in loop.pending : v.of # row.of \/ v.group # Own \/ v.task # t} \cup {row}
    BY <2>1, <2>2 DEF LoopFields
  <2>4. \A v \in loop.pending : v.task # t
    BY <1>2
  <2> QED
    BY <2>3, <2>4
<1> HIDE DEF row
<1>4. Queued' = Queued /\ Stubs' = Stubs /\ Rows' = Rows \cup New
  <2>1. Queued' = Queued /\ Stubs' = Stubs
    BY <1>1 DEF Queued, Stubs
  <2>2. CASE loop.durability = "exit"
    BY <1>1, <2>1, <2>2 DEF Rows, LostRows
  <2>3. CASE loop.durability # "exit"
    <3> DEFINE k == [op |-> "putWrites", row |-> row]
    <3>1. k.op = "putWrites" /\ k.row = row /\ inflight' = inflight \cup {k}
      BY <1>1, <2>3
    <3> HIDE DEF k
    <3>2. LostRows(inflight') = LostRows(inflight) \cup {row}
      BY <3>1 DEF LostRows
    <3> QED
      BY <1>1, <2>1, <2>3, <3>2 DEF Rows
  <2> QED
    BY <2>2, <2>3
<1>5. Puts' = Puts
  BY <1>1, <1>4 DEF Puts
<1>6. \A d \in Puts : Kept(d.parent)
  <2>1. TAKE d \in Puts
  <2>2. \A w \in New : w.at # d.parent
    BY <1>1, <1>2 DEF Childless
  <2> HIDE DEF New
  <2> QED
    BY <1>1, <1>4, <2>2, RowsAdded
<1>7. Sound' => Sound
  BY <1>1, <1>4, <1>6, SoundWas
<1>8. Links' /\ TrueSnapshots'
  <2> DEFINE NoNew == {}
  <2>1. Puts' \subseteq Puts \cup NoNew /\ \A d \in NoNew : FALSE
    BY <1>5
  <2>2. Links /\ TrueSnapshots
    BY DEF ChainInv, Chained
  <2> HIDE DEF NoNew
  <2> QED
    BY <1>6, <1>7, <2>1, <2>2, ChainGrows
<1>9. OneRow'
  <2>1. \A w \in Rows : w.at = loop.head => w.task # t
    BY <1>2 DEF RowsOf
  <2>2. \A w \in Rows : ~SameRow(w, row) /\ ~SameRow(row, w)
    BY <1>1, <2>1 DEF SameRow
  <2> QED
    BY <1>4, <2>2 DEF ChainInv, OneRow
<1>10. FreshPuts'
  <2>1. \A k \in inflight' : k.op = "put" => k \in inflight
    BY <1>1
  <2> QED
    BY <1>1, <1>4, <2>1 DEF ChainInv, Chained, FreshPuts
<1>11. RowsOf(loop.head)' = RowsOf(loop.head) \cup New /\ \A c : c # loop.head => RowsOf(c)' = RowsOf(c)
  BY <1>1, <1>4 DEF RowsOf
<1>12. HeadInv'
  <2>1. Childless(loop.head)'
    BY <1>1, <1>2, <1>5 DEF Childless
  <2>2. (RowsOf(loop.head) \subseteq loop.pending)'
    BY <1>1, <1>2, <1>3, <1>11
  <2>3. \A w \in loop'.pending : /\ w.at = loop.head /\ w.group = Own /\ w.of = loop.head
                                 /\ w.task \in Tasks /\ w.task \notin todo'
    BY <1>1, <1>2, <1>3
  <2> QED
    BY <1>1, <1>2, <1>3, <1>7, <2>1, <2>2, <2>3 DEF HeadInv
<1>13. HeadInOrder'
  <2> SUFFICES ASSUME loop.durability # "exit" PROVE HeadInOrder'
    BY <1>1 DEF HeadInOrder
  <2>1. loop.config = loop.head /\ loop.pending \ RowsOf(loop.head) \subseteq lost
    BY <1>1 DEF ChainInv, LoopInv, HeadInOrder
  <2>2. New = {row}
    OBVIOUS
  <2> HIDE DEF New
  <2> QED
    BY <1>1, <1>3, <1>11, <2>1, <2>2 DEF HeadInOrder
<1>14. ExitInv'
  <2> SUFFICES ASSUME loop.durability = "exit" PROVE ExitInv'
    BY <1>1 DEF ExitInv
  <2>1. Anchor' = Anchor /\ inflight' = inflight /\ New = {}
    BY <1>1 DEF Anchor
  <2>2. \A c : RowsOf(c)' = RowsOf(c)
    BY <1>4, <2>1 DEF RowsOf
  <2>3. Childless(Anchor) => Childless(Anchor)'
    BY <1>5, <2>1 DEF Childless
  <2>4. ExitInv
    BY DEF ChainInv, LoopInv
  <2> QED
    BY <1>1, <1>3, <1>5, <2>1, <2>2, <2>3, <2>4 DEF ExitInv
<1>15. UpdateInv' /\ StepsInv'
  BY <1>1, <1>3, <1>5 DEF UpdateInv, ChainInv, StepsInv
<1> QED
  BY <1>8, <1>9, <1>10, <1>12, <1>13, <1>14, <1>15 DEF ChainInv, Chained, LoopInv

\* A loop's own rows are the superstep's, and so are those under its head unless one was lost.
LEMMA OwnRowsAre ==
    ASSUME ThreadInv, ChainInv, phase \in Live
    PROVE  /\ Current(loop.pending) = loop.pending /\ Sequenced(loop.pending, Marks)
           /\ loop.durability # "exit" /\ ~Damaged(loop.head) => loop.pending = RowsOf(loop.head)
           /\ \A e \in Puts : e.id = loop.head => e.plain = loop.plain
           /\ loop.head \in Ids /\ loop.head # None /\ phase \in Running
<1>0. TypeInv /\ RowsInv /\ HeadIsPlain /\ phase \in Running
  BY DEF ThreadInv, DurableInv, HandedOver, Live, Running
<1>1. /\ \A w \in loop.pending : /\ w.at = loop.head /\ w.group = Own /\ w.of = loop.head
                                 /\ w.task \in Tasks
      /\ RowsOf(loop.head) \subseteq loop.pending
      /\ loop.durability # "exit" => loop.pending \ RowsOf(loop.head) \subseteq lost
  BY DEF ChainInv, LoopInv, HeadInv, HeadInOrder
<1>2. Current(loop.pending) = loop.pending
  BY <1>1 DEF Current
<1>3. Sequenced(loop.pending, Marks)
  <2>1. Superstep(loop.pending, loop.head)
    BY <1>0, <1>2, CurrentIsSuperstep
  <2>2. Ordered(loop.pending)
    BY <2>1, NumberedAreOrdered DEF Superstep
  <2>3. ASSUME NEW w \in loop.pending PROVE w.deltas \in Seq(Marks)
    <3>1. w.of \in Nat /\ w.task \in Nat /\ IsMarked(w)
      BY <2>1 DEF Superstep, Numbered
    <3>2. CASE w.deltas = <<>>
      BY <3>2
    <3>3. CASE w.deltas # <<>>
      <4>1. PICK r \in Nat : w.deltas = <<<<w.of, w.task, r>>>>
        BY <3>1, <3>3 DEF IsMarked
      <4>2. <<w.of, w.task, r>> \in Marks
        BY <3>1 DEF Marks
      <4> QED
        BY <4>1, <4>2
    <3> QED
      BY <3>2, <3>3
  <2> QED
    BY <2>2, <2>3 DEF Sequenced
<1>4. ASSUME loop.durability # "exit", ~Damaged(loop.head), NEW w \in loop.pending, w \notin RowsOf(loop.head)
      PROVE  FALSE
  <2>1. w \in lost /\ w.at = loop.head
    BY <1>1, <1>4
  <2>2. PICK v \in Rows : SameRow(v, w)
    BY <1>4, <2>1 DEF Damaged
  <2>3. v \in RowsOf(loop.head)
    BY <2>1, <2>2 DEF RowsOf, SameRow
  <2>4. v \in loop.pending /\ v.task = w.task
    BY <1>1, <2>2, <2>3 DEF SameRow
  <2>5. v = w
    BY <1>0, <1>2, <1>4, <2>4 DEF RowsInv
  <2> QED
    BY <1>4, <2>3, <2>5
<1>5. \A e \in Puts : e.id = loop.head => e.plain = loop.plain
  <2>1. \A c \in DOMAIN stored : stored[c].id = c
    BY <1>0, StoredAreIds
  <2>2. \A s \in Stubs : s.id # loop.head
    BY <1>0 DEF HeadIsPlain, Stubs
  <2> QED
    BY <1>0, <2>1, <2>2 DEF HeadIsPlain, Puts
<1>6. loop.head \in Ids /\ loop.head # None
  BY <1>0 DEF TypeInv, LoopTyped, IsId
<1> QED
  BY <1>0, <1>1, <1>2, <1>3, <1>4, <1>5, <1>6

\* What Apply puts, and the loop after it.
Applied(p) ==
    /\ phase = "run" /\ phase' \in {"settle", "tick"} /\ nextId' = nextId + 1
    /\ stored' = stored /\ writes' = writes /\ inflight' = inflight /\ lost' = lost
    /\ loop'.head = nextId /\ loop'.initial = loop.initial /\ loop'.empty = loop.empty
    /\ loop'.durability = loop.durability /\ loop'.skipDone = loop.skipDone /\ loop'.step = loop.step + 1
    /\ loop'.plain = loop.plain \o Deltas(loop.pending) /\ loop'.live = loop.live \o Deltas(loop.pending)
    /\ loop'.pending = {}
    /\ loop'.config = IF loop.durability = "exit" THEN loop.config ELSE nextId
    /\ loop'.exitWrites = IF loop.durability = "exit"
                          THEN loop.exitWrites \cup Captured(loop.pending, loop.step) ELSE loop.exitWrites
    /\ p.id = nextId /\ p.parent = loop.config /\ p.plain = loop'.plain /\ p.step = loop.step
    /\ p.snapshot \subseteq {loop'.live}
    /\ Queued' \subseteq Queued \cup {p} /\ (loop.durability = "exit" => Queued' = Queued)

LEMMA ApplyPuts ==
    ASSUME ThreadInv, ChainInv, Apply
    PROVE  \E p : Applied(p)
<1> DEFINE deltas == Deltas(Current(loop.pending))
           captured == {Write(None, loop.step, w.of, w.task, w.deltas) :
                            w \in {v \in loop.pending : v.deltas # <<>>}}
           l == [loop EXCEPT !.plain = @ \o deltas, !.live = @ \o deltas, !.pending = {},
                             !.exitWrites = IF loop.durability = "exit" THEN @ \cup captured ELSE @]
<1>1. PICK more \in BOOLEAN : PutCheckpoint(l, nextId, deltas # <<>>, more, "loop")
  BY DEF Apply
<1>2. TypeInv /\ DOMAIN loop = LoopFields /\ nextId \in Nat /\ queue \in Seq(Queued) /\ phase \in Live
  BY CountsAreNumbers DEF ThreadInv, DurableInv, TypeInv, LoopTyped, CallsTyped, Apply, Live
<1>3. deltas = Deltas(loop.pending) /\ loop.head \in Ids /\ nextId # loop.head
  BY <1>2, OwnRowsAre DEF Ids
<1>4. captured = Captured(loop.pending, loop.step)
  BY DEF Captured
<1>5. /\ phase = "run" /\ phase' \in {"settle", "tick"} /\ nextId' = nextId + 1
      /\ stored' = stored /\ writes' = writes /\ inflight' = inflight /\ lost' = lost
  BY DEF Apply, saverVars, historyVars
<1> HIDE DEF deltas, captured
<1>6. /\ DOMAIN l = LoopFields /\ l.head = loop.head /\ l.config = loop.config /\ l.step = loop.step
      /\ l.initial = loop.initial /\ l.empty = loop.empty /\ l.durability = loop.durability
      /\ l.pending = {} /\ l.plain = loop.plain \o deltas /\ l.live = loop.live \o deltas
      /\ l.skipDone = loop.skipDone
      /\ l.exitWrites = IF loop.durability = "exit" THEN loop.exitWrites \cup captured ELSE loop.exitWrites
  BY <1>2 DEF LoopFields
<1> HIDE DEF l
<1>7. /\ PutLoop(l, nextId) /\ loop'.live = l.live /\ loop'.skipDone = l.skipDone /\ loop'.step = l.step + 1
      /\ \E p : /\ p.id = nextId /\ p.parent = l.config /\ p.plain = l.plain
                /\ p.snapshot = IF TakesSnapshot(l, nextId, deltas # <<>>) THEN {l.live} ELSE {}
                /\ p.step = l.step
                /\ Queued' \subseteq Queued \cup {p}
                /\ ~DoCheckpoint(l, nextId) => Queued' = Queued
  <2> DEFINE updated == deltas # <<>>
  <2>1. PutCheckpoint(l, nextId, updated, more, "loop") /\ DOMAIN l = LoopFields
    BY <1>1, <1>6
  <2> HIDE DEF updated
  <2>2. /\ PutLoop(l, nextId) /\ loop'.live = l.live /\ loop'.skipDone = l.skipDone
        /\ loop'.step = IF nextId = l.head THEN l.step ELSE l.step + 1
        /\ \E p : /\ p.id = nextId /\ p.parent = l.config /\ p.plain = l.plain
                  /\ p.snapshot = IF TakesSnapshot(l, nextId, updated) THEN {l.live} ELSE {}
                  /\ p.step = IF nextId = l.head THEN l.step - 1 ELSE l.step
                  /\ Queued' \subseteq Queued \cup {p}
                  /\ ~DoCheckpoint(l, nextId) => Queued' = Queued
    BY <1>2, <2>1, PutCheckpointAdds
  <2> QED
    BY <1>3, <1>6, <2>2 DEF updated
<1>8. DoCheckpoint(l, nextId) <=> loop.durability # "exit"
  BY <1>3, <1>6 DEF DoCheckpoint, Exiting
<1>9. /\ loop'.head = nextId /\ loop'.initial = loop.initial /\ loop'.empty = loop.empty
      /\ loop'.durability = loop.durability /\ loop'.pending = {} /\ loop'.plain = loop.plain \o deltas
      /\ loop'.config = (IF loop.durability = "exit" THEN loop.config ELSE nextId)
      /\ loop'.exitWrites = IF loop.durability = "exit" THEN loop.exitWrites \cup captured ELSE loop.exitWrites
  BY <1>6, <1>7, <1>8 DEF PutLoop
<1>10. PICK p : /\ p.id = nextId /\ p.parent = l.config /\ p.plain = l.plain /\ p.snapshot \subseteq {l.live}
                /\ p.step = l.step
                /\ Queued' \subseteq Queued \cup {p} /\ (~DoCheckpoint(l, nextId) => Queued' = Queued)
  BY <1>7
<1>11. Applied(p)
  BY <1>3, <1>4, <1>5, <1>6, <1>7, <1>8, <1>9, <1>10 DEF Applied
<1> QED
  BY <1>11

\* What every state that is on its way or stored is made of.
LEMMA PutsTell ==
    ASSUME ThreadInv, Stubs = {}, NEW e \in Puts
    PROVE  e.plain \in Seq(Marks)
  BY DEF ThreadInv, History, MarksInv, Tells, Puts

LEMMA ExitWritesAreApplied ==
    ASSUME ThreadInv, ChainInv, NEW p, Applied(p), loop.durability = "exit"
    PROVE  ExitInv'
<1> DEFINE rows == loop.exitWrites
           more == rows \cup Captured(loop.pending, loop.step)
           told == Deltas(Anchored(rows, Anchor))
           deltas == Deltas(loop.pending)
<1>t. TypeInv /\ phase \in Live
  BY DEF ThreadInv, DurableInv, Applied, Live
<1>1. /\ inflight = {} /\ loop.config = loop.initial /\ loop.head \notin DOMAIN stored
      /\ Anchor < loop.head /\ Childless(Anchor) /\ RowsOf(Anchor) = {}
      /\ Sequenced(rows, Marks)
      /\ \A w \in rows : w.at = None /\ w.group \in Int /\ w.group < loop.step
      /\ loop.initial # None => \A e \in Puts : e.id = Anchor => loop.plain = e.plain \o told
      /\ loop.initial = None => loop.plain = told /\ \A e \in Puts : e.id # Anchor
      /\ loop.step \in Int
  BY <1>t DEF ChainInv, LoopInv, ExitInv, StepsInv
<1>2. Sequenced(loop.pending, Marks) /\ loop.head \in Ids /\ \A w \in loop.pending : w.group = Own
  BY <1>t, OwnRowsAre DEF ChainInv, LoopInv, HeadInv
<1>3. /\ Sequenced(more, Marks) /\ Deltas(Anchored(more, Anchor)) = told \o deltas
      /\ told \in Seq(Marks) /\ deltas \in Seq(Marks)
  <2>1. \A w \in rows \cup loop.pending : DOMAIN w = RowFields
    BY <1>t DEF TypeInv, LoopTyped, IsWrite
  <2> DEFINE own == loop.pending
             step == loop.step
             c == Anchor
  <2>2. /\ Sequenced(rows, Marks) /\ Sequenced(own, Marks) /\ step \in Int
        /\ \A w \in rows : DOMAIN w = RowFields /\ w.group \in Int /\ w.group < step
        /\ \A w \in own : DOMAIN w = RowFields /\ w.group = Own
    BY <1>1, <1>2, <2>1
  <2> HIDE DEF rows, own, step, c
  <2>3. ExitWritesGrowTo(rows, own, step, c)
    BY <2>2, ExitWritesGrow
  <2> QED
    BY <2>3 DEF ExitWritesGrowTo, rows, own, step, c
<1>4. \A w \in more : w.at = None /\ w.group \in Int /\ w.group < loop.step + 1
  <2>1. ASSUME NEW w \in Captured(loop.pending, loop.step)
        PROVE  w.at = None /\ w.group = loop.step
    <3>1. PICK v \in loop.pending : w = Write(None, loop.step, v.of, v.task, v.deltas)
      BY DEF Captured
    <3> QED
      BY <3>1, WriteIs
  <2> QED
    BY <1>1, <2>1
<1>5. /\ stored' = stored /\ writes' = writes /\ inflight' = {} /\ Queued' = Queued
      /\ loop'.head = nextId /\ loop'.initial = loop.initial /\ loop'.empty = loop.empty
      /\ loop'.step = loop.step + 1 /\ loop'.plain = loop.plain \o deltas
      /\ loop'.config = loop.config /\ loop'.exitWrites = more
  BY <1>1 DEF Applied
<1>6. Anchor' = Anchor /\ Puts' = Puts /\ Rows' = Rows /\ Stubs = {}
  <2>1. Anchor' = Anchor
    BY <1>5 DEF Anchor
  <2>2. Stubs = {} /\ Stubs' = {} /\ Rows' = Rows
    BY <1>1, <1>5 DEF Stubs, Rows, LostRows
  <2> QED
    BY <1>5, <2>1, <2>2 DEF Puts
<1>7. nextId \notin DOMAIN stored /\ Anchor < nextId /\ RowsOf(nextId) = {}
  <2>1. nextId \notin DOMAIN stored /\ loop.head < nextId /\ RowsOf(nextId) = {}
    BY <1>t, <1>2, NewIds
  <2>2. Anchor \in Nat /\ loop.head \in Nat /\ nextId \in Nat
    BY <1>t, <1>2, CountsAreNumbers DEF Anchor, TypeInv, LoopTyped, IsId, Ids, Live, Running
  <2> QED
    BY <1>1, <2>1, <2>2
<1>8. Childless(Anchor)' /\ RowsOf(Anchor)' = {} /\ RowsOf(loop.head)' = {}
  BY <1>1, <1>5, <1>6, <1>7 DEF Childless, RowsOf
<1> HIDE DEF rows, more, told, deltas
<1>9. ASSUME loop.initial # None, NEW e \in Puts, e.id = Anchor
      PROVE  loop.plain \o deltas = e.plain \o (told \o deltas)
  <2>1. loop.plain = e.plain \o told /\ e.plain \in Seq(Marks)
    BY <1>1, <1>6, <1>9, PutsTell
  <2> DEFINE s == e.plain
  <2>2. s \in Seq(Marks) /\ loop.plain = s \o told
    BY <2>1
  <2> HIDE DEF s
  <2>3. (s \o told) \o deltas = s \o (told \o deltas)
    BY <1>3, <2>2, Associative
  <2> QED
    BY <2>2, <2>3 DEF s
<1>10. /\ loop'.initial # None =>
              \A e \in Puts' : e.id = Anchor' => loop'.plain = e.plain \o Deltas(Anchored(loop'.exitWrites, Anchor'))
       /\ loop'.initial = None =>
              loop'.plain = Deltas(Anchored(loop'.exitWrites, Anchor')) /\ \A e \in Puts' : e.id # Anchor'
  BY <1>1, <1>3, <1>5, <1>6, <1>9
<1>11. /\ inflight' = {} /\ loop'.config = loop'.initial /\ loop'.head \notin DOMAIN stored'
       /\ Anchor' < loop'.head
  BY <1>1, <1>5, <1>6, <1>7
<1>12. \A w \in loop'.exitWrites : w.at = None /\ w.group \in Int /\ w.group < loop'.step
  BY <1>4, <1>5
<1>13. Sequenced(loop'.exitWrites, Marks)
  BY <1>3, <1>5
<1> QED
  BY <1>8, <1>10, <1>11, <1>12, <1>13 DEF ExitInv, Sequenced, Ordered

LEMMA ApplyKeepsChain ==
    ASSUME ThreadInv, ChainInv, Apply
    PROVE  ChainInv'
<1>t. TypeInv
  BY DEF ThreadInv, DurableInv
<1>1. PICK p : Applied(p)
  BY ApplyPuts
<1> DEFINE deltas == Deltas(loop.pending)
<1>2. /\ stored' = stored /\ writes' = writes /\ inflight' = inflight /\ lost' = lost
      /\ phase \in Live /\ phase' \in Live /\ phase' # "run" /\ phase' # "update"
      /\ loop'.head = nextId /\ loop'.durability = loop.durability /\ loop'.skipDone = loop.skipDone
      /\ loop'.step = loop.step + 1 /\ loop'.plain = loop.plain \o deltas /\ loop'.live = loop.live \o deltas
      /\ loop'.pending = {}
      /\ p.id = nextId /\ p.parent = loop.config /\ p.plain = loop'.plain /\ p.step = loop.step
      /\ p.snapshot \subseteq {loop'.live}
      /\ Queued' \subseteq Queued \cup {p} /\ (loop.durability = "exit" => Queued' = Queued)
      /\ loop.durability # "exit" => loop'.config = nextId
  BY <1>1 DEF Applied, Live
<1>3. /\ loop.skipDone /\ (Sound => loop.live = loop.plain)
      /\ loop.durability # "exit" => loop.config = loop.head
      /\ loop.step \in Int
  BY <1>2 DEF ChainInv, LoopInv, HeadInv, HeadInOrder, StepsInv
<1>4. /\ loop.durability # "exit" /\ ~Damaged(loop.head) => loop.pending = RowsOf(loop.head)
      /\ \A e \in Puts : e.id = loop.head => e.plain = loop.plain
      /\ loop.head \in Ids /\ loop.head # None
  BY <1>2, OwnRowsAre
<1>5. /\ nextId \notin DOMAIN stored /\ RowsOf(nextId) = {} /\ Childless(nextId)
      /\ \A d \in Puts : d.id # nextId
      /\ loop.head < nextId /\ loop.head # nextId /\ loop.config # nextId
  <2>1. /\ nextId \notin DOMAIN stored /\ RowsOf(nextId) = {} /\ Childless(nextId)
        /\ \A d \in Puts : d.id # nextId
        /\ nextId \in Nat /\ \A c \in Ids : c < nextId
    BY <1>t, NewIds
  <2>2. loop.config \in Ids
    BY <1>t DEF TypeInv, LoopTyped
  <2>3. nextId \notin Ids
    BY <2>1
  <2> QED
    BY <1>4, <2>1, <2>2, <2>3
<1>6. Stubs' = Stubs /\ Rows' = Rows /\ \A c : RowsOf(c)' = RowsOf(c)
  BY <1>2 DEF Stubs, Rows, LostRows, RowsOf
<1>7. Puts' \subseteq Puts \cup {p} /\ (loop.durability = "exit" => Puts' = Puts)
  BY <1>2, <1>6 DEF Puts
<1>8. OneRow' /\ \A c : Kept(c)
  BY <1>2, <1>6, RowsKept DEF ChainInv
<1>9. Sound' => Sound
  BY <1>2, <1>6, <1>8, SoundWas
<1>10. ASSUME loop.durability # "exit" PROVE Linked(p)' /\ (Sound' => p.snapshot \subseteq {p.plain})
  <2>1. p.parent = loop.head /\ p.parent < p.id /\ p.parent # None
    BY <1>2, <1>3, <1>4, <1>5, <1>10
  <2>2. ASSUME ~Damaged(p.parent)', NEW e \in Puts', e.id = p.parent
        PROVE  p.plain = e.plain \o Deltas(RowsOf(e.id)')
    <3>1. ~Damaged(loop.head) /\ RowsOf(e.id)' = RowsOf(loop.head)
      BY <1>6, <1>8, <2>1, <2>2 DEF Kept
    <3>2. e \in Puts
      BY <1>2, <1>5, <1>7, <2>1, <2>2
    <3>3. e.plain = loop.plain /\ loop.pending = RowsOf(loop.head)
      BY <1>4, <1>10, <2>1, <2>2, <3>1, <3>2
    <3> QED
      BY <1>2, <3>1, <3>3
  <2>3. Sound' => p.snapshot \subseteq {p.plain}
    BY <1>2, <1>3, <1>9
  <2> QED
    BY <2>1, <2>2, <2>3 DEF Linked
<1>11. Links' /\ TrueSnapshots'
  <2> DEFINE New == IF loop.durability = "exit" THEN {} ELSE {p}
  <2>1. Puts' \subseteq Puts \cup New /\ \A d \in New : d = p /\ loop.durability # "exit"
    BY <1>7
  <2>2. Links /\ TrueSnapshots
    BY DEF ChainInv, Chained
  <2> HIDE DEF New
  <2>3. \A d \in New : Linked(d)' /\ (Sound' => d.snapshot \subseteq {d.plain})
    BY <1>10, <2>1
  <2>4. \A d \in Puts, e \in New : d.parent # e.id
    BY <1>2, <1>5, <2>1 DEF Childless
  <2> QED
    BY <1>8, <1>9, <2>1, <2>2, <2>3, <2>4, ChainGrows
<1>12. FreshPuts'
  <2>1. \A d \in DOMAIN stored : stored[d].parent # nextId
    BY <1>5 DEF Childless, Puts
  <2> QED
    BY <1>2, <1>5, <1>6, <2>1 DEF ChainInv, Chained, FreshPuts
<1>13. HeadInv'
  <2>1. Childless(loop.head)'
    BY <1>2, <1>5, <1>7 DEF Childless
  <2> QED
    BY <1>2, <1>3, <1>5, <1>6, <1>9, <2>1 DEF HeadInv
<1>14. HeadInOrder' /\ UpdateInv'
  BY <1>2 DEF HeadInOrder, UpdateInv
<1>15. ExitInv'
  <2>1. CASE loop.durability = "exit"
    BY <1>1, <2>1, ExitWritesAreApplied
  <2>2. CASE loop.durability # "exit"
    BY <1>2, <2>2 DEF ExitInv
  <2> QED
    BY <2>1, <2>2
<1>16. StepsInv'
  BY <1>2, <1>3, <1>7 DEF ChainInv, StepsInv
<1> QED
  BY <1>8, <1>11, <1>12, <1>13, <1>14, <1>15, <1>16 DEF ChainInv, Chained, LoopInv

LEMMA RowsOnce ==
    ASSUME NEW rows, NEW S, Sequenced(rows, S), NEW v \in rows, NEW w \in rows, SameRow(v, w)
    PROVE  v = w
<1>1. ~Before(w, w) /\ (Before(v, w) <=> Before(w, w)) /\ (Before(w, v) <=> Before(w, w))
  BY DEF Sequenced, Ordered, Before, SameRow
<1> QED
  BY <1>1 DEF Sequenced, Ordered

LEMMA CalledRows ==
    ASSUME NEW rows, NEW c
    PROVE  LostRows(Calls(rows, c)) = Anchored(rows, c) /\ \A k \in Calls(rows, c) : k.op = "putWrites"
<1> DEFINE f(w) == [op |-> "putWrites", row |-> [w EXCEPT !.at = c]]
<1>1. \A k \in Calls(rows, c) : \E w \in rows : k = f(w)
  BY DEF Calls
<1>2. \A w \in rows : f(w) \in Calls(rows, c)
  BY DEF Calls
<1>3. \A w : f(w).op = "putWrites" /\ f(w).row = [w EXCEPT !.at = c]
  OBVIOUS
<1> HIDE DEF f
<1>4. ASSUME NEW r \in LostRows(Calls(rows, c)) PROVE r \in Anchored(rows, c)
  <2>1. PICK k \in Calls(rows, c) : r = k.row
    BY DEF LostRows
  <2>2. PICK w \in rows : k = f(w)
    BY <1>1
  <2> QED
    BY <1>3, <2>1, <2>2 DEF Anchored
<1>5. ASSUME NEW r \in Anchored(rows, c) PROVE r \in LostRows(Calls(rows, c))
  <2>1. PICK w \in rows : r = [w EXCEPT !.at = c]
    BY DEF Anchored
  <2>2. f(w) \in Calls(rows, c) /\ f(w).op = "putWrites" /\ f(w).row = r
    BY <1>2, <1>3, <2>1
  <2> QED
    BY <2>2 DEF LostRows
<1> QED
  BY <1>1, <1>3, <1>4, <1>5

\* What Finish stores in "exit": the checkpoint p, the stub, and the rows under the anchor and the head.
Finished(p) ==
    /\ stored' = stored /\ lost' = lost /\ phase' = "drain"
    /\ p.id = loop.head /\ p.parent = (IF NeedsStub THEN loop.empty ELSE loop.config)
    /\ p.plain = loop.plain /\ p.snapshot \subseteq {loop.live} /\ p.step = loop.step - 1
    /\ p.snapshot = {} => ExitRows = loop.exitWrites
    /\ Queued' \subseteq {p}
    /\ Stubs' = IF NeedsStub THEN {Stub(loop.empty)} ELSE {}
    /\ \A j, k \in inflight' : j.op = "put" /\ k.op = "put" => j = k
    /\ Rows' = Rows \cup Anchored(ExitRows, Anchor) \cup Anchored(loop.pending, loop.head)

LEMMA FinishPuts ==
    ASSUME ThreadInv, ChainInv, Finish, loop.durability = "exit"
    PROVE  \E p : Finished(p)
<1> DEFINE l == [loop EXCEPT !.config = IF NeedsStub THEN loop.empty ELSE @]
           stub == IF NeedsStub THEN {[op |-> "put", row |-> Stub(loop.empty)]} ELSE {}
           calls == Calls(loop.pending, loop.head)
           anchored == Calls(ExitRows, Anchor)
<1>t. TypeInv /\ phase \in Live
  BY DEF ThreadInv, DurableInv, Finish, Live
<1>1. /\ PutCheckpoint(l, loop.head, FALSE, loop.more, loop.source)
      /\ inflight' = inflight \cup stub \cup anchored \cup calls
      /\ stored' = stored /\ writes' = writes /\ lost' = lost /\ phase' = "drain"
  BY DEF Finish, saverVars, historyVars
<1>2. DOMAIN loop = LoopFields /\ queue \in Seq(Queued) /\ inflight = {} /\ queue = <<>> /\ Queued = {}
  BY <1>t DEF TypeInv, LoopTyped, CallsTyped, ChainInv, LoopInv, ExitInv, ThreadInv, History, OrderInv, Queued
<1>3. /\ DOMAIN l = LoopFields /\ l.head = loop.head /\ l.config = (IF NeedsStub THEN loop.empty ELSE loop.config)
      /\ l.durability = loop.durability /\ l.counters = loop.counters /\ l.step = loop.step
      /\ l.plain = loop.plain /\ l.live = loop.live
  BY <1>2 DEF LoopFields
<1>4. \A j, k \in stub : j = k /\ j.op = "put"
  OBVIOUS
<1>5. {k.row : k \in stub} = IF NeedsStub THEN {Stub(loop.empty)} ELSE {}
  <2> DEFINE k == [op |-> "put", row |-> Stub(loop.empty)]
  <2>1. k.row = Stub(loop.empty) /\ stub = IF NeedsStub THEN {k} ELSE {}
    OBVIOUS
  <2> HIDE DEF k, stub
  <2> QED
    BY <2>1
<1>6. /\ LostRows(anchored) = Anchored(ExitRows, Anchor) /\ LostRows(calls) = Anchored(loop.pending, loop.head)
      /\ \A k \in anchored \cup calls : k.op = "putWrites"
  BY CalledRows
<1> HIDE DEF l, stub, calls, anchored
<1>7. Stubs' = IF NeedsStub THEN {Stub(loop.empty)} ELSE {}
  <2>1. Stubs' = {k.row : k \in stub}
    BY <1>1, <1>2, <1>4, <1>6 DEF Stubs
  <2> QED
    BY <1>5, <2>1
<1>8. \A j, k \in inflight' : j.op = "put" /\ k.op = "put" => j = k
  BY <1>1, <1>2, <1>4, <1>6
<1>9. Rows' = Rows \cup Anchored(ExitRows, Anchor) \cup Anchored(loop.pending, loop.head)
  <2>1. LostRows(inflight') = LostRows(anchored) \cup LostRows(calls) /\ LostRows(inflight) = {}
    BY <1>1, <1>2, <1>4, <1>6 DEF LostRows
  <2> QED
    BY <1>1, <1>6, <2>1 DEF Rows
<1>10. TakesSnapshot(l, loop.head, FALSE) <=> TakesSnapshot(loop, loop.head, FALSE)
  BY <1>3 DEF TakesSnapshot, DoCheckpoint, Exiting, NewCounters
<1>11. PICK p : /\ p.id = loop.head /\ p.parent = l.config /\ p.plain = l.plain
                /\ p.snapshot = IF TakesSnapshot(l, loop.head, FALSE) THEN {l.live} ELSE {}
                /\ p.step = l.step - 1
                /\ Queued' \subseteq Queued \cup {p}
  <2> DEFINE id == loop.head
             more == loop.more
             source == loop.source
  <2>1. PutCheckpoint(l, id, FALSE, more, source) /\ DOMAIN l = LoopFields
    BY <1>1, <1>3
  <2> HIDE DEF id, more, source
  <2>2. /\ PutLoop(l, id) /\ loop'.live = l.live /\ loop'.skipDone = l.skipDone
        /\ loop'.step = IF id = l.head THEN l.step ELSE l.step + 1
        /\ \E p : /\ p.id = id /\ p.parent = l.config /\ p.plain = l.plain
                  /\ p.snapshot = IF TakesSnapshot(l, id, FALSE) THEN {l.live} ELSE {}
                  /\ p.step = IF id = l.head THEN l.step - 1 ELSE l.step
                  /\ Queued' \subseteq Queued \cup {p}
                  /\ ~DoCheckpoint(l, id) => Queued' = Queued
    BY <1>2, <2>1, PutCheckpointAdds
  <2> QED
    BY <1>3, <2>2 DEF id
<1>12. p.snapshot = {} => ExitRows = loop.exitWrites
  BY <1>10, <1>11 DEF ExitRows
<1>13. p.snapshot \subseteq {loop.live}
  BY <1>3, <1>11
<1>14. Finished(p)
  BY <1>1, <1>2, <1>3, <1>7, <1>8, <1>9, <1>11, <1>12, <1>13 DEF Finished
<1> QED
  BY <1>14
LEMMA FinishKeepsChain ==
    ASSUME ThreadInv, ChainInv, Finish
    PROVE  ChainInv'
<1>t. TypeInv /\ phase \in Live /\ phase \in Running
  BY DEF ThreadInv, DurableInv, Finish, Live, Running
<1>1. CASE loop.durability # "exit"
  <2>1. /\ stored' = stored /\ writes' = writes /\ queue' = queue /\ inflight' = inflight /\ lost' = lost
        /\ loop' = loop /\ phase' = "drain" /\ phase' \notin Live
    BY <1>1 DEF Finish, saverVars, historyVars, Live
  <2> QED
    BY <2>1, StaysChained
<1>2. CASE loop.durability = "exit"
  <2>1. PICK p : Finished(p)
    BY <1>2, FinishPuts
  <2> DEFINE A == Anchored(ExitRows, Anchor)
             C == Anchored(loop.pending, loop.head)
  <2>2. /\ stored' = stored /\ lost' = lost /\ phase' = "drain" /\ phase' \notin Live
        /\ p.id = loop.head /\ p.parent = (IF NeedsStub THEN loop.empty ELSE loop.config)
        /\ p.plain = loop.plain /\ p.snapshot \subseteq {loop.live} /\ p.step = loop.step - 1
        /\ p.snapshot = {} => ExitRows = loop.exitWrites
        /\ Queued' \subseteq {p} /\ Stubs' = (IF NeedsStub THEN {Stub(loop.empty)} ELSE {})
        /\ \A j, k \in inflight' : j.op = "put" /\ k.op = "put" => j = k
        /\ Rows' = Rows \cup A \cup C
    BY <2>1 DEF Finished, Live
  <2>3. /\ inflight = {} /\ loop.config = loop.initial /\ loop.head \notin DOMAIN stored
        /\ RowsOf(loop.head) = {} /\ Childless(loop.head)
        /\ Anchor < loop.head /\ Childless(Anchor) /\ RowsOf(Anchor) = {}
        /\ Sequenced(loop.exitWrites, Marks)
        /\ loop.initial # None =>
               \A e \in Puts : e.id = Anchor => loop.plain = e.plain \o Deltas(Anchored(loop.exitWrites, Anchor))
        /\ loop.initial = None =>
               loop.plain = Deltas(Anchored(loop.exitWrites, Anchor)) /\ \A e \in Puts : e.id # Anchor
        /\ loop.step \in Int /\ (Sound => loop.live = loop.plain)
    BY <1>t, <1>2 DEF ChainInv, LoopInv, ExitInv, HeadInv, StepsInv
  <2>4. /\ loop.head \in Nat /\ loop.head # None /\ loop.empty \in Nat /\ loop.empty # None
        /\ loop.initial \in Nat /\ Anchor \in Nat /\ Anchor # None /\ Anchor # loop.head
        /\ Anchor = IF loop.initial # None THEN loop.initial ELSE loop.empty
    <3>1. loop.head \in Nat /\ loop.head # None /\ loop.empty \in Nat /\ loop.empty # None /\ loop.initial \in Nat
      BY <1>t, CountsAreNumbers DEF TypeInv, LoopTyped, IsId, Ids
    <3> QED
      BY <2>3, <3>1 DEF Anchor
  <2>5. /\ ExitRows \subseteq loop.exitWrites /\ Sequenced(ExitRows, Marks)
        /\ \A w \in ExitRows \cup loop.pending : DOMAIN w = RowFields
    <3>1. ExitRows \subseteq loop.exitWrites
      BY DEF ExitRows
    <3>2. Sequenced(ExitRows, Marks)
      BY <2>3, <3>1, SomeAreOrdered DEF Sequenced
    <3>3. \A w \in loop.exitWrites \cup loop.pending : DOMAIN w = RowFields
      BY <1>t DEF TypeInv, LoopTyped, IsWrite
    <3> QED
      BY <3>1, <3>2, <3>3
  <2>6. Sequenced(A, Marks) /\ \A v \in A : v.at = Anchor
    BY <2>5, AnchoredRows
  <2>7. Sequenced(C, Marks) /\ \A v \in C : v.at = loop.head
    <3>1. Sequenced(loop.pending, Marks)
      BY <1>t, OwnRowsAre
    <3>2. \A w \in loop.pending : DOMAIN w = RowFields
      BY <2>5
    <3> QED
      BY <3>1, <3>2, AnchoredRows
  <2>8. Deltas(A) \in Seq(Marks)
    BY <2>6, DeltasAreSequence
  <2>9. NeedsStub => loop.initial = None /\ Anchor = loop.empty
    BY <2>4 DEF NeedsStub
  <2>10. ~NeedsStub /\ loop.initial = None => ExitRows = {}
    BY DEF NeedsStub
  <2>e. p.snapshot = {} => A = Anchored(loop.exitWrites, Anchor)
    BY <2>2
  <2> HIDE DEF A, C
  <2>11. \A c : /\ c = Anchor => RowsOf(c)' = A
                /\ c # Anchor /\ c # loop.head => RowsOf(c)' = RowsOf(c)
                /\ c = loop.head => RowsOf(c)' = C
    <3>1. \A w : w \in Rows' /\ w.at = Anchor <=> w \in A
      BY <2>2, <2>3, <2>4, <2>6, <2>7 DEF RowsOf
    <3>2. \A w : w \in Rows' /\ w.at = loop.head <=> w \in C
      BY <2>2, <2>3, <2>4, <2>6, <2>7 DEF RowsOf
    <3>3. ASSUME NEW c, c # Anchor, c # loop.head PROVE RowsOf(c)' = RowsOf(c)
      BY <2>2, <2>6, <2>7, <3>3 DEF RowsOf
    <3> QED
      BY <3>1, <3>2, <3>3 DEF RowsOf
  <2>12. OneRow'
    <3> SUFFICES ASSUME NEW v \in Rows', NEW w \in Rows', SameRow(v, w)
                 PROVE  v = w
      BY DEF OneRow
    <3> DEFINE c == v.at
    <3>1. v.at = c /\ w.at = c
      BY DEF SameRow
    <3> HIDE DEF c
    <3>2. v \in RowsOf(c)' /\ w \in RowsOf(c)'
      BY <3>1 DEF RowsOf
    <3>3. CASE c = Anchor
      BY <2>6, <2>11, <3>2, <3>3, RowsOnce
    <3>4. CASE c = loop.head
      BY <2>7, <2>11, <3>2, <3>4, RowsOnce
    <3>5. CASE c # Anchor /\ c # loop.head
      <4>1. v \in Rows /\ w \in Rows
        BY <2>11, <3>2, <3>5 DEF RowsOf
      <4> QED
        BY <4>1 DEF ChainInv, OneRow
    <3> QED
      BY <3>3, <3>4, <3>5
  <2>13. \A d \in Puts : Kept(d.parent)
    <3>1. TAKE d \in Puts
    <3>2. d.parent # loop.head /\ d.parent # Anchor
      BY <2>3 DEF Childless
    <3> DEFINE New == A \cup C
    <3>3. Rows' = Rows \cup New /\ lost' = lost /\ \A w \in New : w.at # d.parent
      BY <2>2, <2>6, <2>7, <3>2
    <3> HIDE DEF New
    <3> QED
      BY <3>3, RowsAdded
  <2>14. \A d \in DOMAIN stored : stored[d].parent # loop.head /\ stored[d].parent # Anchor
    BY <2>3 DEF Childless, Puts
  <2>15. \A s \in Stubs' : s.id = Anchor /\ s.id = loop.empty /\ s.parent = None /\ s.plain = <<>> /\ s.snapshot = {}
                          /\ s.step = -2 /\ NeedsStub
    BY <2>2, <2>9 DEF Stub, Checkpoint
  <2>16. Sound' => Sound
    <3>1. \A d \in DOMAIN stored : \A s \in Stubs' : s.id # stored[d].parent
      BY <2>14, <2>15
    <3> QED
      BY <2>2, <2>13, <3>1, SoundWas
  <2> DEFINE New == {p} \cup Stubs'
  <2>17. Puts' \subseteq Puts \cup New
    BY <2>2 DEF Puts
  <2>18. \A e \in Puts : e.id # None
    BY <1>t, PutsAreTyped
  <2>19. \A e \in Puts' : e.id # None
    BY <2>2, <2>4, <2>15, <2>17, <2>18
  <2>20. \A s \in Stubs' : Linked(s)'
    <3>1. TAKE s \in Stubs'
    <3>2. s.parent = None /\ s.id = Anchor /\ s.plain = <<>>
      BY <2>15
    <3>3. s.parent < s.id
      BY <2>4, <3>2 DEF None
    <3>4. \A e \in Puts' : e.id # s.parent
      BY <2>19, <3>2
    <3> QED
      BY <3>2, <3>3, <3>4 DEF Linked
  <2>21. Linked(p)'
    <3>1. p.parent < p.id
      BY <2>2, <2>3, <2>4, <2>9 DEF None
    <3>2. ASSUME p.snapshot = {}, p.parent = None PROVE p.plain = <<>>
      <4>1. ~NeedsStub /\ loop.initial = None
        BY <2>2, <2>3, <2>4, <3>2
      <4>2. loop.exitWrites = {} /\ loop.plain = Deltas(Anchored(loop.exitWrites, Anchor))
        BY <2>2, <2>3, <2>10, <3>2, <4>1
      <4>3. Anchored(loop.exitWrites, Anchor) = {}
        BY <4>2 DEF Anchored
      <4> QED
        BY <2>2, <4>2, <4>3, NoDeltas
    <3>3. ASSUME p.snapshot = {}, NEW e \in Puts', e.id = p.parent
          PROVE  p.plain = e.plain \o Deltas(RowsOf(e.id)')
      <4>1. p.parent # None
        BY <2>19, <3>3
      <4>2. p.parent = Anchor
        BY <2>2, <2>3, <2>4, <2>9, <4>1
      <4>3. RowsOf(e.id)' = A
        BY <2>11, <3>3, <4>2
      <4>4. e # p
        BY <2>2, <2>4, <3>3, <4>2
      <4>5. CASE e \in Puts
        <5>1. loop.initial # None
          BY <2>3, <3>3, <4>2, <4>5
        <5>2. loop.plain = e.plain \o Deltas(Anchored(loop.exitWrites, Anchor))
          BY <2>3, <3>3, <4>2, <4>5, <5>1
        <5> QED
          BY <2>2, <2>e, <3>3, <4>3, <5>2
      <4>6. CASE e \in Stubs'
        <5>1. e.plain = <<>> /\ loop.initial = None
          BY <2>9, <2>15, <4>6
        <5>2. loop.plain = Deltas(A)
          BY <2>3, <2>e, <3>3, <5>1
        <5>3. <<>> \o Deltas(A) = Deltas(A)
          BY <2>8
        <5> QED
          BY <2>2, <4>3, <5>1, <5>2, <5>3
      <4> QED
        BY <2>17, <4>4, <4>5, <4>6
    <3> QED
      BY <3>1, <3>2, <3>3 DEF Linked
  <2>22. Sound' => p.snapshot \subseteq {p.plain}
    BY <2>2, <2>3, <2>16
  <2>23. Links' /\ TrueSnapshots'
    <3>1. Links /\ TrueSnapshots
      BY DEF ChainInv, Chained
    <3>2. \A d \in New : d = p \/ d \in Stubs'
      OBVIOUS
    <3> HIDE DEF New
    <3>3. \A d \in New : Linked(d)' /\ (Sound' => d.snapshot \subseteq {d.plain})
      BY <2>15, <2>20, <2>21, <2>22, <3>2
    <3>4. \A d \in New : d.id = loop.head \/ d.id = Anchor
      BY <2>2, <2>15, <3>2
    <3>5. \A d \in Puts, e \in New : d.parent # e.id
      BY <2>3, <3>4 DEF Childless
    <3> QED
      BY <2>13, <2>16, <2>17, <3>1, <3>3, <3>5, ChainGrows
  <2>24. FreshPuts'
    <3>1. \A s \in Stubs' : s.id \notin DOMAIN stored
      <4>1. \A d \in DOMAIN stored : stored[d].id = d /\ stored[d] \in Puts
        BY <1>t, StoredAreIds DEF Puts
      <4> QED
        BY <2>3, <2>9, <2>15, <4>1
    <3>2. \A d \in Queued' : d.id = loop.head
      BY <2>2
    <3> QED
      BY <2>2, <2>3, <2>14, <2>15, <3>1, <3>2 DEF FreshPuts
  <2>25. StepsInv'
    <3>1. \A d \in Puts' : d.step \in Int
      BY <2>2, <2>3, <2>15, <2>17 DEF ChainInv, StepsInv
    <3> QED
      BY <2>2, <3>1 DEF StepsInv
  <2>26. LoopInv'
    BY <2>2 DEF LoopInv, HeadInv, HeadInOrder, ExitInv, UpdateInv
  <2> QED
    BY <2>12, <2>23, <2>24, <2>25, <2>26 DEF ChainInv, Chained
<1> QED
  BY <1>1, <1>2

LEMMA InitIsChained ==
    ASSUME Init
    PROVE  ChainInv
<1>1. /\ phase = "idle" /\ phase \notin Live
      /\ DOMAIN stored = {} /\ DOMAIN queue = {} /\ inflight = {} /\ writes = {}
  BY DEF Init, Live
<1>2. Queued = {} /\ Stubs = {} /\ Rows = {}
  BY <1>1 DEF Queued, Stubs, Rows, LostRows
<1>3. Puts = {}
  BY <1>1, <1>2 DEF Puts
<1>4. OneRow /\ Links /\ TrueSnapshots /\ FreshPuts
  BY <1>1, <1>2, <1>3 DEF OneRow, Links, TrueSnapshots, FreshPuts
<1>5. StepsInv /\ LoopInv
  BY <1>1, <1>3 DEF StepsInv, LoopInv, HeadInv, HeadInOrder, ExitInv, UpdateInv
<1> QED
  BY <1>4, <1>5 DEF ChainInv, Chained

LEMMA StutterKeepsChain ==
    ASSUME ChainInv, UNCHANGED vars
    PROVE  ChainInv'
<1>1. /\ stored' = stored /\ writes' = writes /\ phase' = phase /\ loop' = loop /\ todo' = todo
      /\ queue' = queue /\ inflight' = inflight /\ lost' = lost
  BY DEF vars, saverVars, runVars, pendingVars, historyVars
<1>2. Queued' = Queued /\ Stubs' = Stubs /\ Rows' = Rows
  BY <1>1 DEF Queued, Stubs, Rows, LostRows
<1>3. Puts' = Puts /\ Anchor' = Anchor /\ (\A c : Damaged(c)' <=> Damaged(c)) /\ (\A c : RowsOf(c)' = RowsOf(c))
      /\ (\A c : Childless(c)' <=> Childless(c))
  BY <1>1, <1>2 DEF Puts, Anchor, Damaged, RowsOf, Childless
<1>4. (Sound' <=> Sound) /\ \A d : Linked(d)' <=> Linked(d)
  BY <1>1, <1>2, <1>3 DEF Sound, Linked
<1>5. OneRow' /\ Chained' /\ StepsInv'
  BY <1>1, <1>2, <1>3, <1>4 DEF ChainInv, OneRow, Chained, Links, TrueSnapshots, FreshPuts, StepsInv
<1>6. HeadInv' /\ HeadInOrder'
  BY <1>1, <1>3, <1>4 DEF ChainInv, LoopInv, HeadInv, HeadInOrder, Childless, RowsOf
<1>7. ExitInv'
  <2>1. (Childless(Anchor) => Childless(Anchor)') /\ RowsOf(Anchor)' = RowsOf(Anchor)
    BY <1>2, <1>3 DEF Childless, RowsOf
  <2>2. RowsOf(loop.head)' = RowsOf(loop.head)
    BY <1>1, <1>2 DEF RowsOf
  <2> QED
    BY <1>1, <1>3, <2>1, <2>2 DEF ChainInv, LoopInv, ExitInv
<1>8. UpdateInv'
  <2>1. Damaged(loop.config)' <=> Damaged(loop.config)
    BY <1>1, <1>2 DEF Damaged
  <2> QED
    BY <1>1, <1>3, <2>1 DEF ChainInv, LoopInv, UpdateInv
<1> QED
  BY <1>5, <1>6, <1>7, <1>8 DEF ChainInv, LoopInv

\* One step of an orderly thread keeps the chain.
LEMMA NextKeepsChain ==
    ASSUME Disorder = {}, ThreadInv, ChainInv, [Next]_vars
    PROVE  ChainInv'
<1>t. TypeInv /\ OrderInv /\ MarksInv /\ StubInv
  BY DEF ThreadInv, DurableInv, History
<1>1. ASSUME NEW c \in (DOMAIN stored) \cup {None}, NEW explicit \in BOOLEAN,
             \/ \E d \in Durabilities : Invoke(d, c, explicit) \/ Resume(d, c, explicit)
             \/ StartUpdate(c, explicit)
      PROVE  ChainInv'
  BY <1>1, StartKeepsChain, StartUpdateKeepsChain
<1>2. CASE \E c \in DOMAIN stored : StartCopy(c)
  BY <1>2, StartCopyKeepsChain
<1>3. CASE Prepare \/ Settle \/ Return
  BY <1>3, PrepareKeepsChain, SettleKeepsChain
<1>4. CASE \E t \in todo : TaskSucceeds(t)
  BY <1>4, TaskSucceedsKeepsChain
<1>5. CASE Apply \/ Finish \/ FinishUpdate
  BY <1>5, ApplyKeepsChain, FinishKeepsChain, FinishUpdateKeepsChain
<1>6. CASE PutLands \/ \E k \in inflight : CallLands(k)
  BY <1>t, <1>6, PutLandsKeepsChain, CallLandsKeepsChain
<1>7. CASE PutIsRejected \/ Crash \/ \E k \in inflight : CallIsRejected(k)
  BY <1>t, <1>7, PutIsRejectedKeepsChain, CrashKeepsChain, CallIsRejectedKeepsChain
<1>8. CASE UNCHANGED vars
  BY <1>8, StutterKeepsChain
<1> QED
  BY <1>1, <1>2, <1>3, <1>4, <1>5, <1>6, <1>7, <1>8 DEF Next

\* When every call has settled, no row is lost and no parent is missing.
LEMMA SettledIsSound ==
    ASSUME Settled
    PROVE  Sound
<1>1. Rows = writes /\ \A w \in lost : \E v \in writes : SameRow(v, w)
  BY DEF Settled, Rows, LostRows
<1>2. \A c : ~Damaged(c)
  BY <1>1 DEF Damaged
<1> QED
  BY <1>2 DEF Settled, Sound

\* Once every call of the checkpointer has settled, a reader that walks over the
\* parents of a checkpoint and replays the writes stored under them
\* (getDeltaChannelHistory, replayWrites) has the state that the supersteps made
\* (_applyWrites), at every checkpoint of the thread: runs of any durability, cut
\* off or not, branched or not, from clients that keep order.
THEOREM ReadersSeeWhatWasWritten ==
    ASSUME Disorder = {}
    PROVE  Spec => []ReconstructionMatchesLive
<1>1. Init => ThreadInv /\ ChainInv
  BY InitIsThread, InitIsChained
<1>2. ThreadInv /\ ChainInv /\ [Next]_vars => (ThreadInv /\ ChainInv)'
  <2>1. "abandon" \notin Disorder
    OBVIOUS
  <2> QED
    BY <2>1, NextSteps, StepsKeepThread, NextKeepsChain DEF ThreadInv, DurableInv
<1>3. ThreadInv /\ ChainInv => ReconstructionMatchesLive
  <2> SUFFICES ASSUME ThreadInv, ChainInv, Settled
               PROVE  \A c \in DOMAIN stored : Rebuild(c) = stored[c].plain
    BY DEF ReconstructionMatchesLive
  <2>1. Sound /\ inflight = {} /\ Links /\ TrueSnapshots
    BY SettledIsSound DEF Settled, ChainInv, Chained
  <2> QED
    BY <2>1, SoundIsTold
<1> QED
  BY <1>1, <1>2, <1>3, PTL DEF Spec
==============================================================================
