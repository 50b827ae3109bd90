-------------------------- MODULE PregelAlgoProofs --------------------------
(***************************************************************************)
(* Proofs about PregelAlgo, for every graph: whatever the nodes write, and *)
(* wherever a run stops, a change of a channel is noticed.                 *)
(***************************************************************************)
EXTENDS PregelAlgo, WellFoundedInduction, TLAPS

\* The versions are numbers, one of them is the highest, and no node has seen a
\* version that its channel never had.
VersionsTyped == versions \in [Channels -> Nat] /\ seen \in [Nodes -> [Channels -> Nat]]
HasHighest == \E c \in Channels : \A d \in Channels : versions[d] <= versions[c]
SeenIsPast == \A n \in Nodes, c \in Channels : seen[n][c] <= versions[c]
VersionInv == VersionsTyped /\ HasHighest /\ SeenIsPast

\* What ChangesAreUnseen says of one step.
ChangeIsUnseen ==
    \A c \in Channels : versions'[c] # versions[c] =>
        /\ \A d \in Channels : versions'[c] > versions[d]
        /\ \A n \in Nodes : versions'[c] > seen'[n][c]

\* MaxVersion is the version of a channel, and no channel has a higher one.
LEMMA MaxVersionIsHighest ==
    ASSUME VersionInv
    PROVE  /\ MaxVersion \in Nat
           /\ \A c \in Channels : versions[c] <= MaxVersion
<1> DEFINE S == {versions[c] : c \in Channels}
           P(v) == \A c \in Channels : versions[c] <= v
<1>1. \E v \in S : P(v)
  BY DEF VersionInv, HasHighest
<1>2. MaxVersion = CHOOSE v \in S : P(v)
  BY DEF MaxVersion
<1>3. MaxVersion \in S /\ P(MaxVersion)
  <2> HIDE DEF S, P
  <2> QED
    BY <1>1, <1>2
<1> QED
  BY <1>3 DEF VersionInv, VersionsTyped

\* The version of a channel after _applyWrites: the old one, or one above all.
LEMMA VersionAfterApply ==
    ASSUME VersionInv, NEW ts, NEW W, NEW step,
           versions' = VersionsAfter(ts, W, step)
    PROVE  /\ versions' \in [Channels -> Nat]
           /\ \A c \in Channels :
                \/ versions'[c] = versions[c]
                \/ versions'[c] = WriteVersion(ts)
                \/ c \in Consumed(ts) /\ versions'[c] = MaxVersion + 1
           /\ WriteVersion(ts) \in Nat /\ WriteVersion(ts) > MaxVersion
           /\ Consumed(ts) # {} => WriteVersion(ts) = MaxVersion + 2
<1>1. MaxVersion \in Nat
  BY MaxVersionIsHighest
<1>2. /\ WriteVersion(ts) \in Nat /\ WriteVersion(ts) > MaxVersion
      /\ Consumed(ts) # {} => WriteVersion(ts) = MaxVersion + 2
  BY <1>1 DEF WriteVersion
<1>3. \A c \in Channels : versions[c] \in Nat
  BY DEF VersionInv, VersionsTyped
<1> DEFINE new == ChangedByWrites(ts, W) \cup WipedBy(ts, W, step) \cup FinishedBy(ts, W, step)
           used == Consumed(ts)
           v == WriteVersion(ts)
           m == MaxVersion + 1
<1>4. versions' = [c \in Channels |-> IF c \in new THEN v ELSE IF c \in used THEN m ELSE versions[c]]
  BY DEF VersionsAfter
<1>5. v \in Nat /\ m \in Nat
  BY <1>1, <1>2
<1> HIDE DEF new, used, v, m
<1>6. /\ versions' \in [Channels -> Nat]
      /\ \A c \in Channels : \/ versions'[c] = versions[c]
                             \/ versions'[c] = v
                             \/ c \in used /\ versions'[c] = m
  BY <1>3, <1>4, <1>5
<1> QED
  BY <1>2, <1>6 DEF v, m, used

\* _applyWrites keeps the invariant, and what it changes is unseen.
LEMMA ApplyKeepsVersions ==
    ASSUME VersionInv, NEW ts, NEW W, NEW step, Apply(ts, W, step)
    PROVE  VersionInv' /\ ChangeIsUnseen
<1>1. versions' = VersionsAfter(ts, W, step) /\ seen' = SeenAfter(ts)
  BY DEF Apply
<1>2. /\ MaxVersion \in Nat
      /\ \A c \in Channels : versions[c] \in Nat /\ versions[c] <= MaxVersion
  BY MaxVersionIsHighest DEF VersionInv, VersionsTyped
<1>3. /\ versions' \in [Channels -> Nat]
      /\ \A c \in Channels :
            \/ versions'[c] = versions[c]
            \/ versions'[c] = WriteVersion(ts)
            \/ c \in Consumed(ts) /\ versions'[c] = MaxVersion + 1
      /\ WriteVersion(ts) \in Nat /\ WriteVersion(ts) > MaxVersion
      /\ Consumed(ts) # {} => WriteVersion(ts) = MaxVersion + 2
  BY <1>1, VersionAfterApply
<1>4. seen' \in [Nodes -> [Channels -> Nat]]
  BY <1>1 DEF SeenAfter, VersionInv, VersionsTyped
<1>5. \A n \in Nodes, c \in Channels : seen'[n][c] <= versions[c]
  BY <1>1, <1>2 DEF SeenAfter, VersionInv, VersionsTyped, SeenIsPast
<1>6. \A c \in Channels : versions'[c] # versions[c] => versions'[c] > MaxVersion
  BY <1>2, <1>3
<1>7. \A c \in Channels : versions[c] <= versions'[c]
  BY <1>2, <1>3
<1>8. SeenIsPast'
  BY <1>2, <1>3, <1>4, <1>5, <1>7 DEF SeenIsPast
<1>9. ChangeIsUnseen
  BY <1>2, <1>3, <1>4, <1>5, <1>6 DEF ChangeIsUnseen
<1>10. HasHighest'
  <2>1. CASE \E c \in Channels : versions'[c] = WriteVersion(ts)
    BY <2>1, <1>2, <1>3 DEF HasHighest
  <2>2. CASE /\ \A c \in Channels : versions'[c] # WriteVersion(ts)
             /\ \E c \in Channels : versions'[c] = MaxVersion + 1
    BY <2>2, <1>2, <1>3 DEF HasHighest
  <2>3. CASE /\ \A c \in Channels : versions'[c] # WriteVersion(ts)
             /\ \A c \in Channels : versions'[c] # MaxVersion + 1
    BY <2>3, <1>2, <1>3 DEF HasHighest, VersionInv
  <2> QED
    BY <2>1, <2>2, <2>3
<1> QED
  BY <1>3, <1>4, <1>8, <1>9, <1>10 DEF VersionInv, VersionsTyped

\* A step that leaves the checkpoint alone.
LEMMA UnchangedKeepsVersions ==
    ASSUME VersionInv, UNCHANGED checkpointVars
    PROVE  VersionInv' /\ ChangeIsUnseen
  BY DEF VersionInv, VersionsTyped, HasHighest, SeenIsPast, ChangeIsUnseen, checkpointVars

LEMMA NextKeepsVersions ==
    ASSUME VersionInv, [Next]_vars
    PROVE  VersionInv' /\ ChangeIsUnseen
<1>1. ASSUME NEW input \in Inputs, Invoke(input)
      PROVE  VersionInv' /\ ChangeIsUnseen
  <2>1. PICK ts, W, step : Apply(ts, W, step)
    BY <1>1 DEF Invoke
  <2> QED
    BY <2>1, ApplyKeepsVersions
<1>2. ASSUME NEW writes \in Gotos, Command(writes)
      PROVE  VersionInv' /\ ChangeIsUnseen
  BY <1>2, ApplyKeepsVersions DEF Command
<1>3. ASSUME Superstep
      PROVE  VersionInv' /\ ChangeIsUnseen
  <2>1. \/ UNCHANGED checkpointVars
        \/ \E ts, W, step : Apply(ts, W, step)
    BY <1>3 DEF Superstep
  <2> QED
    BY <2>1, ApplyKeepsVersions, UnchangedKeepsVersions
<1>4. ASSUME Resume \/ Done \/ Stop \/ UNCHANGED vars
      PROVE  VersionInv' /\ ChangeIsUnseen
  <2>1. UNCHANGED checkpointVars
    BY <1>4 DEF Resume, Done, Stop, vars
  <2> QED
    BY <2>1, UnchangedKeepsVersions
<1> QED
  BY <1>1, <1>2, <1>3, <1>4 DEF Next

LEMMA InitHasVersions == Init => VersionInv
  BY GraphAssumption DEF Init, VersionInv, VersionsTyped, HasHighest, SeenIsPast

\* No change of a channel goes unnoticed (ChangesAreUnseen), in any graph.
THEOREM EveryChangeIsUnseen == Spec => ChangesAreUnseen
<1>1. VersionInv /\ [Next]_vars => VersionInv'
  BY NextKeepsVersions
<1>2. VersionInv /\ [Next]_vars => [ChangeIsUnseen]_vars
  BY NextKeepsVersions
<1>3. ChangesAreUnseen <=> [][ChangeIsUnseen]_vars
  BY DEF ChangesAreUnseen, ChangeIsUnseen
<1> QED
  BY <1>1, <1>2, <1>3, InitHasVersions, PTL DEF Spec

-----------------------------------------------------------------------------
(* _applyWrites, channel by channel.                                          *)

ChannelsTyped == DOMAIN content = Channels /\ finished \in [Channels -> BOOLEAN]

\* A channel's availability, class by class.
LEMMA Availability ==
    ASSUME NEW c \in Channels, NEW k
    PROVE  /\ Kind[c] = "NamedBarrierValue" => (IsAvailable(c, k) <=> IsFull(c, k))
           /\ Kind[c] = "NamedBarrierValueAfterFinish" => (IsAvailable(c, k) <=> k.finished /\ IsFull(c, k))
           /\ Kind[c] = "LastValueAfterFinish" => (IsAvailable(c, k) <=> k.finished /\ k.value # {})
           /\ Kind[c] \in {"LastValue"} \cup Wiping => (IsAvailable(c, k) <=> k.value # {})
  BY DEF IsAvailable, Wiping

LEMMA KindIsKnown ==
    ASSUME NEW c \in Channels
    PROVE  \/ Kind[c] \in Wiping \/ Kind[c] = "LastValue" \/ Kind[c] = "LastValueAfterFinish"
           \/ Kind[c] = "NamedBarrierValue" \/ Kind[c] = "NamedBarrierValueAfterFinish"
  BY GraphAssumption DEF Kinds, Wiping

\* The states that _applyWrites takes channel c through.
Stages(ts, W, step, c) ==
    /\ c \in Consumed(ts) <=> c \in UsedUp(ts) /\ Consumes(c, Channel[c])
    /\ AfterConsume(ts)[c] = IF c \in Consumed(ts) THEN Cleared ELSE Channel[c]
    /\ AfterWrites(ts, W)[c] = IF W[c] # {} THEN Update(c, AfterConsume(ts)[c], W[c]) ELSE AfterConsume(ts)[c]
    /\ c \in ChangedByWrites(ts, W) <=> W[c] # {} /\ Updates(c, AfterConsume(ts)[c], W[c])
    /\ c \in UpdatedByWrites(ts, W) <=> c \in ChangedByWrites(ts, W) /\ IsAvailable(c, AfterWrites(ts, W)[c])
    /\ c \in WipedBy(ts, W, step) <=> c \notin UpdatedByWrites(ts, W) /\ step /\ Wipes(c, AfterWrites(ts, W)[c])
    /\ AfterStep(ts, W, step)[c] = IF c \in WipedBy(ts, W, step) THEN Cleared ELSE AfterWrites(ts, W)[c]
    /\ c \in FinishedBy(ts, W, step) <=> IsLast(ts, W, step) /\ Finishes(c, AfterStep(ts, W, step)[c])
    /\ AfterApply(ts, W, step)[c] = IF c \in FinishedBy(ts, W, step)
                                    THEN [AfterStep(ts, W, step)[c] EXCEPT !.finished = TRUE]
                                    ELSE AfterStep(ts, W, step)[c]
    /\ c \in UpdatedAfter(ts, W, step) <=>
           \/ c \in UpdatedByWrites(ts, W)
           \/ c \in FinishedBy(ts, W, step) /\ IsAvailable(c, AfterApply(ts, W, step)[c])

LEMMA ApplyStages ==
    ASSUME NEW ts, NEW W, NEW step, NEW c \in Channels
    PROVE  Stages(ts, W, step, c)
<1>1. c \in Consumed(ts) <=> c \in UsedUp(ts) /\ Consumes(c, Channel[c])
  BY DEF Consumed, UsedUp
<1>2. AfterConsume(ts)[c] = IF c \in Consumed(ts) THEN Cleared ELSE Channel[c]
  BY Zenon DEF AfterConsume
<1>3. c \in Written(W) <=> W[c] # {}
  BY DEF Written
<1>4. AfterWrites(ts, W)[c] = IF W[c] # {} THEN Update(c, AfterConsume(ts)[c], W[c]) ELSE AfterConsume(ts)[c]
  BY <1>3, Zenon DEF AfterWrites
<1>5. c \in ChangedByWrites(ts, W) <=> W[c] # {} /\ Updates(c, AfterConsume(ts)[c], W[c])
  BY <1>3, Zenon DEF ChangedByWrites
<1>6. c \in UpdatedByWrites(ts, W) <=> c \in ChangedByWrites(ts, W) /\ IsAvailable(c, AfterWrites(ts, W)[c])
  BY Zenon DEF UpdatedByWrites
<1>7. c \in WipedBy(ts, W, step) <=> c \notin UpdatedByWrites(ts, W) /\ step /\ Wipes(c, AfterWrites(ts, W)[c])
  BY Zenon DEF WipedBy
<1>8. AfterStep(ts, W, step)[c] = IF c \in WipedBy(ts, W, step) THEN Cleared ELSE AfterWrites(ts, W)[c]
  BY Zenon DEF AfterStep
<1>9. c \in FinishedBy(ts, W, step) <=> IsLast(ts, W, step) /\ Finishes(c, AfterStep(ts, W, step)[c])
  BY Zenon DEF FinishedBy
<1>10. AfterApply(ts, W, step)[c] = IF c \in FinishedBy(ts, W, step)
                                           THEN [AfterStep(ts, W, step)[c] EXCEPT !.finished = TRUE]
                                           ELSE AfterStep(ts, W, step)[c]
  BY Zenon DEF AfterApply
<1>11. c \in UpdatedAfter(ts, W, step) <=>
                  \/ c \in UpdatedByWrites(ts, W)
                  \/ c \in FinishedBy(ts, W, step) /\ IsAvailable(c, AfterApply(ts, W, step)[c])
  BY Zenon DEF UpdatedAfter, FinishedBy, IsLast
<1> QED
  BY <1>1, <1>2, <1>4, <1>5, <1>6, <1>7, <1>8, <1>9, <1>10, <1>11 DEF Stages

\* What a step of _applyWrites leaves behind, as records.
Results(ts, W, step, c) ==
    /\ Channel[c] = [value |-> content[c], finished |-> finished[c]]
    /\ Channel'[c] = [value |-> content'[c], finished |-> finished'[c]]
    /\ content'[c] = AfterApply(ts, W, step)[c].value
    /\ finished'[c] = AfterApply(ts, W, step)[c].finished
    /\ versions'[c] = IF \/ c \in ChangedByWrites(ts, W) \/ c \in WipedBy(ts, W, step)
                         \/ c \in FinishedBy(ts, W, step)
                      THEN WriteVersion(ts)
                      ELSE IF c \in Consumed(ts) THEN MaxVersion + 1 ELSE versions[c]

LEMMA ApplyResult ==
    ASSUME ChannelsTyped, NEW ts, NEW W, NEW step, Apply(ts, W, step), NEW c \in Channels
    PROVE  Results(ts, W, step, c)
<1>1. /\ content' = [d \in Channels |-> AfterApply(ts, W, step)[d].value]
      /\ finished' = [d \in Channels |-> AfterApply(ts, W, step)[d].finished]
      /\ versions' = VersionsAfter(ts, W, step)
  BY Zenon DEF Apply
<1>2. Channel[c] = [value |-> content[c], finished |-> finished[c]]
  BY Zenon DEF Channel
<1>3. Channel'[c] = [value |-> content'[c], finished |-> finished'[c]]
  BY Zenon DEF Channel
<1>4. c \in ChangedByWrites(ts, W) \cup WipedBy(ts, W, step) \cup FinishedBy(ts, W, step)
          <=> \/ c \in ChangedByWrites(ts, W) \/ c \in WipedBy(ts, W, step)
              \/ c \in FinishedBy(ts, W, step)
  BY Zenon
<1>5. versions'[c] = IF c \in ChangedByWrites(ts, W) \cup WipedBy(ts, W, step) \cup FinishedBy(ts, W, step)
                     THEN WriteVersion(ts)
                     ELSE IF c \in Consumed(ts) THEN MaxVersion + 1 ELSE versions[c]
  BY <1>1, Zenon DEF VersionsAfter
<1> QED
  BY <1>1, <1>2, <1>3, <1>4, <1>5 DEF Results

\* Channels that last one superstep: wiped unless written.
LEMMA ApplyWiping ==
    ASSUME ChannelsTyped, NEW ts, NEW W, NEW step \in BOOLEAN, Apply(ts, W, step), NEW c \in Channels,
           Kind[c] \in Wiping
    PROVE  /\ content'[c] = IF W[c] # {} THEN W[c] ELSE IF step THEN {} ELSE content[c]
           /\ finished'[c] \in BOOLEAN
           /\ c \in UpdatedAfter(ts, W, step) <=> W[c] # {}
           /\ W[c] # {} => versions'[c] = WriteVersion(ts)
           /\ W[c] = {} /\ ~step => versions'[c] = versions[c]
           /\ W[c] = {} /\ content[c] = {} => versions'[c] = versions[c]
<1>a. Stages(ts, W, step, c)
  BY ApplyStages
<1>b. Results(ts, W, step, c)
  BY ApplyResult
<1>1. /\ Kind[c] \notin Barriers /\ Kind[c] # "LastValueAfterFinish" /\ Kind[c] \notin AfterFinish
      /\ Kind[c] \in {"EphemeralValue", "Topic"}
  BY DEF Wiping, Barriers, AfterFinish
<1>2. c \notin Consumed(ts) /\ c \notin FinishedBy(ts, W, step)
  BY <1>1, <1>a DEF Stages, Consumes, Finishes
<1>3. AfterConsume(ts)[c] = [value |-> content[c], finished |-> finished[c]]
  BY <1>2, <1>a, <1>b DEF Stages, Results
<1>4. AfterWrites(ts, W)[c] = IF W[c] # {} THEN [value |-> W[c], finished |-> FALSE]
                              ELSE [value |-> content[c], finished |-> finished[c]]
  BY <1>1, <1>3, <1>a DEF Stages, Update
<1>5. c \in ChangedByWrites(ts, W) <=> W[c] # {}
  BY <1>1, <1>a DEF Stages, Updates
<1>6. c \in UpdatedByWrites(ts, W) <=> W[c] # {}
  BY <1>4, <1>5, <1>a, Availability DEF Stages
<1>7. c \in WipedBy(ts, W, step) <=> step /\ W[c] = {} /\ content[c] # {}
  BY <1>1, <1>4, <1>6, <1>a DEF Stages, Wipes
<1>8. AfterApply(ts, W, step)[c] = IF step /\ W[c] = {} /\ content[c] # {} THEN Cleared ELSE AfterWrites(ts, W)[c]
  BY <1>2, <1>7, <1>a DEF Stages
<1>9. finished[c] \in BOOLEAN
  BY DEF ChannelsTyped
<1>10. /\ content'[c] = AfterApply(ts, W, step)[c].value
       /\ finished'[c] = AfterApply(ts, W, step)[c].finished
  BY <1>b DEF Results
<1>11. content'[c] = (IF W[c] # {} THEN W[c] ELSE IF step THEN {} ELSE content[c]) /\ finished'[c] \in BOOLEAN
  <2>1. /\ AfterWrites(ts, W)[c].value = IF W[c] # {} THEN W[c] ELSE content[c]
        /\ AfterWrites(ts, W)[c].finished = IF W[c] # {} THEN FALSE ELSE finished[c]
    BY <1>4
  <2>2. Cleared.value = {} /\ Cleared.finished = FALSE
    BY DEF Cleared
  <2> QED
    BY <2>1, <2>2, <1>8, <1>9, <1>10
<1>12. c \in UpdatedAfter(ts, W, step) <=> W[c] # {}
  BY <1>2, <1>6, <1>a DEF Stages
<1>13. /\ W[c] # {} => versions'[c] = WriteVersion(ts)
       /\ W[c] = {} /\ ~step => versions'[c] = versions[c]
       /\ W[c] = {} /\ content[c] = {} => versions'[c] = versions[c]
  BY <1>2, <1>5, <1>7, <1>b DEF Results
<1> QED
  BY <1>11, <1>12, <1>13

\* A LastValue: overwritten, and otherwise left alone.
LEMMA ApplyLastValue ==
    ASSUME ChannelsTyped, NEW ts, NEW W, NEW step \in BOOLEAN, Apply(ts, W, step), NEW c \in Channels,
           Kind[c] = "LastValue"
    PROVE  /\ content'[c] = IF W[c] # {} THEN W[c] ELSE content[c]
           /\ finished'[c] \in BOOLEAN
           /\ c \in UpdatedAfter(ts, W, step) <=> W[c] # {}
           /\ W[c] # {} => versions'[c] = WriteVersion(ts)
           /\ W[c] = {} => versions'[c] = versions[c]
<1>a. Stages(ts, W, step, c)
  BY ApplyStages
<1>b. Results(ts, W, step, c)
  BY ApplyResult
<1>1. /\ Kind[c] \notin Barriers /\ Kind[c] # "LastValueAfterFinish" /\ Kind[c] \notin AfterFinish
      /\ Kind[c] \notin {"EphemeralValue", "Topic"} /\ Kind[c] \in {"LastValue"} \cup Wiping
  BY DEF Wiping, Barriers, AfterFinish
<1>2. c \notin Consumed(ts) /\ c \notin FinishedBy(ts, W, step) /\ c \notin WipedBy(ts, W, step)
  BY <1>1, <1>a DEF Stages, Consumes, Finishes, Wipes
<1>3. AfterConsume(ts)[c] = [value |-> content[c], finished |-> finished[c]]
  BY <1>2, <1>a, <1>b DEF Stages, Results
<1>4. AfterWrites(ts, W)[c] = IF W[c] # {} THEN [value |-> W[c], finished |-> FALSE]
                              ELSE [value |-> content[c], finished |-> finished[c]]
  BY <1>1, <1>3, <1>a DEF Stages, Update
<1>5. c \in ChangedByWrites(ts, W) <=> W[c] # {}
  BY <1>1, <1>a DEF Stages, Updates
<1>6. c \in UpdatedByWrites(ts, W) <=> W[c] # {}
  BY <1>1, <1>4, <1>5, <1>a, Availability DEF Stages
<1>7. AfterApply(ts, W, step)[c] = AfterWrites(ts, W)[c]
  BY <1>2, <1>a DEF Stages
<1>8. finished[c] \in BOOLEAN
  BY DEF ChannelsTyped
<1>9. /\ content'[c] = AfterApply(ts, W, step)[c].value
      /\ finished'[c] = AfterApply(ts, W, step)[c].finished
  BY <1>b DEF Results
<1>10. content'[c] = (IF W[c] # {} THEN W[c] ELSE content[c]) /\ finished'[c] \in BOOLEAN
  <2>1. /\ AfterWrites(ts, W)[c].value = IF W[c] # {} THEN W[c] ELSE content[c]
        /\ AfterWrites(ts, W)[c].finished = IF W[c] # {} THEN FALSE ELSE finished[c]
    BY <1>4
  <2> QED
    BY <2>1, <1>7, <1>8, <1>9
<1>11. c \in UpdatedAfter(ts, W, step) <=> W[c] # {}
  BY <1>2, <1>6, <1>a DEF Stages
<1>12. /\ W[c] # {} => versions'[c] = WriteVersion(ts)
       /\ W[c] = {} => versions'[c] = versions[c]
  BY <1>2, <1>5, <1>b DEF Results
<1> QED
  BY <1>10, <1>11, <1>12

\* A deferred value: withdrawn by a write, cleared when it has started its
\* node, and released by the finish.
LEMMA ApplyDeferred ==
    ASSUME ChannelsTyped, NEW ts, NEW W, NEW step \in BOOLEAN, Apply(ts, W, step), NEW c \in Channels,
           Kind[c] = "LastValueAfterFinish"
    PROVE  /\ c \in Consumed(ts) <=> c \in UsedUp(ts) /\ finished[c]
           /\ content'[c] = IF W[c] # {} THEN W[c] ELSE IF c \in Consumed(ts) THEN {} ELSE content[c]
           /\ c \in FinishedBy(ts, W, step) <=>
                  /\ IsLast(ts, W, step) /\ content'[c] # {}
                  /\ W[c] # {} \/ c \in Consumed(ts) \/ ~finished[c]
           /\ finished'[c] <=> \/ W[c] = {} /\ c \notin Consumed(ts) /\ finished[c]
                               \/ c \in FinishedBy(ts, W, step)
           /\ finished'[c] \in BOOLEAN
           /\ c \notin UpdatedByWrites(ts, W)
           /\ c \in UpdatedAfter(ts, W, step) <=> c \in FinishedBy(ts, W, step)
           /\ c \in FinishedBy(ts, W, step) => versions'[c] = WriteVersion(ts)
           /\ W[c] = {} /\ c \notin Consumed(ts) /\ c \notin FinishedBy(ts, W, step) => versions'[c] = versions[c]
<1>a. Stages(ts, W, step, c)
  BY ApplyStages
<1>b. Results(ts, W, step, c)
  BY ApplyResult
<1>1. /\ Kind[c] \notin Barriers /\ Kind[c] \in AfterFinish /\ Kind[c] \notin {"EphemeralValue", "Topic"}
  BY DEF Barriers, AfterFinish
<1>2. /\ Channel[c].finished = finished[c]
      /\ Channel[c] = [value |-> content[c], finished |-> finished[c]]
  BY <1>b DEF Results
<1>3. c \in Consumed(ts) <=> c \in UsedUp(ts) /\ finished[c]
  BY <1>1, <1>2, <1>a DEF Stages, Consumes
<1>4. c \notin WipedBy(ts, W, step)
  BY <1>1, <1>a DEF Stages, Wipes
<1>5. AfterConsume(ts)[c] = IF c \in Consumed(ts) THEN [value |-> {}, finished |-> FALSE]
                            ELSE [value |-> content[c], finished |-> finished[c]]
  BY <1>2, <1>a DEF Stages, Cleared
<1>6. AfterStep(ts, W, step)[c] =
          IF W[c] # {} THEN [value |-> W[c], finished |-> FALSE]
          ELSE IF c \in Consumed(ts) THEN [value |-> {}, finished |-> FALSE]
          ELSE [value |-> content[c], finished |-> finished[c]]
  BY <1>1, <1>4, <1>5, <1>a DEF Stages, Update
<1>7. c \in ChangedByWrites(ts, W) <=> W[c] # {}
  BY <1>1, <1>a DEF Stages, Updates
<1>8. c \notin UpdatedByWrites(ts, W)
  <2>1. W[c] # {} => AfterWrites(ts, W)[c] = [value |-> W[c], finished |-> FALSE]
    BY <1>1, <1>a DEF Stages, Update
  <2>2. W[c] # {} => ~IsAvailable(c, AfterWrites(ts, W)[c])
    BY <2>1, Availability
  <2> QED
    BY <1>7, <2>2, <1>a DEF Stages
<1>9. finished[c] \in BOOLEAN
  BY DEF ChannelsTyped
<1> DEFINE s == AfterStep(ts, W, step)[c]
           last == IsLast(ts, W, step)
           used == c \in Consumed(ts)
           fin == c \in FinishedBy(ts, W, step)
<1>10. fin <=> last /\ ~s.finished /\ s.value # {}
  BY <1>1, <1>a DEF Stages, Finishes
<1>11. /\ content'[c] = IF fin THEN [s EXCEPT !.finished = TRUE].value ELSE s.value
       /\ finished'[c] = IF fin THEN [s EXCEPT !.finished = TRUE].finished ELSE s.finished
  BY <1>a, <1>b DEF Stages, Results
<1>12. s = IF W[c] # {} THEN [value |-> W[c], finished |-> FALSE]
           ELSE IF used THEN [value |-> {}, finished |-> FALSE]
           ELSE [value |-> content[c], finished |-> finished[c]]
  BY <1>6
<1>13. /\ fin => AfterApply(ts, W, step)[c] = [s EXCEPT !.finished = TRUE]
       /\ c \in UpdatedAfter(ts, W, step) <=> fin /\ IsAvailable(c, AfterApply(ts, W, step)[c])
  BY <1>8, <1>a DEF Stages
<1> HIDE DEF s, last, used, fin
<1>14. /\ s.value = IF W[c] # {} THEN W[c] ELSE IF used THEN {} ELSE content[c]
       /\ s.finished = IF W[c] # {} \/ used THEN FALSE ELSE finished[c]
       /\ [s EXCEPT !.finished = TRUE].value = s.value
       /\ [s EXCEPT !.finished = TRUE].finished = TRUE
  BY <1>12
<1>15. /\ content'[c] = IF W[c] # {} THEN W[c] ELSE IF used THEN {} ELSE content[c]
       /\ fin <=> last /\ content'[c] # {} /\ (W[c] # {} \/ used \/ ~finished[c])
       /\ finished'[c] <=> (W[c] = {} /\ ~used /\ finished[c]) \/ fin
       /\ finished'[c] \in BOOLEAN
  <2>1. content'[c] = s.value /\ finished'[c] = IF fin THEN TRUE ELSE s.finished
    BY <1>11, <1>14
  <2> QED
    BY <2>1, <1>9, <1>10, <1>14
<1>16. c \in UpdatedAfter(ts, W, step) <=> fin
  <2>1. fin => IsAvailable(c, AfterApply(ts, W, step)[c])
    BY <1>10, <1>13, <1>14, Availability
  <2> QED
    BY <2>1, <1>13
<1>17. /\ fin => versions'[c] = WriteVersion(ts)
       /\ W[c] = {} /\ ~used /\ ~fin => versions'[c] = versions[c]
  BY <1>4, <1>7, <1>b DEF used, fin, Results
<1> QED
  BY <1>3, <1>8, <1>15, <1>16, <1>17 DEF last, used, fin

Remains(ts, c) == IF c \in Consumed(ts) THEN {} ELSE content[c]

\* A barrier: emptied when it has started a node, then filled by the writes,
\* and released by the finish if it waits for that.
LEMMA ApplyBarrier ==
    ASSUME ChannelsTyped, NEW ts, NEW W, NEW step \in BOOLEAN, Apply(ts, W, step), NEW c \in Channels,
           Kind[c] \in Barriers
    PROVE  /\ c \in Consumed(ts) <=> c \in UsedUp(ts) /\ IsAvailable(c, Channel[c])
           /\ content'[c] = Remains(ts, c) \cup W[c]
           /\ c \in FinishedBy(ts, W, step) <=>
                  /\ Kind[c] = "NamedBarrierValueAfterFinish" /\ IsLast(ts, W, step) /\ content'[c] = Names[c]
                  /\ c \in Consumed(ts) \/ ~finished[c]
           /\ finished'[c] <=> (c \notin Consumed(ts) /\ finished[c]) \/ c \in FinishedBy(ts, W, step)
           /\ finished'[c] \in BOOLEAN
           /\ c \in UpdatedByWrites(ts, W) <=>
                  /\ ~(W[c] \subseteq Remains(ts, c)) /\ content'[c] = Names[c]
                  /\ Kind[c] = "NamedBarrierValue" \/ (c \notin Consumed(ts) /\ finished[c])
           /\ c \in UpdatedAfter(ts, W, step) <=> c \in UpdatedByWrites(ts, W) \/ c \in FinishedBy(ts, W, step)
           /\ ~(W[c] \subseteq Remains(ts, c)) \/ c \in FinishedBy(ts, W, step) => versions'[c] = WriteVersion(ts)
           /\ W[c] \subseteq Remains(ts, c) /\ c \notin Consumed(ts) /\ c \notin FinishedBy(ts, W, step)
                  => versions'[c] = versions[c]
<1> DEFINE kept == Remains(ts, c)
<1>k. kept = IF c \in Consumed(ts) THEN {} ELSE content[c]
  BY DEF Remains
<1> HIDE DEF kept
<1>a. Stages(ts, W, step, c)
  BY ApplyStages
<1>b. Results(ts, W, step, c)
  BY ApplyResult
<1>1. /\ Kind[c] \notin {"EphemeralValue", "Topic"} /\ Kind[c] # "LastValueAfterFinish"
      /\ Kind[c] = "NamedBarrierValue" \/ Kind[c] = "NamedBarrierValueAfterFinish"
      /\ Kind[c] \in AfterFinish <=> Kind[c] = "NamedBarrierValueAfterFinish"
  BY DEF Barriers, AfterFinish
<1>2. c \in Consumed(ts) <=> c \in UsedUp(ts) /\ IsAvailable(c, Channel[c])
  BY <1>1, <1>a DEF Stages, Consumes
<1>3. c \notin WipedBy(ts, W, step)
  BY <1>1, <1>a DEF Stages, Wipes
<1> DEFINE used == c \in Consumed(ts)
           fin == c \in FinishedBy(ts, W, step)
           a == AfterConsume(ts)[c]
           s == AfterWrites(ts, W)[c]
           f0 == IF used THEN FALSE ELSE finished[c]
<1>4. a = [value |-> kept, finished |-> f0]
  BY <1>k, <1>a, <1>b DEF Stages, Results, Cleared
<1>5. s = [value |-> kept \cup W[c], finished |-> f0]
  <2>1. CASE W[c] # {}
    <3>1. s = [a EXCEPT !.value = @ \cup W[c]]
      BY <2>1, <1>a DEF Stages, Update
    <3> HIDE DEF a, s, f0
    <3> QED
      BY <3>1, <1>4
  <2>2. CASE W[c] = {}
    <3>1. s = a
      BY <2>2, <1>a DEF Stages
    <3>2. kept \cup W[c] = kept
      BY <2>2
    <3> HIDE DEF a, s, f0
    <3> QED
      BY <3>1, <3>2, <1>4
  <2> QED
    BY <2>1, <2>2
<1>6. c \in ChangedByWrites(ts, W) <=> ~(W[c] \subseteq kept)
  <2>1. c \in ChangedByWrites(ts, W) <=> W[c] # {} /\ ~(W[c] \subseteq a.value)
    BY <1>a DEF Stages, Updates
  <2>2. a.value = kept
    BY <1>4
  <2> HIDE DEF a
  <2> QED
    BY <2>1, <2>2
<1>7. AfterStep(ts, W, step)[c] = s
  BY <1>3, <1>a DEF Stages
<1>8. finished[c] \in BOOLEAN
  BY DEF ChannelsTyped
<1>9. fin <=> Kind[c] = "NamedBarrierValueAfterFinish" /\ IsLast(ts, W, step) /\ ~s.finished /\ s.value = Names[c]
  BY <1>1, <1>7, <1>a DEF Stages, Finishes, IsFull
<1>10. /\ content'[c] = IF fin THEN [s EXCEPT !.finished = TRUE].value ELSE s.value
       /\ finished'[c] = IF fin THEN [s EXCEPT !.finished = TRUE].finished ELSE s.finished
  BY <1>7, <1>a, <1>b DEF Stages, Results
<1>11. /\ c \in UpdatedByWrites(ts, W) <=> ~(W[c] \subseteq kept) /\ IsAvailable(c, s)
       /\ c \in UpdatedAfter(ts, W, step) <=>
              c \in UpdatedByWrites(ts, W) \/ (fin /\ IsAvailable(c, AfterApply(ts, W, step)[c]))
       /\ fin => AfterApply(ts, W, step)[c] = [s EXCEPT !.finished = TRUE]
  BY <1>6, <1>7, <1>a DEF Stages
<1>12. IsAvailable(c, s) <=> s.value = Names[c] /\ (Kind[c] = "NamedBarrierValue" \/ s.finished)
  BY <1>1, Availability DEF IsFull
<1>13. /\ s.value = kept \cup W[c] /\ s.finished = f0
       /\ [s EXCEPT !.finished = TRUE].value = s.value
       /\ [s EXCEPT !.finished = TRUE].finished = TRUE
  <2> HIDE DEF s, f0
  <2> QED
    BY <1>5
<1>14. fin => IsAvailable(c, AfterApply(ts, W, step)[c])
  <2>1. fin => [s EXCEPT !.finished = TRUE].value = Names[c]
    BY <1>9, <1>13
  <2>2. fin => /\ AfterApply(ts, W, step)[c].value = Names[c]
               /\ AfterApply(ts, W, step)[c].finished = TRUE
    BY <2>1, <1>11, <1>13
  <2> QED
    BY <2>2, <1>1, Availability DEF IsFull
<1>15. /\ ~(W[c] \subseteq kept) \/ fin => versions'[c] = WriteVersion(ts)
       /\ W[c] \subseteq kept /\ ~used /\ ~fin => versions'[c] = versions[c]
  BY <1>3, <1>6, <1>b DEF Results
<1> HIDE DEF s, fin, a
<1>16. content'[c] = kept \cup W[c]
  BY <1>10, <1>13
<1>17. /\ finished'[c] <=> (~used /\ finished[c]) \/ fin
       /\ finished'[c] \in BOOLEAN
  BY <1>8, <1>10, <1>13
<1>18. fin <=> /\ Kind[c] = "NamedBarrierValueAfterFinish" /\ IsLast(ts, W, step) /\ content'[c] = Names[c]
               /\ used \/ ~finished[c]
  BY <1>8, <1>9, <1>13, <1>16
<1>19. c \in UpdatedByWrites(ts, W) <=>
           /\ ~(W[c] \subseteq kept) /\ content'[c] = Names[c]
           /\ Kind[c] = "NamedBarrierValue" \/ (~used /\ finished[c])
  BY <1>8, <1>11, <1>12, <1>13, <1>16
<1>20. c \in UpdatedAfter(ts, W, step) <=> c \in UpdatedByWrites(ts, W) \/ fin
  BY <1>11, <1>14
<1> QED
  BY <1>2, <1>15, <1>16, <1>17, <1>18, <1>19, <1>20 DEF fin, kept

-----------------------------------------------------------------------------
(* _prepareNextTasks.                                                         *)

\* The tasks that are due in a state, found by going through all nodes.
Due == Prepare(None, Channel, versions, seen)

LEMMA LeastNatural ==
    ASSUME NEW T, T \subseteq Nat, T # {}
    PROVE  \E x \in T : \A y \in T : x <= y
<1>1. PICK x \in T : \A y \in T : ~(<<y, x>> \in OpToRel(<, Nat))
  BY NatLessThanWellFounded, WFMin
<1>2. \A y \in T : ~(y < x)
  BY <1>1 DEF OpToRel
<1>3. \A y \in T : x <= y
  BY <1>2
<1> QED
  BY <1>3

\* A node's trigger is the first of those that fire; there is none if none fires.
LEMMA FirstTriggerFires ==
    ASSUME NEW n \in Nodes, NEW ch, NEW v, NEW s, NEW c, c = FirstTrigger(n, ch, v, s)
    PROVE  /\ c = None <=> \A d \in TriggersOf(n) : ~IsTriggered(n, d, ch, v, s)
           /\ c # None =>
                /\ c \in TriggersOf(n) /\ c \in Channels /\ IsTriggered(n, c, ch, v, s)
                /\ \E i \in DOMAIN Triggers[n] :
                      /\ c = Triggers[n][i]
                      /\ \A j \in DOMAIN Triggers[n] : IsTriggered(n, Triggers[n][j], ch, v, s) => i <= j
<1> DEFINE fires == {i \in DOMAIN Triggers[n] : IsTriggered(n, Triggers[n][i], ch, v, s)}
<1>1. /\ Triggers[n] \in Seq(Channels)
      /\ DOMAIN Triggers[n] \subseteq Nat
      /\ \A i \in DOMAIN Triggers[n] : Triggers[n][i] \in Channels
  BY GraphAssumption
<1>2. \A i \in DOMAIN Triggers[n] : Triggers[n][i] # None
  BY <1>1, GraphAssumption
<1>3. fires = {} <=> \A d \in TriggersOf(n) : ~IsTriggered(n, d, ch, v, s)
  BY DEF TriggersOf
<1>4. fires = {} => c = None
  BY DEF FirstTrigger
<1>5. ASSUME fires # {}
      PROVE  /\ c # None
             /\ c \in TriggersOf(n) /\ c \in Channels /\ IsTriggered(n, c, ch, v, s)
             /\ \E i \in DOMAIN Triggers[n] :
                   /\ c = Triggers[n][i]
                   /\ \A j \in DOMAIN Triggers[n] : IsTriggered(n, Triggers[n][j], ch, v, s) => i <= j
  <2>1. \E i \in fires : \A j \in fires : i <= j
    <3>1. fires \subseteq Nat
      BY <1>1
    <3> HIDE DEF fires
    <3> QED
      BY <1>5, <3>1, LeastNatural
  <2> DEFINE i == CHOOSE i \in fires : \A j \in fires : i <= j
  <2>2. i \in fires /\ \A j \in fires : i <= j
    <3> HIDE DEF fires
    <3> QED
      BY <2>1
  <2>3. c = Triggers[n][i]
    BY <1>5 DEF FirstTrigger
  <2> HIDE DEF i
  <2>4. /\ i \in DOMAIN Triggers[n] /\ IsTriggered(n, Triggers[n][i], ch, v, s)
        /\ \A j \in DOMAIN Triggers[n] : IsTriggered(n, Triggers[n][j], ch, v, s) => i <= j
    BY <2>2
  <2>5. c \in TriggersOf(n)
    BY <2>3, <2>4 DEF TriggersOf
  <2> QED
    BY <1>1, <1>2, <2>3, <2>4, <2>5
<1> QED
  BY <1>3, <1>4, <1>5

\* Which tasks are prepared: one for each Send to a node, one for each
\* candidate that a trigger starts.
LEMMA PreparedTasks ==
    ASSUME NEW u, NEW ch, NEW v, NEW s, NEW t
    PROVE  t \in Prepare(u, ch, v, s) <=>
             \/ t \in PushTasks(ch)
             \/ \E n \in CandidateNodes(u) :
                  FirstTrigger(n, ch, v, s) # None /\ t = PullTask(n, FirstTrigger(n, ch, v, s))
  BY Zenon DEF Prepare, PullTasks

LEMMA PushTaskFields ==
    ASSUME NEW ch
    PROVE  /\ \A t \in PushTasks(ch) : /\ t.trigger = None /\ t.name \in Nodes
                                       /\ t.send \in Sends(ch) /\ t.send.node = t.name
           /\ \A send \in Sends(ch) : send.node \in Nodes =>
                \E t \in PushTasks(ch) : t.send = send /\ t.trigger = None /\ t.name = send.node
<1>1. ASSUME NEW t \in PushTasks(ch)
      PROVE  t.trigger = None /\ t.name \in Nodes /\ t.send \in Sends(ch) /\ t.send.node = t.name
  <2>1. PICK send \in Sends(ch) : send.node \in Nodes /\ t = PushTask(send)
    BY <1>1, Zenon DEF PushTasks
  <2>2. t.trigger = None /\ t.send = send /\ t.name = send.node
    BY <2>1 DEF PushTask
  <2> QED
    BY <2>1, <2>2
<1>2. ASSUME NEW send \in Sends(ch), send.node \in Nodes
      PROVE  \E t \in PushTasks(ch) : t.send = send /\ t.trigger = None /\ t.name = send.node
  <2>1. PushTask(send) \in PushTasks(ch)
    BY <1>2, Zenon DEF PushTasks
  <2>2. /\ PushTask(send).trigger = None /\ PushTask(send).send = send
        /\ PushTask(send).name = send.node
    BY DEF PushTask
  <2> QED
    BY <2>1, <2>2
<1> QED
  BY <1>1, <1>2

-----------------------------------------------------------------------------
(* Steps.                                                                     *)

\* The tasks under way are some of those that are due, all Sends among them.
TasksFit ==
    /\ tasks \subseteq Due
    /\ IF status = "running" THEN PushTasks(Channel) \subseteq tasks ELSE tasks = {}

\* A task that is due has a Send, or a trigger that is available and unseen.
LEMMA DueFields ==
    \A t \in Due :
        /\ t.name \in Nodes
        /\ t.trigger = None => t \in PushTasks(Channel)
        /\ t.trigger # None =>
              /\ t.trigger = FirstTrigger(t.name, Channel, versions, seen)
              /\ t.trigger \in TriggersOf(t.name) /\ t.trigger \in Channels
              /\ IsTriggered(t.name, t.trigger, Channel, versions, seen)
<1> SUFFICES ASSUME NEW t \in Due
    PROVE  /\ t.name \in Nodes
           /\ t.trigger = None => t \in PushTasks(Channel)
           /\ t.trigger # None =>
                 /\ t.trigger = FirstTrigger(t.name, Channel, versions, seen)
                 /\ t.trigger \in TriggersOf(t.name) /\ t.trigger \in Channels
                 /\ IsTriggered(t.name, t.trigger, Channel, versions, seen)
  OBVIOUS
<1>1. CASE t \in PushTasks(Channel)
  BY <1>1, PushTaskFields
<1>2. CASE t \notin PushTasks(Channel)
  <2>1. PICK n \in CandidateNodes(None) :
            /\ FirstTrigger(n, Channel, versions, seen) # None
            /\ t = PullTask(n, FirstTrigger(n, Channel, versions, seen))
    BY <1>2, PreparedTasks DEF Due
  <2> DEFINE c == FirstTrigger(n, Channel, versions, seen)
  <2>2. n \in Nodes
    BY DEF CandidateNodes
  <2>3. c \in TriggersOf(n) /\ c \in Channels /\ IsTriggered(n, c, Channel, versions, seen)
    BY <2>1, <2>2, FirstTriggerFires
  <2>4. t.name = n /\ t.trigger = c
    BY <2>1 DEF PullTask
  <2> QED
    BY <2>1, <2>2, <2>3, <2>4
<1> QED
  BY <1>1, <1>2

\* A node that a trigger fires is due.
LEMMA TriggeredIsDue ==
    ASSUME NEW n \in Nodes, NEW c \in TriggersOf(n), IsTriggered(n, c, Channel, versions, seen)
    PROVE  /\ FirstTrigger(n, Channel, versions, seen) # None
           /\ PullTask(n, FirstTrigger(n, Channel, versions, seen)) \in Due
<1>1. FirstTrigger(n, Channel, versions, seen) # None
  BY FirstTriggerFires
<1>2. n \in CandidateNodes(None)
  BY DEF CandidateNodes
<1> QED
  BY <1>1, <1>2, PreparedTasks DEF Due

\* W holds writes of a set of writes in S.
WritesOf(W, S) == \A c \in Channels : \A x \in W[c] : \E y \in UNION S : y.chan = c /\ y.value = x

\* A superstep, or an input, ends: W is applied with the tasks ts, whose
\* triggers are used up, and the next tasks are prepared.
Advance(ts, W, step) ==
    /\ Apply(ts, W, step)
    /\ tasks' = Prepare(UpdatedAfter(ts, W, step), Channel', versions', seen')
    /\ status' = "running"

\* Nothing is applied.
Rest ==
    /\ UNCHANGED <<checkpointVars, since, sends>>
    /\ \/ status' # "running" /\ tasks' = {}
       \/ status' = "running" /\ tasks' = Due
       \/ UNCHANGED <<tasks, status>>

LEMMA ValuesAreWritten ==
    ASSUME NEW S, NEW w, w \subseteq UNION S
    PROVE  WritesOf(Values(w), S)
  BY DEF WritesOf, Values

LEMMA Steps ==
    ASSUME TasksFit, [Next]_vars
    PROVE  \/ /\ status = "running" /\ tasks # {}
              /\ \E W : WritesOf(W, Writers) /\ Advance(tasks, W, TRUE)
           \/ status = "stopped" /\ \E W : WritesOf(W, Inputs) /\ Advance(Due, W, Due # {})
           \/ /\ status = "stopped" /\ status' = "running" /\ tasks' = Due'
              /\ \E W : WritesOf(W, Gotos) /\ Apply({}, W, FALSE)
           \/ Rest
<1>1. ASSUME NEW input \in Inputs, Invoke(input)
      PROVE  status = "stopped" /\ \E W : WritesOf(W, Inputs) /\ Advance(Due, W, Due # {})
  <2>1. WritesOf(Values(input), Inputs)
    BY ValuesAreWritten
  <2>2. status = "stopped" /\ status' = "running"
    BY <1>1 DEF Invoke
  <2>3. /\ Apply(Due, Values(input), Due # {})
        /\ updated' = UpdatedAfter(Due, Values(input), Due # {})
        /\ PrepareNext(updated')
    BY <1>1, Zenon DEF Invoke, Due
  <2>4. Advance(Due, Values(input), Due # {})
    BY <2>2, <2>3, Zenon DEF Advance, PrepareNext
  <2> QED
    BY <2>1, <2>2, <2>4
<1>2. ASSUME NEW writes \in Gotos, Command(writes)
      PROVE  /\ status = "stopped" /\ status' = "running" /\ tasks' = Due'
             /\ \E W : WritesOf(W, Gotos) /\ Apply({}, W, FALSE)
  <2>1. WritesOf(Values(writes), Gotos)
    BY ValuesAreWritten
  <2>2. /\ status = "stopped" /\ status' = "running"
        /\ Apply({}, Values(writes), FALSE) /\ PrepareNext(None)
    BY <1>2, Zenon DEF Command
  <2>3. tasks' = Due'
    BY <2>2, Zenon DEF PrepareNext, Due
  <2> QED
    BY <2>1, <2>2, <2>3
<1>3. ASSUME Superstep
      PROVE  \/ /\ status = "running" /\ tasks # {}
                /\ \E W : WritesOf(W, Writers) /\ Advance(tasks, W, TRUE)
             \/ Rest
  <2>1. PICK plan \in Plans(tasks) :
            LET W == Values(UNION {plan[t] : t \in tasks})
            IN  IF IsInvalid(plan)
                THEN /\ status' = "failed" /\ tasks' = {} /\ updated' = None
                     /\ UNCHANGED <<checkpointVars, since, sends>>
                ELSE /\ Apply(tasks, W, TRUE)
                     /\ updated' = UpdatedAfter(tasks, W, TRUE)
                     /\ PrepareNext(updated')
                     /\ UNCHANGED status
    BY <1>3, Zenon DEF Superstep
  <2>2. status = "running" /\ tasks # {}
    BY <1>3 DEF Superstep
  <2> DEFINE W == Values(UNION {plan[t] : t \in tasks})
  <2>3. CASE IsInvalid(plan)
    BY <2>1, <2>3 DEF Rest
  <2>4. CASE ~IsInvalid(plan)
    <3>1. Advance(tasks, W, TRUE)
      BY <2>1, <2>2, <2>4, Zenon DEF Advance, PrepareNext
    <3>2. \A t \in tasks : plan[t] \in Options[t.name]
      BY <2>1 DEF Plans
    <3>3. \A t \in tasks : plan[t] \in Writers
      BY <3>2, DueFields DEF Writers, TasksFit
    <3>4. UNION {plan[t] : t \in tasks} \subseteq UNION Writers
      BY <3>3
    <3>5. WritesOf(W, Writers)
      BY <3>4, ValuesAreWritten
    <3> QED
      BY <2>2, <3>1, <3>5
  <2> QED
    BY <2>3, <2>4
<1>4. ASSUME Resume \/ Done \/ Stop \/ UNCHANGED vars
      PROVE  Rest
  BY <1>4 DEF Resume, Done, Stop, vars, Rest, Due
<1> QED
  BY <1>1, <1>2, <1>3, <1>4 DEF Next

\* What is prepared is due, and has all the Sends.
LEMMA PreparedFit ==
    ASSUME NEW u, u = None \/ u \subseteq Channels, NEW ch, NEW v, NEW s
    PROVE  /\ Prepare(u, ch, v, s) \subseteq Prepare(None, ch, v, s)
           /\ PushTasks(ch) \subseteq Prepare(u, ch, v, s)
<1>1. CandidateNodes(u) \subseteq CandidateNodes(None)
  BY DEF CandidateNodes, TriggerToNodes
<1> QED
  BY <1>1, PreparedTasks

LEMMA UpdatedAreChannels ==
    ASSUME NEW ts, NEW W, NEW step
    PROVE  UpdatedAfter(ts, W, step) \subseteq Channels
  BY Zenon DEF UpdatedAfter, UpdatedByWrites, ChangedByWrites, Written, FinishedBy

LEMMA TasksStayFit ==
    ASSUME TasksFit, [Next]_vars
    PROVE  TasksFit'
<1>1. ASSUME NEW ts, NEW W, NEW step, Advance(ts, W, step)
      PROVE  TasksFit'
  <2>1. /\ tasks' \subseteq Prepare(None, Channel', versions', seen')
        /\ PushTasks(Channel') \subseteq tasks'
        /\ status' = "running"
    BY <1>1, UpdatedAreChannels, PreparedFit DEF Advance
  <2> QED
    BY <2>1 DEF TasksFit, Due
<1>2. ASSUME status' = "running", tasks' = Due'
      PROVE  TasksFit'
  <2>1. PushTasks(Channel') \subseteq Due'
    BY PreparedFit DEF Due
  <2> QED
    BY <1>2, <2>1 DEF TasksFit
<1>3. ASSUME Rest
      PROVE  TasksFit'
  <2>1. Due' = Due /\ Channel' = Channel
    BY <1>3 DEF Rest, Due, Channel, checkpointVars
  <2>2. PushTasks(Channel) \subseteq Due
    BY PreparedFit DEF Due
  <2> QED
    BY <1>3, <2>1, <2>2 DEF Rest, TasksFit
<1> QED
  BY <1>1, <1>2, <1>3, Steps

-----------------------------------------------------------------------------
(* What _applyWrites is given: nothing, or tasks that are due.                *)

\* Tasks whose triggers are available and unseen.
AreDue(ts) == ts \subseteq Due

Started(ts, n, c) == \E t \in ts : t.name = n /\ t.trigger = c

LEMMA StartedByAvailable ==
    ASSUME NEW ts, AreDue(ts)
    PROVE  /\ \A c \in UsedUp(ts) : /\ c \in Channels /\ IsAvailable(c, Channel[c])
                                    /\ \E n \in Nodes : c \in TriggersOf(n) /\ Started(ts, n, c)
           /\ \A n, c : c \in Channels /\ Started(ts, n, c) =>
                  /\ n \in Nodes /\ c \in UsedUp(ts) /\ c \in TriggersOf(n)
                  /\ IsTriggered(n, c, Channel, versions, seen)
                  /\ c = FirstTrigger(n, Channel, versions, seen)
<1>1. None \notin Channels
  BY GraphAssumption
<1>2. ASSUME NEW c \in UsedUp(ts)
      PROVE  /\ c \in Channels /\ IsAvailable(c, Channel[c])
             /\ \E n \in Nodes : c \in TriggersOf(n) /\ Started(ts, n, c)
  <2>1. PICK t \in ts : t.trigger = c /\ c \in Channels
    BY <1>2 DEF UsedUp
  <2>2. t \in Due /\ c # None
    BY <1>1, <2>1 DEF AreDue
  <2>3. /\ t.name \in Nodes /\ t.trigger \in TriggersOf(t.name)
        /\ IsTriggered(t.name, t.trigger, Channel, versions, seen)
    BY <2>1, <2>2, DueFields
  <2> QED
    BY <2>1, <2>3 DEF IsTriggered, Started
<1>3. ASSUME NEW n, NEW c, c \in Channels, Started(ts, n, c)
      PROVE  /\ n \in Nodes /\ c \in UsedUp(ts) /\ c \in TriggersOf(n)
             /\ IsTriggered(n, c, Channel, versions, seen)
             /\ c = FirstTrigger(n, Channel, versions, seen)
  <2>1. PICK t \in ts : t.name = n /\ t.trigger = c
    BY <1>3 DEF Started
  <2>2. t \in Due /\ c # None /\ c \in UsedUp(ts)
    BY <1>1, <1>3, <2>1 DEF AreDue, UsedUp
  <2> QED
    BY <2>1, <2>2, DueFields
<1> QED
  BY <1>2, <1>3

\* What is recorded of the writes and the starts.
LEMMA ApplyHistory ==
    ASSUME NEW ts, NEW W, NEW step, Apply(ts, W, step), NEW n \in Nodes, NEW c \in Channels
    PROVE  /\ seen'[n][c] = IF Started(ts, n, c) THEN versions[c] ELSE seen[n][c]
           /\ since'[n][c] = W[c] \cup (IF Started(ts, n, c) THEN {} ELSE since[n][c])
<1>1. seen' = SeenAfter(ts)
  BY Zenon DEF Apply
<1>2. SeenAfter(ts)[n][c] = IF \E t \in ts : t.name = n /\ t.trigger = c THEN versions[c] ELSE seen[n][c]
  BY Zenon DEF SeenAfter
<1>3. since' = [m \in Nodes |-> [d \in Channels |->
                   W[d] \cup (IF \E t \in ts : t.name = m /\ t.trigger = d THEN {} ELSE since[m][d])]]
  BY Zenon DEF Apply
<1>4. since'[n][c] = W[c] \cup (IF \E t \in ts : t.name = n /\ t.trigger = c THEN {} ELSE since[n][c])
  BY <1>3, Zenon
<1> QED
  BY <1>1, <1>2, <1>4 DEF Started

LEMMA ApplyKeepsTypes ==
    ASSUME ChannelsTyped, NEW ts, NEW W, NEW step \in BOOLEAN, Apply(ts, W, step)
    PROVE  ChannelsTyped'
<1>1. /\ content' = [d \in Channels |-> AfterApply(ts, W, step)[d].value]
      /\ finished' = [d \in Channels |-> AfterApply(ts, W, step)[d].finished]
  BY Zenon DEF Apply
<1>2. \A c \in Channels : finished'[c] \in BOOLEAN
  <2> TAKE c \in Channels
  <2>1. CASE Kind[c] \in Wiping
    BY <2>1, ApplyWiping
  <2>2. CASE Kind[c] = "LastValue"
    BY <2>2, ApplyLastValue
  <2>3. CASE Kind[c] = "LastValueAfterFinish"
    BY <2>3, ApplyDeferred
  <2>4. CASE Kind[c] \in Barriers
    BY <2>4, ApplyBarrier
  <2> QED
    BY <2>1, <2>2, <2>3, <2>4, KindIsKnown DEF Barriers
<1> QED
  BY <1>1, <1>2 DEF ChannelsTyped

-----------------------------------------------------------------------------
(* Triggers are fresh.                                                        *)

\* What a channel holds was written since it last started the node, unless the
\* node has seen it.
Fresh ==
    \A n \in Nodes, c \in Channels :
        \/ content[c] \subseteq since[n][c]
        \/ Kind[c] \in {"LastValue"} \cup Wiping /\ versions[c] <= seen[n][c]

LEMMA ApplyKeepsFresh ==
    ASSUME ChannelsTyped, VersionsTyped, Fresh,
           NEW ts, NEW W, NEW step \in BOOLEAN, AreDue(ts), Apply(ts, W, step)
    PROVE  Fresh'
<1> SUFFICES ASSUME NEW n \in Nodes, NEW c \in Channels
    PROVE  \/ content'[c] \subseteq since'[n][c]
           \/ Kind[c] \in {"LastValue"} \cup Wiping /\ versions'[c] <= seen'[n][c]
  BY DEF Fresh
<1> DEFINE started == Started(ts, n, c)
<1>1. /\ seen'[n][c] = IF started THEN versions[c] ELSE seen[n][c]
      /\ since'[n][c] = W[c] \cup (IF started THEN {} ELSE since[n][c])
  BY ApplyHistory
<1>2. \/ content[c] \subseteq since[n][c]
      \/ Kind[c] \in {"LastValue"} \cup Wiping /\ versions[c] <= seen[n][c]
  BY DEF Fresh
<1>3. started => c \in UsedUp(ts) /\ IsAvailable(c, Channel[c])
  BY StartedByAvailable
<1>4. versions[c] \in Nat /\ seen[n][c] \in Nat
  BY DEF VersionsTyped
<1> HIDE DEF started
<1>5. CASE Kind[c] \in {"LastValue"} \cup Wiping
  <2>1. \/ content'[c] = W[c] \/ content'[c] = {}
        \/ W[c] = {} /\ content'[c] = content[c] /\ versions'[c] = versions[c]
    <3>1. CASE Kind[c] = "LastValue"
      BY <3>1, ApplyLastValue
    <3>2. CASE Kind[c] \in Wiping
      BY <3>2, ApplyWiping
    <3> QED
      BY <1>5, <3>1, <3>2
  <2>2. CASE content'[c] = W[c] \/ content'[c] = {}
    BY <1>1, <2>2
  <2>3. CASE W[c] = {} /\ content'[c] = content[c] /\ versions'[c] = versions[c]
    BY <1>1, <1>2, <1>4, <1>5, <2>3
  <2> QED
    BY <2>1, <2>2, <2>3
<1>6. CASE Kind[c] = "LastValueAfterFinish"
  <2>1. /\ c \in Consumed(ts) <=> c \in UsedUp(ts) /\ finished[c]
        /\ content'[c] = IF W[c] # {} THEN W[c] ELSE IF c \in Consumed(ts) THEN {} ELSE content[c]
    BY <1>6, ApplyDeferred
  <2>2. started => c \in Consumed(ts)
    <3>1. Channel[c].finished = finished[c]
      BY DEF Channel
    <3> QED
      BY <1>3, <1>6, <2>1, <3>1, Availability
  <2>3. content[c] \subseteq since[n][c]
    BY <1>2, <1>6 DEF Wiping
  <2> QED
    BY <1>1, <2>1, <2>2, <2>3
<1>7. CASE Kind[c] \in Barriers
  <2>1. /\ c \in Consumed(ts) <=> c \in UsedUp(ts) /\ IsAvailable(c, Channel[c])
        /\ content'[c] = Remains(ts, c) \cup W[c]
    BY <1>7, ApplyBarrier
  <2>2. content[c] \subseteq since[n][c]
    BY <1>2, <1>7 DEF Wiping, Barriers
  <2> QED
    BY <1>1, <1>3, <2>1, <2>2 DEF Remains
<1> QED
  BY <1>5, <1>6, <1>7, KindIsKnown DEF Barriers

\* The invariant of TriggersAreFresh.
FreshInv == VersionInv /\ ChannelsTyped /\ TasksFit /\ Fresh

LEMMA FreshInvIsInductive == FreshInv /\ [Next]_vars => FreshInv'
<1> SUFFICES ASSUME FreshInv, [Next]_vars
    PROVE  FreshInv'
  OBVIOUS
<1>1. VersionInv' /\ TasksFit'
  BY NextKeepsVersions, TasksStayFit DEF FreshInv
<1>2. ASSUME NEW ts, NEW W, NEW step \in BOOLEAN, AreDue(ts), Apply(ts, W, step)
      PROVE  ChannelsTyped' /\ Fresh'
  BY <1>2, ApplyKeepsTypes, ApplyKeepsFresh DEF FreshInv, VersionInv
<1>3. ASSUME Rest
      PROVE  ChannelsTyped' /\ Fresh'
  BY <1>3 DEF Rest, checkpointVars, FreshInv, ChannelsTyped, Fresh
<1>4. AreDue(tasks) /\ AreDue(Due) /\ AreDue({})
  BY DEF AreDue, FreshInv, TasksFit
<1>5. (Due # {}) \in BOOLEAN
  OBVIOUS
<1> QED
  BY <1>1, <1>2, <1>3, <1>4, <1>5, Steps DEF FreshInv, Advance

LEMMA FreshInvSuffices ==
    ASSUME BarriersHaveNames, FreshInv
    PROVE  TriggersAreFresh
<1> SUFFICES ASSUME NEW t \in tasks, t.trigger # None
    PROVE  /\ since[t.name][t.trigger] # {}
           /\ Kind[t.trigger] \in Barriers => Names[t.trigger] \subseteq since[t.name][t.trigger]
  BY DEF TriggersAreFresh
<1> DEFINE n == t.name
           c == t.trigger
<1>1. n \in Nodes /\ c \in Channels /\ IsTriggered(n, c, Channel, versions, seen)
  BY DueFields DEF FreshInv, TasksFit
<1> HIDE DEF n, c
<1>2. IsAvailable(c, Channel[c]) /\ versions[c] > seen[n][c]
  BY <1>1 DEF IsTriggered
<1>3. versions[c] \in Nat /\ seen[n][c] \in Nat
  BY <1>1 DEF FreshInv, VersionInv, VersionsTyped
<1>4. content[c] \subseteq since[n][c]
  BY <1>1, <1>2, <1>3 DEF FreshInv, Fresh
<1>5. Channel[c].value = content[c]
  BY <1>1 DEF Channel
<1>6. /\ content[c] # {}
      /\ Kind[c] \in Barriers => content[c] = Names[c]
  BY <1>1, <1>2, <1>5, Availability, KindIsKnown DEF IsFull, BarriersHaveNames, Barriers
<1>7. since[n][c] # {} /\ (Kind[c] \in Barriers => Names[c] \subseteq since[n][c])
  BY <1>4, <1>6
<1> QED
  BY <1>7 DEF n, c

LEMMA InitIsFresh == Init => FreshInv
<1> SUFFICES ASSUME Init
    PROVE  FreshInv
  OBVIOUS
<1>1. ChannelsTyped /\ Fresh
  BY DEF Init, ChannelsTyped, Fresh
<1>2. VersionInv
  BY InitHasVersions
<1>3. Sends(Channel) = {}
  BY DEF Init, Sends, Channel
<1>4. PushTasks(Channel) = {}
  BY <1>3 DEF PushTasks
<1>5. TasksFit
  BY <1>4 DEF Init, TasksFit
<1> QED
  BY <1>1, <1>2, <1>5 DEF FreshInv

\* A node is started by a channel only for what was written to the channel since
\* it was last started by it, and by a barrier only for all of its names
\* (TriggersAreFresh), in any graph whose barriers have names.
THEOREM StartsAreFresh ==
    ASSUME BarriersHaveNames
    PROVE  Spec => []TriggersAreFresh
<1>1. FreshInv => TriggersAreFresh
  BY FreshInvSuffices
<1> QED
  BY <1>1, InitIsFresh, FreshInvIsInductive, PTL DEF Spec

-----------------------------------------------------------------------------
(* Sends run once.                                                            *)

\* The TASKS topic holds the Sends, as far as they are for nodes of the graph.
SendsQueued == {x \in sends : x.node \in Nodes} = {x \in Sends(Channel) : x.node \in Nodes}

SendInv == ChannelsTyped /\ TasksFit /\ SendsQueued

LEMMA SendsInChannels ==
    /\ \A x : x \in Sends(Channel) <=> \E c \in Channels : Kind[c] = "Topic" /\ x \in content[c]
    /\ \A x : x \in Sends(Channel)' <=> \E c \in Channels : Kind[c] = "Topic" /\ x \in content'[c]
  BY DEF Sends, Channel

LEMMA ApplySends ==
    ASSUME NEW ts, NEW W, NEW step \in BOOLEAN, Apply(ts, W, step)
    PROVE  \A x : x \in sends' <=> x \in NewSends(W) \/ (~step /\ x \in sends)
<1>1. sends' = NewSends(W) \cup (IF step THEN {} ELSE sends)
  BY Zenon DEF Apply
<1> QED
  BY <1>1

\* With the tasks that are due, or nothing to clear away, the topic gets the
\* new Sends and loses the old ones.
LEMMA ApplyKeepsSends ==
    ASSUME ChannelsTyped, SendsQueued, NEW ts, NEW W, NEW step \in BOOLEAN, Apply(ts, W, step),
           \/ step
           \/ {x \in Sends(Channel) : x.node \in Nodes} = {}
           \/ \A c \in Channels : Kind[c] = "Topic" => W[c] = {}
    PROVE  SendsQueued'
<1>1. \A x : x \in sends' <=> x \in NewSends(W) \/ (~step /\ x \in sends)
  BY ApplySends
<1>2. \A c \in Channels : Kind[c] = "Topic" =>
          content'[c] = IF W[c] # {} THEN W[c] ELSE IF step THEN {} ELSE content[c]
  BY ApplyWiping DEF Wiping
<1>3. \A x : x \in sends' <=> \/ \E c \in Channels : Kind[c] = "Topic" /\ x \in W[c]
                              \/ ~step /\ x \in sends
  BY <1>1 DEF NewSends
<1>4. \A x : x.node \in Nodes => (x \in sends <=> x \in Sends(Channel))
  BY DEF SendsQueued
<1> SUFFICES ASSUME NEW x, x.node \in Nodes
    PROVE  x \in sends' <=> x \in Sends(Channel)'
  BY DEF SendsQueued
<1>5. CASE step
  BY <1>2, <1>3, <1>5, SendsInChannels
<1>6. CASE ~step /\ {y \in Sends(Channel) : y.node \in Nodes} = {}
  <2>1. x \notin sends /\ x \notin Sends(Channel)
    BY <1>4, <1>6
  <2> QED
    BY <1>2, <1>3, <1>6, <2>1, SendsInChannels
<1>7. CASE ~step /\ \A c \in Channels : Kind[c] = "Topic" => W[c] = {}
  <2>1. \A c \in Channels : Kind[c] = "Topic" => content'[c] = content[c]
    BY <1>2, <1>7
  <2>2. x \in sends' <=> x \in sends
    BY <1>3, <1>7
  <2> QED
    BY <1>4, <2>1, <2>2, SendsInChannels
<1> QED
  BY <1>5, <1>6, <1>7

LEMMA SendInvIsInductive ==
    ASSUME CommandsSendNothing, SendInv, [Next]_vars
    PROVE  SendInv'
<1>1. TasksFit'
  BY TasksStayFit DEF SendInv
<1>2. ASSUME NEW ts, NEW W, Advance(ts, W, TRUE)
      PROVE  ChannelsTyped' /\ SendsQueued'
  BY <1>2, ApplyKeepsTypes, ApplyKeepsSends DEF SendInv, Advance
<1>3. ASSUME NEW W, Advance(Due, W, Due # {})
      PROVE  ChannelsTyped' /\ SendsQueued'
  <2>1. Apply(Due, W, Due # {}) /\ (Due # {}) \in BOOLEAN
    BY <1>3 DEF Advance
  <2>2. Due = {} => {x \in Sends(Channel) : x.node \in Nodes} = {}
    <3>1. PushTasks(Channel) \subseteq Due
      BY PreparedFit DEF Due
    <3> QED
      BY <3>1, PushTaskFields
  <2>3. ChannelsTyped'
    BY <2>1, ApplyKeepsTypes DEF SendInv
  <2>4. SendsQueued'
    BY <2>1, <2>2, ApplyKeepsSends DEF SendInv
  <2> QED
    BY <2>3, <2>4
<1>4. ASSUME NEW W, WritesOf(W, Gotos), Apply({}, W, FALSE)
      PROVE  ChannelsTyped' /\ SendsQueued'
  <2>1. \A c \in Channels : Kind[c] = "Topic" => W[c] = {}
    BY <1>4 DEF WritesOf, CommandsSendNothing
  <2> QED
    BY <1>4, <2>1, ApplyKeepsTypes, ApplyKeepsSends DEF SendInv
<1>5. ASSUME Rest
      PROVE  ChannelsTyped' /\ SendsQueued'
  BY <1>5 DEF Rest, checkpointVars, SendInv, ChannelsTyped, SendsQueued, Channel
<1> QED
  BY <1>1, <1>2, <1>3, <1>4, <1>5, Steps DEF SendInv

LEMMA SendInvSuffices == SendInv => SendsRunOnce
<1> SUFFICES ASSUME SendInv, status = "running", NEW x
    PROVE  x \in {t.send : t \in {u \in tasks : u.trigger = None}} <=> x \in {send \in sends : send.node \in Nodes}
  BY DEF SendsRunOnce
<1>1. PushTasks(Channel) \subseteq tasks /\ tasks \subseteq Due
  BY DEF SendInv, TasksFit
<1>2. x \in {t.send : t \in {u \in tasks : u.trigger = None}} <=> x \in Sends(Channel) /\ x.node \in Nodes
  BY <1>1, DueFields, PushTaskFields
<1> QED
  BY <1>2 DEF SendInv, SendsQueued

\* A Send to a node runs in the superstep after the one that made it, and in no
\* other (SendsRunOnce), in any graph, wherever its runs stop and whatever input
\* they get, unless a Command brings Sends to a thread whose own are due.
THEOREM SendsAreNotLost ==
    ASSUME CommandsSendNothing
    PROVE  Spec => []SendsRunOnce
<1>1. Init => SendInv
  BY InitIsFresh DEF FreshInv, SendInv, Init, SendsQueued, Sends, Channel
<1>2. SendInv /\ [Next]_vars => SendInv'
  BY SendInvIsInductive
<1> QED
  BY <1>1, <1>2, SendInvSuffices, PTL DEF Spec

-----------------------------------------------------------------------------
(* The candidates are exact.                                                  *)

\* Only what someone writes holds anything.
WrittenOnly == \A c \in Channels : content[c] # {} => c \in Ever

LEMMA ApplyContent ==
    ASSUME ChannelsTyped, NEW ts, NEW W, NEW step \in BOOLEAN, Apply(ts, W, step), NEW c \in Channels
    PROVE  content'[c] \subseteq content[c] \cup W[c]
<1>1. CASE Kind[c] \in Wiping
  BY <1>1, ApplyWiping
<1>2. CASE Kind[c] = "LastValue"
  BY <1>2, ApplyLastValue
<1>3. CASE Kind[c] = "LastValueAfterFinish"
  BY <1>3, ApplyDeferred
<1>4. CASE Kind[c] \in Barriers
  <2>1. content'[c] = Remains(ts, c) \cup W[c]
    BY <1>4, ApplyBarrier
  <2> QED
    BY <2>1 DEF Remains
<1> QED
  BY <1>1, <1>2, <1>3, <1>4, KindIsKnown DEF Barriers

LEMMA ApplyKeepsWritten ==
    ASSUME ChannelsTyped, WrittenOnly, NEW ts, NEW W, NEW step \in BOOLEAN, Apply(ts, W, step),
           WritesOf(W, Writers)
    PROVE  WrittenOnly'
<1> SUFFICES ASSUME NEW c \in Channels, content'[c] # {}, c \notin Ever
    PROVE  FALSE
  BY DEF WrittenOnly
<1>1. W[c] = {}
  BY DEF WritesOf, Ever
<1> QED
  BY <1>1, ApplyContent DEF WrittenOnly

LEMMA WritersInclude ==
    ASSUME NEW W
    PROVE  WritesOf(W, Inputs) \/ WritesOf(W, Gotos) => WritesOf(W, Writers)
  BY DEF WritesOf, Writers

\* What is available holds something.
LEMMA AvailableHasContent ==
    ASSUME BarriersHaveNames, NEW c \in Channels, IsAvailable(c, Channel[c])
    PROVE  content[c] # {} /\ (Kind[c] \in Barriers => content[c] = Names[c])
<1>1. Channel[c].value = content[c]
  BY DEF Channel
<1> QED
  BY <1>1, Availability, KindIsKnown DEF IsFull, BarriersHaveNames, Barriers

\* A channel that is available but not updated was available, at the same version.
LEMMA NotUpdatedIsUnchanged ==
    ASSUME BarriersHaveNames, ChannelsTyped, NEW ts, NEW W, NEW step \in BOOLEAN, Apply(ts, W, step),
           NEW c \in Channels, IsAvailable(c, Channel'[c]), c \notin UpdatedAfter(ts, W, step)
    PROVE  /\ IsAvailable(c, Channel[c]) /\ versions'[c] = versions[c]
           /\ Kind[c] \in Wiping => ~step
           /\ Kind[c] \in Kept => c \notin Consumed(ts)
<1>1. /\ Channel[c].value = content[c] /\ Channel[c].finished = finished[c]
      /\ Channel'[c].value = content'[c] /\ Channel'[c].finished = finished'[c]
  BY DEF Channel
<1>2. CASE Kind[c] \in Wiping
  <2>1. content'[c] # {}
    BY <1>1, <1>2, Availability
  <2>2. W[c] = {} /\ ~step /\ content'[c] = content[c] /\ versions'[c] = versions[c]
    BY <1>2, <2>1, ApplyWiping
  <2> QED
    BY <1>1, <1>2, <2>1, <2>2, Availability DEF Wiping, Kept, Barriers
<1>3. CASE Kind[c] = "LastValue"
  <2>1. content'[c] # {}
    BY <1>1, <1>3, Availability
  <2>2. W[c] = {} /\ content'[c] = content[c] /\ versions'[c] = versions[c]
    BY <1>3, ApplyLastValue
  <2> QED
    BY <1>1, <1>3, <2>1, <2>2, Availability DEF Wiping, Kept, Barriers
<1>4. CASE Kind[c] = "LastValueAfterFinish"
  <2>1. content'[c] # {} /\ finished'[c]
    BY <1>1, <1>4, Availability
  <2>2. c \notin FinishedBy(ts, W, step)
    BY <1>4, ApplyDeferred
  <2>3. W[c] = {} /\ c \notin Consumed(ts) /\ finished[c]
    BY <1>4, <2>1, <2>2, ApplyDeferred
  <2>4. content'[c] = content[c] /\ versions'[c] = versions[c]
    BY <1>4, <2>2, <2>3, ApplyDeferred
  <2> QED
    BY <1>1, <1>4, <2>1, <2>3, <2>4, Availability DEF Wiping
<1>5. CASE Kind[c] \in Barriers
  <2>1. /\ Kind[c] = "NamedBarrierValue" \/ Kind[c] = "NamedBarrierValueAfterFinish"
        /\ Kind[c] \notin Wiping
    BY <1>5 DEF Barriers, Wiping
  <2>2. /\ content'[c] = Names[c] /\ Names[c] # {}
        /\ Kind[c] = "NamedBarrierValueAfterFinish" => finished'[c]
    BY <1>1, <1>5, <2>1, Availability DEF IsFull, BarriersHaveNames
  <2>3. /\ content'[c] = Remains(ts, c) \cup W[c]
        /\ c \notin UpdatedByWrites(ts, W) /\ c \notin FinishedBy(ts, W, step)
    BY <1>5, ApplyBarrier
  <2>4. Kind[c] = "NamedBarrierValueAfterFinish" => c \notin Consumed(ts) /\ finished[c]
    BY <1>5, <2>2, <2>3, ApplyBarrier
  <2>5. W[c] \subseteq Remains(ts, c)
    <3>1. c \in UpdatedByWrites(ts, W) <=>
              /\ ~(W[c] \subseteq Remains(ts, c)) /\ content'[c] = Names[c]
              /\ Kind[c] = "NamedBarrierValue" \/ (c \notin Consumed(ts) /\ finished[c])
      BY <1>5, ApplyBarrier
    <3> QED
      BY <2>1, <2>2, <2>3, <2>4, <3>1
  <2>6. c \notin Consumed(ts) /\ content[c] = Names[c]
    BY <2>2, <2>3, <2>5 DEF Remains
  <2>7. versions'[c] = versions[c]
    BY <1>5, <2>3, <2>5, <2>6, ApplyBarrier
  <2> QED
    BY <1>1, <2>1, <2>4, <2>6, <2>7, Availability DEF IsFull
<1> QED
  BY <1>2, <1>3, <1>4, <1>5, KindIsKnown DEF Barriers

\* When all that was due has run, what is due then has an updated trigger.
LEMMA AdvanceIsExact ==
    ASSUME BarriersHaveNames, OneWayIn, VersionsTyped, ChannelsTyped, WrittenOnly,
           NEW W, NEW step \in BOOLEAN, step = (Due # {}), Advance(Due, W, step)
    PROVE  tasks' = Due'
<1> DEFINE u == UpdatedAfter(Due, W, step)
<1>1. /\ Apply(Due, W, step)
      /\ tasks' = Prepare(u, Channel', versions', seen')
  BY DEF Advance
<1>2. tasks' \subseteq Due' /\ PushTasks(Channel') \subseteq tasks'
  BY <1>1, UpdatedAreChannels, PreparedFit DEF Due
<1> SUFFICES ASSUME NEW n \in CandidateNodes(None),
                    FirstTrigger(n, Channel', versions', seen') # None
    PROVE  n \in CandidateNodes(u)
  <2>1. ASSUME \A n \in CandidateNodes(None) :
                   FirstTrigger(n, Channel', versions', seen') # None => n \in CandidateNodes(u)
        PROVE  Due' \subseteq tasks'
    <3> SUFFICES ASSUME NEW t \in Due'
        PROVE  t \in tasks'
      OBVIOUS
    <3>1. t \in Prepare(None, Channel', versions', seen')
      BY DEF Due
    <3>2. \/ t \in PushTasks(Channel')
          \/ \E n \in CandidateNodes(None) :
               /\ FirstTrigger(n, Channel', versions', seen') # None
               /\ t = PullTask(n, FirstTrigger(n, Channel', versions', seen'))
      BY <3>1, PreparedTasks
    <3>3. \/ t \in PushTasks(Channel')
          \/ \E n \in CandidateNodes(u) :
               /\ FirstTrigger(n, Channel', versions', seen') # None
               /\ t = PullTask(n, FirstTrigger(n, Channel', versions', seen'))
      BY <2>1, <3>2
    <3>4. t \in Prepare(u, Channel', versions', seen')
      BY <3>3, PreparedTasks
    <3> QED
      BY <1>1, <3>4
  <2> HIDE DEF u
  <2> QED
    BY <1>2, <2>1
<1> SUFFICES ASSUME u # None, \A c \in TriggersOf(n) : c \notin u
    PROVE  FALSE
  BY UpdatedAreChannels DEF CandidateNodes, TriggerToNodes
<1> DEFINE c == FirstTrigger(n, Channel', versions', seen')
<1>3. n \in Nodes
  BY DEF CandidateNodes
<1>4. c \in TriggersOf(n) /\ c \in Channels /\ IsTriggered(n, c, Channel', versions', seen')
  BY <1>3, FirstTriggerFires
<1> HIDE DEF c, u
<1>5. IsAvailable(c, Channel'[c]) /\ versions'[c] > seen'[n][c] /\ c \notin u
  BY <1>4 DEF IsTriggered
<1>6. /\ IsAvailable(c, Channel[c]) /\ versions'[c] = versions[c]
      /\ Kind[c] \in Wiping => ~step
  BY <1>1, <1>4, <1>5, NotUpdatedIsUnchanged DEF u
<1>7. seen'[n][c] = IF Started(Due, n, c) THEN versions[c] ELSE seen[n][c]
  BY <1>1, <1>3, <1>4, ApplyHistory
<1>8. ~Started(Due, n, c)
  <2>1. versions[c] \in Nat
    BY <1>4 DEF VersionsTyped
  <2> QED
    BY <1>5, <1>6, <1>7, <2>1
<1>9. IsTriggered(n, c, Channel, versions, seen)
  BY <1>5, <1>6, <1>7, <1>8 DEF IsTriggered
<1> DEFINE d == FirstTrigger(n, Channel, versions, seen)
<1>10. d # None /\ PullTask(n, d) \in Due
  BY <1>3, <1>4, <1>9, TriggeredIsDue
<1>11. Started(Due, n, d) /\ step
  BY <1>10 DEF Started, PullTask
<1>12. /\ d \in Channels /\ IsTriggered(n, d, Channel, versions, seen)
       /\ \E i \in DOMAIN Triggers[n] :
             /\ d = Triggers[n][i]
             /\ \A j \in DOMAIN Triggers[n] : IsTriggered(n, Triggers[n][j], Channel, versions, seen) => i <= j
  BY <1>3, <1>10, FirstTriggerFires
<1> HIDE DEF d
<1>13. PICK i \in DOMAIN Triggers[n] :
           /\ d = Triggers[n][i]
           /\ \A j \in DOMAIN Triggers[n] : IsTriggered(n, Triggers[n][j], Channel, versions, seen) => i <= j
  BY <1>12
<1>14. PICK j \in DOMAIN Triggers[n] : c = Triggers[n][j]
  BY <1>4 DEF TriggersOf
<1>15. c # d
  BY <1>8, <1>11
<1>16. i < j
  <2>1. i <= j /\ i # j
    BY <1>9, <1>13, <1>14, <1>15
  <2>2. i \in Nat /\ j \in Nat
    BY <1>3, GraphAssumption
  <2> QED
    BY <2>1, <2>2
<1>17. c \in Ever /\ d \in Ever
  BY <1>4, <1>6, <1>12, AvailableHasContent DEF IsTriggered, WrittenOnly
<1>18. Kind[c] \in Wiping
  BY <1>3, <1>13, <1>14, <1>15, <1>16, <1>17 DEF OneWayIn
<1> QED
  BY <1>6, <1>11, <1>18

\* The invariant of CandidatesAreExact.
ExactInv == VersionInv /\ ChannelsTyped /\ TasksFit /\ WrittenOnly /\ CandidatesAreExact

\* A step that the tasks under way, or those an input discards, are all that is due.
LEMMA ExactSteps ==
    ASSUME ExactInv, [Next]_vars
    PROVE  \/ \E W : \E step \in BOOLEAN :
                 /\ WritesOf(W, Writers) /\ step = (Due # {}) /\ Advance(Due, W, step)
                 /\ ~step => WritesOf(W, Inputs)
           \/ \E W : WritesOf(W, Gotos) /\ Apply({}, W, FALSE) /\ status' = "running" /\ tasks' = Due'
           \/ Rest
<1>1. ASSUME status = "running", tasks # {}, NEW W, WritesOf(W, Writers), Advance(tasks, W, TRUE)
      PROVE  \E step \in BOOLEAN :
                 /\ step = (Due # {}) /\ Advance(Due, W, step)
                 /\ ~step => WritesOf(W, Inputs)
  <2>1. tasks = Due
    BY <1>1 DEF ExactInv, CandidatesAreExact, Due
  <2> QED
    BY <1>1, <2>1
<1>2. ASSUME NEW W, WritesOf(W, Inputs), Advance(Due, W, Due # {})
      PROVE  \E step \in BOOLEAN :
                 /\ step = (Due # {}) /\ Advance(Due, W, step)
                 /\ ~step => WritesOf(W, Inputs)
  <2>1. (Due # {}) \in BOOLEAN
    OBVIOUS
  <2> QED
    BY <1>2, <2>1
<1> QED
  BY <1>1, <1>2, Steps, WritersInclude DEF ExactInv

LEMMA ExactInvIsInductive ==
    ASSUME BarriersHaveNames, OneWayIn, ExactInv, [Next]_vars
    PROVE  ExactInv'
<1>1. VersionInv' /\ TasksFit'
  BY NextKeepsVersions, TasksStayFit DEF ExactInv
<1>2. ASSUME NEW W, NEW step \in BOOLEAN, WritesOf(W, Writers), step = (Due # {}), Advance(Due, W, step)
      PROVE  ChannelsTyped' /\ WrittenOnly' /\ CandidatesAreExact'
  <2>1. Apply(Due, W, step) /\ tasks' = Due'
    BY <1>2, AdvanceIsExact DEF Advance, ExactInv, VersionInv
  <2> QED
    BY <1>2, <2>1, ApplyKeepsTypes, ApplyKeepsWritten DEF ExactInv, CandidatesAreExact, Due
<1>3. ASSUME NEW W, WritesOf(W, Gotos), Apply({}, W, FALSE), tasks' = Due'
      PROVE  ChannelsTyped' /\ WrittenOnly' /\ CandidatesAreExact'
  BY <1>3, WritersInclude, ApplyKeepsTypes, ApplyKeepsWritten DEF ExactInv, CandidatesAreExact, Due
<1>4. ASSUME Rest
      PROVE  ChannelsTyped' /\ WrittenOnly' /\ CandidatesAreExact'
  <2>1. ChannelsTyped' /\ WrittenOnly' /\ Due' = Due
    BY <1>4 DEF Rest, checkpointVars, ExactInv, ChannelsTyped, WrittenOnly, Due, Channel
  <2>2. status' = "running" => tasks' = Due'
    BY <1>4, <2>1 DEF Rest, ExactInv, CandidatesAreExact, Due
  <2> QED
    BY <2>1, <2>2 DEF CandidatesAreExact, Due
<1> QED
  BY <1>1, <1>2, <1>3, <1>4, ExactSteps DEF ExactInv

\* Looking only at the nodes of the updated channels finds the tasks that going
\* through all nodes finds (CandidatesAreExact), in any graph in which of the
\* triggers of a node all but the first last one superstep.
THEOREM OptimizationIsExact ==
    ASSUME BarriersHaveNames, OneWayIn
    PROVE  Spec => []CandidatesAreExact
<1>1. Init => ExactInv
  BY InitIsFresh DEF FreshInv, ExactInv, Init, WrittenOnly, CandidatesAreExact
<1>2. ExactInv /\ [Next]_vars => ExactInv'
  BY ExactInvIsInductive
<1>3. ExactInv => CandidatesAreExact
  BY DEF ExactInv
<1> QED
  BY <1>1, <1>2, <1>3, PTL DEF Spec

-----------------------------------------------------------------------------
(* Joins fire.                                                                *)

\* A barrier holds names only.
OnlyNames == \A c \in Channels : Kind[c] \in Barriers => content[c] \subseteq Names[c]

\* What is to be consumed starts every node that it triggers.
OpenIsUnseen ==
    \A c \in Channels : Kind[c] \in Kept /\ IsAvailable(c, Channel[c]) =>
        \A n \in Nodes : versions[c] > seen[n][c]

\* It holds what arrived since it last did so.
ArrivalsAreKept ==
    \A n \in Nodes : \A c \in TriggersOf(n) :
        /\ Kind[c] \in Barriers => since[n][c] = content[c]
        /\ Kind[c] = "LastValueAfterFinish" => (since[n][c] = {} <=> content[c] = {})

TriggersAreChannels == \A n \in Nodes : TriggersOf(n) \subseteq Channels

LEMMA TriggersTyped == TriggersAreChannels
<1> SUFFICES ASSUME NEW n \in Nodes, NEW i \in DOMAIN Triggers[n]
    PROVE  Triggers[n][i] \in Channels
  BY DEF TriggersAreChannels, TriggersOf
<1> QED
  BY GraphAssumption

\* An updated channel is available, at a version that no node has seen.
LEMMA UpdatedIsUnseen ==
    ASSUME VersionInv, ChannelsTyped, NEW ts, NEW W, NEW step \in BOOLEAN, Apply(ts, W, step),
           NEW c \in UpdatedAfter(ts, W, step)
    PROVE  /\ c \in Channels /\ IsAvailable(c, Channel'[c])
           /\ \A n \in Nodes : versions'[c] > seen'[n][c]
<1>1. c \in Channels
  BY UpdatedAreChannels
<1>2. Channel'[c].value = content'[c] /\ Channel'[c].finished = finished'[c]
  BY <1>1 DEF Channel
<1>3. IsAvailable(c, Channel'[c]) /\ versions'[c] = WriteVersion(ts)
  <2>1. CASE Kind[c] \in Wiping
    BY <1>1, <1>2, <2>1, ApplyWiping, Availability
  <2>2. CASE Kind[c] = "LastValue"
    BY <1>1, <1>2, <2>2, ApplyLastValue, Availability
  <2>3. CASE Kind[c] = "LastValueAfterFinish"
    <3>1. c \in FinishedBy(ts, W, step)
      BY <1>1, <2>3, ApplyDeferred
    <3>2. content'[c] # {} /\ finished'[c] /\ versions'[c] = WriteVersion(ts)
      BY <1>1, <2>3, <3>1, ApplyDeferred
    <3> QED
      BY <1>1, <1>2, <2>3, <3>2, Availability
  <2>4. CASE Kind[c] \in Barriers
    <3>1. c \in UpdatedByWrites(ts, W) \/ c \in FinishedBy(ts, W, step)
      BY <1>1, <2>4, ApplyBarrier
    <3>2. content'[c] = Names[c] /\ versions'[c] = WriteVersion(ts)
      BY <1>1, <2>4, <3>1, ApplyBarrier
    <3>3. Kind[c] = "NamedBarrierValueAfterFinish" => finished'[c]
      BY <1>1, <2>4, <3>1, ApplyBarrier
    <3> QED
      BY <1>1, <1>2, <2>4, <3>2, <3>3, Availability DEF IsFull, Barriers
  <2> QED
    BY <1>1, <2>1, <2>2, <2>3, <2>4, KindIsKnown DEF Barriers
<1>4. WriteVersion(ts) > MaxVersion /\ WriteVersion(ts) \in Nat
  BY VersionAfterApply DEF Apply
<1>5. MaxVersion \in Nat /\ versions[c] \in Nat /\ versions[c] <= MaxVersion
  BY <1>1, MaxVersionIsHighest DEF VersionInv, VersionsTyped
<1>6. versions'[c] # versions[c]
  BY <1>3, <1>4, <1>5
<1>7. ChangeIsUnseen
  BY ApplyKeepsVersions
<1> QED
  BY <1>1, <1>3, <1>6, <1>7 DEF ChangeIsUnseen

\* What is available and used up is consumed, if it is of a kind to be consumed.
LEMMA AvailableIsConsumed ==
    ASSUME NEW ts, NEW c \in Channels, Kind[c] \in Kept, IsAvailable(c, Channel[c]), c \in UsedUp(ts)
    PROVE  c \in Consumed(ts)
<1>1. Kind[c] = "LastValueAfterFinish" => Channel[c].finished
  BY Availability
<1> QED
  BY <1>1 DEF Consumed, Consumes, Kept

LEMMA ApplyKeepsOpen ==
    ASSUME BarriersHaveNames, VersionInv, ChannelsTyped, OpenIsUnseen,
           NEW ts, NEW W, NEW step \in BOOLEAN, AreDue(ts), Apply(ts, W, step)
    PROVE  OpenIsUnseen'
<1> SUFFICES ASSUME NEW c \in Channels, Kind[c] \in Kept, IsAvailable(c, Channel'[c]), NEW n \in Nodes
    PROVE  versions'[c] > seen'[n][c]
  BY DEF OpenIsUnseen
<1>1. CASE c \in UpdatedAfter(ts, W, step)
  BY <1>1, UpdatedIsUnseen
<1>2. CASE c \notin UpdatedAfter(ts, W, step)
  <2>1. IsAvailable(c, Channel[c]) /\ versions'[c] = versions[c] /\ c \notin Consumed(ts)
    BY <1>2, NotUpdatedIsUnchanged
  <2>2. Started(ts, n, c) => c \in UsedUp(ts)
    BY StartedByAvailable
  <2>3. c \in UsedUp(ts) => c \in Consumed(ts)
    BY <2>1, AvailableIsConsumed
  <2>4. seen'[n][c] = seen[n][c]
    BY <2>1, <2>2, <2>3, ApplyHistory
  <2> QED
    BY <2>1, <2>4 DEF OpenIsUnseen
<1> QED
  BY <1>1, <1>2

\* Of the triggers of a node that fire, one that is to be consumed is the first.
LEMMA KeptIsFirst ==
    ASSUME BarriersHaveNames, OneWayIn, WrittenOnly,
           NEW n \in Nodes, NEW c \in TriggersOf(n), Kind[c] \in Kept,
           IsTriggered(n, c, Channel, versions, seen)
    PROVE  FirstTrigger(n, Channel, versions, seen) = c
<1> DEFINE d == FirstTrigger(n, Channel, versions, seen)
<1>1. d # None
  BY TriggeredIsDue
<1>2. /\ d \in Channels /\ IsTriggered(n, d, Channel, versions, seen)
      /\ \E i \in DOMAIN Triggers[n] :
            /\ d = Triggers[n][i]
            /\ \A j \in DOMAIN Triggers[n] : IsTriggered(n, Triggers[n][j], Channel, versions, seen) => i <= j
  BY <1>1, FirstTriggerFires
<1> HIDE DEF d
<1>3. PICK i \in DOMAIN Triggers[n] :
           /\ d = Triggers[n][i]
           /\ \A j \in DOMAIN Triggers[n] : IsTriggered(n, Triggers[n][j], Channel, versions, seen) => i <= j
  BY <1>2
<1>4. PICK j \in DOMAIN Triggers[n] : c = Triggers[n][j]
  BY DEF TriggersOf
<1>5. c \in Channels
  BY TriggersTyped DEF TriggersAreChannels
<1>6. c \in Ever /\ d \in Ever
  BY <1>2, <1>5, AvailableHasContent DEF IsTriggered, WrittenOnly
<1>7. Kind[c] \notin Wiping
  BY DEF Kept, Barriers, Wiping
<1>8. i \in Nat /\ j \in Nat /\ i <= j
  BY <1>3, <1>4, GraphAssumption
<1>9. ASSUME d # c
      PROVE  FALSE
  <2>1. i < j
    BY <1>3, <1>4, <1>8, <1>9
  <2> QED
    BY <1>3, <1>4, <1>6, <1>7, <1>9, <2>1 DEF OneWayIn
<1> QED
  BY <1>9 DEF d

\* So it is consumed exactly when it starts its nodes.
LEMMA KeptAreStarted ==
    ASSUME BarriersHaveNames, OneWayIn, WrittenOnly, OpenIsUnseen,
           NEW ts, ts = Due \/ ts = {},
           NEW n \in Nodes, NEW c \in TriggersOf(n), Kind[c] \in Kept
    PROVE  Started(ts, n, c) <=> c \in Consumed(ts)
<1>1. c \in Channels
  BY TriggersTyped DEF TriggersAreChannels
<1>2. AreDue(ts)
  BY DEF AreDue
<1>3. ASSUME Started(ts, n, c)
      PROVE  c \in Consumed(ts)
  <2>1. c \in UsedUp(ts) /\ IsAvailable(c, Channel[c])
    BY <1>1, <1>2, <1>3, StartedByAvailable
  <2> QED
    BY <1>1, <2>1, AvailableIsConsumed
<1>4. ASSUME c \in Consumed(ts)
      PROVE  Started(ts, n, c)
  <2>1. c \in UsedUp(ts)
    BY <1>4 DEF Consumed
  <2>2. IsAvailable(c, Channel[c])
    BY <1>2, <2>1, StartedByAvailable
  <2>3. IsTriggered(n, c, Channel, versions, seen)
    BY <1>1, <2>2 DEF OpenIsUnseen, IsTriggered
  <2>4. PullTask(n, c) \in Due
    BY <2>3, KeptIsFirst, TriggeredIsDue
  <2>5. ts # {}
    BY <2>1 DEF UsedUp
  <2> QED
    BY <2>4, <2>5 DEF Started, PullTask
<1> QED
  BY <1>3, <1>4

LEMMA ApplyKeepsArrivals ==
    ASSUME BarriersHaveNames, OneWayIn, ChannelsTyped, WrittenOnly, OpenIsUnseen, ArrivalsAreKept,
           NEW ts, ts = Due \/ ts = {}, NEW W, NEW step \in BOOLEAN, Apply(ts, W, step)
    PROVE  ArrivalsAreKept'
<1> SUFFICES ASSUME NEW n \in Nodes, NEW c \in TriggersOf(n)
    PROVE  /\ Kind[c] \in Barriers => since'[n][c] = content'[c]
           /\ Kind[c] = "LastValueAfterFinish" => (since'[n][c] = {} <=> content'[c] = {})
  BY DEF ArrivalsAreKept
<1>1. c \in Channels
  BY TriggersTyped DEF TriggersAreChannels
<1>2. since'[n][c] = W[c] \cup (IF Started(ts, n, c) THEN {} ELSE since[n][c])
  BY <1>1, ApplyHistory
<1>3. Kind[c] \in Kept => (Started(ts, n, c) <=> c \in Consumed(ts))
  BY KeptAreStarted
<1>4. CASE Kind[c] \in Barriers
  <2>1. content'[c] = Remains(ts, c) \cup W[c]
    BY <1>1, <1>4, ApplyBarrier
  <2>2. since[n][c] = content[c]
    BY <1>4 DEF ArrivalsAreKept
  <2>3. Kind[c] # "LastValueAfterFinish"
    BY <1>4 DEF Barriers
  <2> QED
    BY <1>2, <1>3, <1>4, <2>1, <2>2, <2>3 DEF Remains, Kept
<1>5. CASE Kind[c] = "LastValueAfterFinish"
  <2>1. content'[c] = IF W[c] # {} THEN W[c] ELSE IF c \in Consumed(ts) THEN {} ELSE content[c]
    BY <1>1, <1>5, ApplyDeferred
  <2>2. since[n][c] = {} <=> content[c] = {}
    BY <1>5 DEF ArrivalsAreKept
  <2>3. Kind[c] \notin Barriers
    BY <1>5 DEF Barriers
  <2> QED
    BY <1>2, <1>3, <1>5, <2>1, <2>2, <2>3 DEF Kept
<1> QED
  BY <1>4, <1>5

LEMMA ApplyKeepsNames ==
    ASSUME OnlyNamesArrive, ChannelsTyped, OnlyNames,
           NEW ts, NEW W, NEW step \in BOOLEAN, Apply(ts, W, step), WritesOf(W, Writers)
    PROVE  OnlyNames'
<1> SUFFICES ASSUME NEW c \in Channels, Kind[c] \in Barriers
    PROVE  content'[c] \subseteq Names[c]
  BY DEF OnlyNames
<1>1. W[c] \subseteq Names[c]
  BY DEF WritesOf, OnlyNamesArrive
<1> QED
  BY <1>1, ApplyContent DEF OnlyNames

\* The invariant of JoinsFire.
JoinInv == ExactInv /\ OnlyNames /\ OpenIsUnseen /\ ArrivalsAreKept

LEMMA JoinInvIsInductive ==
    ASSUME BarriersHaveNames, OneWayIn, OnlyNamesArrive, JoinInv, [Next]_vars
    PROVE  JoinInv'
<1>1. ExactInv'
  BY ExactInvIsInductive DEF JoinInv
<1>2. ASSUME NEW ts, ts = Due \/ ts = {}, NEW W, NEW step \in BOOLEAN, WritesOf(W, Writers), Apply(ts, W, step)
      PROVE  OnlyNames' /\ OpenIsUnseen' /\ ArrivalsAreKept'
  <2>1. AreDue(ts)
    BY <1>2 DEF AreDue
  <2> QED
    BY <1>2, <2>1, ApplyKeepsNames, ApplyKeepsOpen, ApplyKeepsArrivals DEF JoinInv, ExactInv
<1>3. ASSUME Rest
      PROVE  OnlyNames' /\ OpenIsUnseen' /\ ArrivalsAreKept'
  BY <1>3 DEF Rest, checkpointVars, JoinInv, OnlyNames, OpenIsUnseen, ArrivalsAreKept, Channel
<1> QED
  BY <1>1, <1>2, <1>3, ExactSteps, WritersInclude DEF JoinInv, Advance

LEMMA InitIsJoin == ASSUME BarriersHaveNames PROVE Init => JoinInv
<1> SUFFICES ASSUME Init
    PROVE  JoinInv
  OBVIOUS
<1>1. ExactInv
  BY InitIsFresh DEF FreshInv, ExactInv, Init, WrittenOnly, CandidatesAreExact
<1>2. OnlyNames /\ ArrivalsAreKept
  BY TriggersTyped DEF Init, OnlyNames, ArrivalsAreKept, TriggersAreChannels
<1>3. OpenIsUnseen
  BY AvailableHasContent DEF Init, OpenIsUnseen
<1> QED
  BY <1>1, <1>2, <1>3 DEF JoinInv

LEMMA JoinInvSuffices ==
    ASSUME BarriersHaveNames, JoinInv
    PROVE  JoinsFire
<1> SUFFICES ASSUME status = "running", NEW n \in Nodes, NEW c \in TriggersOf(n),
                    Kind[c] = "NamedBarrierValue", Names[c] \subseteq since[n][c]
    PROVE  \E t \in tasks : t.name = n
  BY DEF JoinsFire
<1>1. c \in Channels /\ Kind[c] \in Barriers /\ Kind[c] \in Kept
  BY TriggersTyped DEF TriggersAreChannels, Barriers, Kept
<1>2. content[c] = Names[c]
  <2>1. since[n][c] = content[c]
    BY <1>1 DEF JoinInv, ArrivalsAreKept
  <2>2. content[c] \subseteq Names[c]
    BY <1>1 DEF JoinInv, OnlyNames
  <2> QED
    BY <2>1, <2>2
<1>3. IsAvailable(c, Channel[c])
  <2>1. Channel[c].value = content[c]
    BY <1>1 DEF Channel
  <2> QED
    BY <1>1, <1>2, <2>1, Availability DEF IsFull
<1>4. IsTriggered(n, c, Channel, versions, seen)
  BY <1>1, <1>3 DEF JoinInv, OpenIsUnseen, IsTriggered
<1>5. PullTask(n, FirstTrigger(n, Channel, versions, seen)) \in tasks
  BY <1>4, TriggeredIsDue DEF JoinInv, ExactInv, CandidatesAreExact, Due
<1> QED
  BY <1>5 DEF PullTask

\* When every name has arrived at a barrier since its node was last started by
\* it, the node is started (JoinsFire), in any graph whose joined nodes have no
\* other way in, wherever its runs stop.
THEOREM NoArrivalIsLost ==
    ASSUME BarriersHaveNames, OneWayIn, OnlyNamesArrive
    PROVE  Spec => []JoinsFire
<1>1. Init => JoinInv
  BY InitIsJoin
<1>2. JoinInv /\ [Next]_vars => JoinInv'
  BY JoinInvIsInductive
<1>3. JoinInv => JoinsFire
  BY JoinInvSuffices
<1> QED
  BY <1>1, <1>2, <1>3, PTL DEF Spec

-----------------------------------------------------------------------------
(* Deferred nodes run.                                                        *)

\* Channel c holds what a deferred node waits for, finished or not.
Waiting(c) ==
    \/ Kind[c] = "LastValueAfterFinish" /\ content[c] # {}
    \/ Kind[c] = "NamedBarrierValueAfterFinish" /\ content[c] = Names[c]

\* As long as there is such a channel something is due.
NothingForgotten == \A n \in Nodes : \A c \in TriggersOf(n) : Waiting(c) => Due # {}

\* The invariant of DeferredRuns.
DeferInv == JoinInv /\ NothingForgotten

LEMMA TriggeredIsDueNext ==
    ASSUME NEW n \in Nodes, NEW c \in TriggersOf(n), IsTriggered(n, c, Channel', versions', seen')
    PROVE  Due' # {}
<1>1. FirstTrigger(n, Channel', versions', seen') # None
  BY FirstTriggerFires
<1>2. n \in CandidateNodes(None)
  BY DEF CandidateNodes
<1>3. PullTask(n, FirstTrigger(n, Channel', versions', seen')) \in Prepare(None, Channel', versions', seen')
  BY <1>1, <1>2, PreparedTasks
<1> QED
  BY <1>3 DEF Due

\* What is waited for, but not finished, has not met the last superstep.
LEMMA UnfinishedIsNotLast ==
    ASSUME ChannelsTyped, NEW ts, NEW W, NEW step \in BOOLEAN, Apply(ts, W, step), NEW c \in Channels,
           Waiting(c)', ~finished'[c]
    PROVE  ~IsLast(ts, W, step)
<1>1. CASE Kind[c] = "LastValueAfterFinish"
  <2>1. content'[c] # {}
    BY <1>1 DEF Waiting
  <2>2. /\ c \in FinishedBy(ts, W, step) <=>
               /\ IsLast(ts, W, step) /\ content'[c] # {}
               /\ W[c] # {} \/ c \in Consumed(ts) \/ ~finished[c]
        /\ finished'[c] <=> \/ W[c] = {} /\ c \notin Consumed(ts) /\ finished[c]
                            \/ c \in FinishedBy(ts, W, step)
    BY <1>1, ApplyDeferred
  <2> QED
    BY <2>1, <2>2
<1>2. CASE Kind[c] = "NamedBarrierValueAfterFinish"
  <2>1. content'[c] = Names[c] /\ Kind[c] \in Barriers
    BY <1>2 DEF Waiting, Barriers
  <2>2. /\ c \in FinishedBy(ts, W, step) <=>
               /\ Kind[c] = "NamedBarrierValueAfterFinish" /\ IsLast(ts, W, step) /\ content'[c] = Names[c]
               /\ c \in Consumed(ts) \/ ~finished[c]
        /\ finished'[c] <=> (c \notin Consumed(ts) /\ finished[c]) \/ c \in FinishedBy(ts, W, step)
    BY <2>1, ApplyBarrier
  <2> QED
    BY <1>2, <2>1, <2>2
<1> QED
  BY <1>1, <1>2 DEF Waiting

\* Without a task and without a write to it, it is as it was.
LEMMA IdleIsWaiting ==
    ASSUME ChannelsTyped, NEW W, Apply({}, W, FALSE), NEW c \in Channels, Kind[c] \in AfterFinish, W[c] = {}
    PROVE  content'[c] = content[c] /\ (finished'[c] <=> finished[c])
<1>1. c \notin Consumed({}) /\ ~IsLast({}, W, FALSE) /\ FALSE \in BOOLEAN
  BY DEF Consumed, UsedUp, IsLast
<1>2. CASE Kind[c] = "LastValueAfterFinish"
  BY <1>1, <1>2, ApplyDeferred
<1>3. CASE Kind[c] = "NamedBarrierValueAfterFinish"
  <2>1. Kind[c] \in Barriers
    BY <1>3 DEF Barriers
  <2>2. /\ content'[c] = Remains({}, c) \cup W[c]
        /\ finished'[c] <=> (c \notin Consumed({}) /\ finished[c]) \/ c \in FinishedBy({}, W, FALSE)
        /\ c \in FinishedBy({}, W, FALSE) => IsLast({}, W, FALSE)
    BY <1>1, <2>1, ApplyBarrier
  <2> QED
    BY <1>1, <2>2 DEF Remains
<1> QED
  BY <1>2, <1>3 DEF AfterFinish

LEMMA NodesDeferOnly ==
    ASSUME NodesDefer, NEW W, WritesOf(W, Inputs) \/ WritesOf(W, Gotos),
           NEW c \in Channels, Kind[c] \in AfterFinish
    PROVE  W[c] = {}
  BY DEF NodesDefer, WritesOf

LEMMA AdvanceForgetsNothing ==
    ASSUME NodesDefer, VersionInv, ChannelsTyped, OpenIsUnseen', NothingForgotten,
           NEW W, NEW step \in BOOLEAN, step = (Due # {}), Apply(Due, W, step),
           ~step => WritesOf(W, Inputs)
    PROVE  NothingForgotten'
<1> SUFFICES ASSUME NEW n \in Nodes, NEW c \in TriggersOf(n), Waiting(c)'
    PROVE  Due' # {}
  BY DEF NothingForgotten
<1>1. c \in Channels /\ Kind[c] \in AfterFinish
  BY TriggersTyped DEF TriggersAreChannels, Waiting, AfterFinish
<1>2. CASE finished'[c]
  <2>1. Channel'[c].value = content'[c] /\ Channel'[c].finished = finished'[c]
    BY <1>1 DEF Channel
  <2>2. IsAvailable(c, Channel'[c]) /\ Kind[c] \in Kept
    BY <1>1, <1>2, <2>1, Availability DEF Waiting, IsFull, Kept, Barriers
  <2>3. versions'[c] > seen'[n][c]
    BY <1>1, <2>2 DEF OpenIsUnseen
  <2> QED
    BY <2>2, <2>3, TriggeredIsDueNext DEF IsTriggered
<1>3. CASE ~finished'[c] /\ step
  <2>1. ~IsLast(Due, W, step)
    BY <1>1, <1>3, UnfinishedIsNotLast
  <2>2. PICK d \in UpdatedByWrites(Due, W) : TriggerToNodes(d) # {}
    BY <1>3, <2>1 DEF IsLast
  <2>3. PICK m \in Nodes : d \in TriggersOf(m)
    BY <2>2 DEF TriggerToNodes
  <2>4. d \in UpdatedAfter(Due, W, step)
    BY Zenon DEF UpdatedAfter
  <2>5. IsAvailable(d, Channel'[d]) /\ versions'[d] > seen'[m][d]
    BY <2>4, UpdatedIsUnseen
  <2> QED
    BY <2>3, <2>5, TriggeredIsDueNext DEF IsTriggered
<1>4. CASE ~step
  <2>1. Apply({}, W, FALSE) /\ Due = {}
    BY <1>4
  <2>2. W[c] = {}
    BY <1>1, <1>4, NodesDeferOnly
  <2>3. content'[c] = content[c]
    BY <1>1, <2>1, <2>2, IdleIsWaiting
  <2>4. Waiting(c)
    BY <2>3 DEF Waiting
  <2> QED
    BY <2>1, <2>4 DEF NothingForgotten
<1> QED
  BY <1>2, <1>3, <1>4

\* What is available stays so when a Command brings its writes.
LEMMA CommandKeepsAvailable ==
    ASSUME BarriersHaveNames, OnlyNamesArrive, NodesDefer, ChannelsTyped,
           NEW W, WritesOf(W, Gotos), Apply({}, W, FALSE),
           NEW c \in Channels, IsAvailable(c, Channel[c])
    PROVE  IsAvailable(c, Channel'[c])
<1>1. /\ Channel[c].value = content[c] /\ Channel[c].finished = finished[c]
      /\ Channel'[c].value = content'[c] /\ Channel'[c].finished = finished'[c]
      /\ FALSE \in BOOLEAN
  BY DEF Channel
<1>2. content[c] # {} /\ (Kind[c] \in Barriers => content[c] = Names[c])
  BY AvailableHasContent
<1>3. CASE Kind[c] \in Wiping
  <2>1. content'[c] = IF W[c] # {} THEN W[c] ELSE IF FALSE THEN {} ELSE content[c]
    BY ZenonT(30), <1>1, <1>3, ApplyWiping
  <2>2. content'[c] # {}
    BY <1>2, <2>1
  <2> QED
    BY <1>1, <1>3, <2>2, Availability
<1>4. CASE Kind[c] = "LastValue"
  <2>1. content'[c] # {}
    BY <1>1, <1>2, <1>4, ApplyLastValue
  <2> QED
    BY <1>1, <1>4, <2>1, Availability
<1>5. CASE Kind[c] = "LastValueAfterFinish" \/ Kind[c] = "NamedBarrierValueAfterFinish"
  <2>1. Kind[c] \in AfterFinish
    BY <1>5 DEF AfterFinish
  <2>2. W[c] = {}
    BY <2>1, NodesDeferOnly
  <2>3. content'[c] = content[c] /\ (finished'[c] <=> finished[c])
    BY <2>1, <2>2, IdleIsWaiting
  <2> QED
    BY <1>1, <1>5, <2>3, Availability DEF IsFull
<1>6. CASE Kind[c] = "NamedBarrierValue"
  <2>1. Kind[c] \in Barriers /\ c \notin Consumed({})
    BY <1>6 DEF Barriers, Consumed, UsedUp
  <2>2. W[c] \subseteq Names[c]
    BY <2>1, WritersInclude DEF WritesOf, OnlyNamesArrive
  <2>3. content'[c] = content[c] \cup W[c]
    BY <1>1, <2>1, ApplyBarrier DEF Remains
  <2>4. content'[c] = Names[c]
    BY <1>2, <2>1, <2>2, <2>3
  <2> QED
    BY <1>1, <1>6, <2>4, Availability DEF IsFull
<1> QED
  BY <1>3, <1>4, <1>5, <1>6, KindIsKnown

\* So what was due is due still.
LEMMA CommandKeepsDue ==
    ASSUME BarriersHaveNames, OnlyNamesArrive, CommandsSendNothing, NodesDefer,
           VersionInv, ChannelsTyped, NEW W, WritesOf(W, Gotos), Apply({}, W, FALSE), Due # {}
    PROVE  Due' # {}
<1> PICK t \in Due : TRUE
  OBVIOUS
<1>1. CASE t.trigger = None
  <2>1. t.send \in Sends(Channel) /\ t.send.node \in Nodes
    BY <1>1, DueFields, PushTaskFields
  <2>2. PICK c \in Channels : Kind[c] = "Topic" /\ t.send \in content[c]
    BY <2>1, SendsInChannels
  <2>3. W[c] = {}
    BY <2>2 DEF WritesOf, CommandsSendNothing
  <2>4. Kind[c] \in Wiping /\ FALSE \in BOOLEAN
    BY <2>2 DEF Wiping
  <2>5. content'[c] = content[c]
    BY <2>3, <2>4, ApplyWiping
  <2>6. t.send \in Sends(Channel)'
    BY <2>2, <2>5, SendsInChannels
  <2>7. Sends(Channel)' = Sends(Channel')
    BY DEF Sends
  <2>8. PushTasks(Channel') # {}
    BY <2>1, <2>6, <2>7, PushTaskFields
  <2>9. PushTasks(Channel') \subseteq Prepare(None, Channel', versions', seen')
    BY PreparedFit
  <2> QED
    BY <2>8, <2>9 DEF Due
<1>2. CASE t.trigger # None
  <2> DEFINE n == t.name
             c == t.trigger
  <2>1. n \in Nodes /\ c \in TriggersOf(n) /\ c \in Channels /\ IsTriggered(n, c, Channel, versions, seen)
    BY <1>2, DueFields
  <2> HIDE DEF n, c
  <2>2. IsAvailable(c, Channel[c]) /\ versions[c] > seen[n][c]
    BY <2>1 DEF IsTriggered
  <2>3. IsAvailable(c, Channel'[c])
    BY <2>1, <2>2, CommandKeepsAvailable
  <2>4. seen'[n][c] = seen[n][c]
    <3>1. seen' = SeenAfter({})
      BY Zenon DEF Apply
    <3> QED
      BY <2>1, <3>1 DEF SeenAfter
  <2>5. versions'[c] > seen'[n][c]
    <3>1. ChangeIsUnseen
      BY Zenon, ApplyKeepsVersions
    <3> QED
      BY <2>1, <2>2, <2>4, <3>1 DEF ChangeIsUnseen
  <2> QED
    BY <2>1, <2>3, <2>5, TriggeredIsDueNext DEF IsTriggered
<1> QED
  BY <1>1, <1>2

LEMMA DeferInvIsInductive ==
    ASSUME BarriersHaveNames, OneWayIn, OnlyNamesArrive, CommandsSendNothing, NodesDefer,
           DeferInv, [Next]_vars
    PROVE  DeferInv'
<1>1. JoinInv'
  BY JoinInvIsInductive DEF DeferInv
<1>2. VersionInv /\ ChannelsTyped /\ NothingForgotten /\ OpenIsUnseen'
  BY <1>1 DEF DeferInv, JoinInv, ExactInv
<1>3. ASSUME NEW W, NEW step \in BOOLEAN, step = (Due # {}), Advance(Due, W, step),
             ~step => WritesOf(W, Inputs)
      PROVE  NothingForgotten'
  BY <1>2, <1>3, AdvanceForgetsNothing DEF Advance
<1>4. ASSUME NEW W, WritesOf(W, Gotos), Apply({}, W, FALSE)
      PROVE  NothingForgotten'
  <2> SUFFICES ASSUME NEW n \in Nodes, NEW c \in TriggersOf(n), Waiting(c)'
      PROVE  Due' # {}
    BY DEF NothingForgotten
  <2>1. c \in Channels /\ Kind[c] \in AfterFinish
    BY TriggersTyped DEF TriggersAreChannels, Waiting, AfterFinish
  <2>2. W[c] = {}
    BY <1>4, <2>1, NodesDeferOnly
  <2>3. content'[c] = content[c]
    BY <1>2, <1>4, <2>1, <2>2, IdleIsWaiting
  <2>4. Due # {}
    BY <1>2, <2>3 DEF Waiting, NothingForgotten
  <2> QED
    BY <1>2, <1>4, <2>4, CommandKeepsDue
<1>5. ASSUME Rest
      PROVE  NothingForgotten'
  BY <1>2, <1>5 DEF Rest, checkpointVars, NothingForgotten, Waiting, Due, Channel
<1> QED
  BY <1>1, <1>3, <1>4, <1>5, ExactSteps DEF DeferInv, JoinInv

LEMMA DeferInvSuffices == DeferInv => DeferredRuns
<1> SUFFICES ASSUME DeferInv, status = "running", tasks = {}, NEW n \in Nodes, NEW c \in TriggersOf(n)
    PROVE  /\ Kind[c] = "LastValueAfterFinish" => since[n][c] = {}
           /\ Kind[c] = "NamedBarrierValueAfterFinish" => ~(Names[c] \subseteq since[n][c])
  BY DEF DeferredRuns
<1>1. Due = {}
  BY DEF DeferInv, JoinInv, ExactInv, CandidatesAreExact, Due
<1>2. ~Waiting(c)
  BY <1>1 DEF DeferInv, NothingForgotten
<1>3. c \in Channels
  BY TriggersTyped DEF TriggersAreChannels
<1>4. Kind[c] = "LastValueAfterFinish" => since[n][c] = {}
  BY <1>2 DEF Waiting, DeferInv, JoinInv, ArrivalsAreKept
<1>5. ASSUME Kind[c] = "NamedBarrierValueAfterFinish", Names[c] \subseteq since[n][c]
      PROVE  FALSE
  <2>1. Kind[c] \in Barriers
    BY <1>5 DEF Barriers
  <2>2. since[n][c] = content[c]
    BY <2>1 DEF DeferInv, JoinInv, ArrivalsAreKept
  <2>3. content[c] \subseteq Names[c]
    BY <1>3, <2>1 DEF DeferInv, JoinInv, OnlyNames
  <2>4. content[c] = Names[c]
    BY <1>5, <2>2, <2>3
  <2> QED
    BY <1>2, <1>5, <2>4 DEF Waiting
<1> QED
  BY <1>4, <1>5

\* When nothing is left to run, no deferred node has been forgotten
\* (DeferredRuns), in any graph in which only nodes navigate to deferred nodes.
THEOREM NoDeferredIsForgotten ==
    ASSUME BarriersHaveNames, OneWayIn, OnlyNamesArrive, CommandsSendNothing, NodesDefer
    PROVE  Spec => []DeferredRuns
<1>1. Init => DeferInv
  <2>1. Init => NothingForgotten
    BY TriggersTyped DEF Init, NothingForgotten, Waiting, TriggersAreChannels, BarriersHaveNames, Barriers
  <2> QED
    BY <2>1, InitIsJoin DEF DeferInv
<1>2. DeferInv /\ [Next]_vars => DeferInv'
  BY DeferInvIsInductive
<1> QED
  BY <1>1, <1>2, DeferInvSuffices, PTL DEF Spec

-----------------------------------------------------------------------------
(* Types.                                                                     *)

UpdatedTyped == updated = None \/ updated \subseteq Channels
Counters ==
    /\ status \in {"stopped", "running", "failed"}
    /\ steps \in 0..MaxSteps /\ stops \in 0..MaxStops

LEMMA CountersStay ==
    ASSUME Counters, UpdatedTyped, [Next]_vars
    PROVE  Counters' /\ UpdatedTyped'
<1>1. MaxSteps \in Nat /\ MaxStops \in Nat
  BY GraphAssumption
<1>2. UpdatedTyped'
  <2>1. \/ updated' = None \/ updated' = updated
        \/ \E ts, W, step : updated' = UpdatedAfter(ts, W, step)
    BY DEF Next, Invoke, Command, Superstep, Resume, Done, Stop, vars
  <2> QED
    BY <2>1, UpdatedAreChannels, Zenon DEF UpdatedTyped
<1>3. /\ status' = "stopped" \/ status' = "running" \/ status' = "failed" \/ status' = status
      /\ steps' = steps \/ (steps < MaxSteps /\ steps' = steps + 1)
      /\ stops' = stops \/ (stops < MaxStops /\ stops' = stops + 1)
  <2>1. ASSUME Superstep
        PROVE  /\ steps < MaxSteps /\ steps' = steps + 1 /\ stops' = stops
               /\ status' = "failed" \/ status' = status
    BY <2>1 DEF Superstep
  <2>2. ASSUME NEW input \in Inputs, Invoke(input)
        PROVE  steps < MaxSteps /\ steps' = steps + 1 /\ stops' = stops /\ status' = "running"
    BY <2>2 DEF Invoke
  <2>3. ASSUME NEW writes \in Gotos, Command(writes)
        PROVE  steps < MaxSteps /\ steps' = steps + 1 /\ stops' = stops /\ status' = "running"
    BY <2>3 DEF Command
  <2>4. ASSUME Resume \/ Done \/ Stop \/ UNCHANGED vars
        PROVE  /\ steps' = steps
               /\ status' = "stopped" \/ status' = "running" \/ status' = status
               /\ stops' = stops \/ (stops < MaxStops /\ stops' = stops + 1)
    <3>1. CASE Resume
      BY <3>1 DEF Resume
    <3>2. CASE Done
      BY <3>2 DEF Done
    <3>3. CASE Stop
      BY <3>3 DEF Stop
    <3>4. CASE UNCHANGED vars
      BY <3>4 DEF vars
    <3> QED
      BY <2>4, <3>1, <3>2, <3>3, <3>4
  <2> QED
    BY <2>1, <2>2, <2>3, <2>4 DEF Next
<1> QED
  BY <1>1, <1>2, <1>3 DEF Counters

\* Every variable has its type, in any graph.
THEOREM TypeCorrect == Spec => []TypeOK
<1> DEFINE Inv == FreshInv /\ Counters /\ UpdatedTyped
<1>1. Init => Inv
  <2> SUFFICES ASSUME Init
      PROVE  Counters /\ UpdatedTyped /\ FreshInv
    OBVIOUS
  <2>1. MaxSteps \in Nat /\ MaxStops \in Nat
    BY GraphAssumption
  <2>2. status = "stopped" /\ steps = 0 /\ stops = 0 /\ updated = None
    BY DEF Init
  <2> QED
    BY <2>1, <2>2, InitIsFresh DEF Counters, UpdatedTyped
<1>2. Inv /\ [Next]_vars => Inv'
  BY FreshInvIsInductive, CountersStay
<1>3. Inv => TypeOK
  <2> SUFFICES ASSUME FreshInv, Counters, UpdatedTyped
      PROVE  TypeOK
    OBVIOUS
  <2>1. \A t \in tasks : t.name \in Nodes /\ t.trigger \in Channels \cup {None}
    BY DueFields DEF FreshInv, TasksFit
  <2>2. updated \in (SUBSET Channels) \cup {None}
    BY Zenon DEF UpdatedTyped
  <2> QED
    BY <2>1, <2>2 DEF TypeOK, Counters, FreshInv, VersionInv, VersionsTyped, ChannelsTyped
<1> QED
  BY <1>1, <1>2, <1>3, PTL DEF Spec
=============================================================================
