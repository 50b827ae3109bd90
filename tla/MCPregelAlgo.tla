---------------------------- MODULE MCPregelAlgo ----------------------------
(***************************************************************************)
(* A small graph for TLC: s has edges to a and b, or makes Sends to them;  *)
(* a and b are joined at j, which may branch back to s, and at the         *)
(* deferred e; b may branch to the deferred d; w is triggered by the       *)
(* LastValue data, and nothing by note or by toJ, a branch nobody takes.   *)
(***************************************************************************)
EXTENDS PregelAlgo
CONSTANTS s, a, b, d, e, j, w, toS, toA, toB, toD, toJ, join, late, data, note, topic

To(c, n) == [chan |-> c, value |-> n]
SendTo(n, x) == [chan |-> topic, value |-> [node |-> n, arg |-> x]]
MCChannels == {toS, toA, toB, toD, toJ, join, late, data, note, topic}
MCNames == [c \in MCChannels |-> IF c \in {join, late} THEN {a, b} ELSE {}]
MCKind ==
    [c \in MCChannels |-> CASE c = join -> "NamedBarrierValue" [] c \in {data, note} -> "LastValue"
                            [] c = late -> "NamedBarrierValueAfterFinish"
                            [] c = toD -> "LastValueAfterFinish"
                            [] c = topic -> "Topic" [] OTHER -> "EphemeralValue"]

MCNodes == {s, a, b, d, e, j, w}
MCTriggers ==
    [n \in MCNodes |-> CASE n = s -> <<toS>> [] n = a -> <<toA>> [] n = b -> <<toB>> [] n = d -> <<toD>>
                         [] n = e -> <<late>> [] n = j -> <<toJ, join>> [] n = w -> <<data>>]

MCOptions ==
    [n \in MCNodes |->
       CASE n = s -> {{To(toA, s), To(toB, s)}, {SendTo(a, 1), SendTo(a, 2)}, {SendTo(a, 1), To(toB, s)}}
         [] n = a -> {{To(join, a), To(late, a)}, {To(join, a), To(data, a)}, {To(join, a), To(toB, a)}}
         [] n = b -> {{To(join, b), To(late, b), To(note, b)}, {To(toD, b), To(data, b)}}
         [] n = d -> {{}, {To(toB, d)}}
         [] n = e -> {{}}
         [] n = j -> {{}, {To(toS, j)}}
         [] n = w -> {{}, {SendTo(b, 1)}}]

MCInputs == {{To(toS, s)}}
MCGotos == {{To(toA, s)}, {To(data, s)}}

\* It is a graph that the theorems are about.
ASSUME GraphFits ==
    /\ BarriersHaveNames /\ OnlyNamesArrive /\ OneWayIn
    /\ CommandsSendNothing /\ NodesDefer
=============================================================================
