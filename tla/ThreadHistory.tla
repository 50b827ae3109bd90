--------------------------- MODULE ThreadHistory ---------------------------
(* What a checkpointed thread promises to those who run it, whatever the      *)
(* durability mode and whatever is lost in a crash: the state that a later    *)
(* run finds is one that some run has really reached, it grows by the writes  *)
(* of whole supersteps on top of the state the run was started from, and no   *)
(* write is in it twice.  PregelCheckpoint is shown to implement it.          *)
EXTENDS Sequences, SequencesExt, Functions

VARIABLES
    value,   \* the thread's state: the writes it is made of, in order
    past,    \* every state the thread has had
    base     \* the state that the run going on has got to

vars == <<value, past, base>>

\* v is u and some further writes, none of them in v twice.
Extends(v, u) == IsPrefix(u, v) /\ IsInjective(v)

Init == /\ value = <<>>
        /\ past = {<<>>}
        /\ base = <<>>

\* A run starts at the thread's state, or at an earlier one that was asked for.
Begin == /\ base' \in past
         /\ UNCHANGED <<value, past>>

\* The run's supersteps become part of the thread: one of them, or all at once.
Commit == /\ base' = value'
          /\ Extends(base', base)
          /\ past' = past \cup {base'}

Next == Begin \/ Commit

Spec == Init /\ [][Next]_vars
=============================================================================
