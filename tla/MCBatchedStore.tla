--------------------------- MODULE MCBatchedStore ---------------------------
(* Constants of the runs of BatchedStore.                                    *)
EXTENDS BatchedStore

CONSTANTS c1, c2, c3, one, two

MCRunOf == [c \in {c1, c2, c3} |-> IF c = c3 THEN two ELSE one]
=============================================================================
