----------------------------- MODULE MCRunQueue -----------------------------
(* Constants of the runs of RunQueue.                                        *)
EXTENDS RunQueue

CONSTANTS w1, w2, a, b
=============================================================================
