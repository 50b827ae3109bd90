---------------------------- MODULE MCRunStream ----------------------------
(* Constants of the runs of RunStream.                                       *)
EXTENDS RunStream

CONSTANTS r1, r2
=============================================================================
