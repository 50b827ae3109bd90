------------------------ MODULE MCPregelCheckpoint ------------------------
(* Constants of the runs of PregelCheckpoint.                                *)
EXTENDS PregelCheckpoint
=============================================================================
