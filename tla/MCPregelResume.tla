--------------------------- MODULE MCPregelResume ---------------------------
(***************************************************************************)
(* Two or three tasks, the first with two questions, for TLC.              *)
(***************************************************************************)
EXTENDS PregelResume
CONSTANTS t1, t2, t3

TwoOneNone == [t \in Tasks |-> IF t = t1 THEN 2 ELSE IF t = t2 THEN 1 ELSE 0]
TwoAttempts == [t \in Tasks |-> 2]
TwoAttemptsOfT3 == [t \in Tasks |-> IF t = t3 THEN 2 ELSE 1]
=============================================================================
