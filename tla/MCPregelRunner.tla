--------------------------- MODULE MCPregelRunner ---------------------------
(***************************************************************************)
(* Small supersteps for TLC: two or three tasks, one task called by t2 and *)
(* one error handler of t1.                                                *)
(***************************************************************************)
EXTENDS PregelRunner
CONSTANTS t1, t2, t3, c1, h1

NoCaller == [c \in {} |-> c]
CallerOfC1 == [c \in {c1} |-> t2]
HandlerOfT1 == [h \in {h1} |-> t1]

OneAttempt == [t \in AllTasks |-> 1]
TwoAttemptsOfT1 == [t \in AllTasks |-> IF t = t1 THEN 2 ELSE 1]

\* What the nodes may do: anything, fail or succeed, or bubble up with only the
\* called task failing.
Anyhow == [t \in AllTasks |-> Outcomes]
AnyhowButT3 == [Anyhow EXCEPT ![t3] = {"ok", "error"}]
BubbleOrNot ==
    [t \in AllTasks |-> CASE t = c1 -> {"ok", "error", "interrupt", "parentCommand"}
                          [] t = t1 -> {"ok", "drained", "parentCommand"}
                          [] t = t2 -> {"ok", "interrupt"}]
=============================================================================
