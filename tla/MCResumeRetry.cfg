SPECIFICATION Spec
CONSTANTS
  t1 = t1
  t2 = t2
  t3 = t3
  Tasks = {t1}
  Questions <- TwoOneNone
  Silent = {}
  MayFail = {t1}
  EdgeMayFail = {}
  MaxAttempts <- TwoAttempts
  Commands = {"value"}
  MaxRuns = 4
INVARIANTS
  AnswersAreStable
CHECK_DEADLOCK FALSE
