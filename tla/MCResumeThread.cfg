SPECIFICATION Spec
CONSTANTS
  t1 = t1
  t2 = t2
  t3 = t3
  Tasks = {t1, t2, t3}
  Questions <- TwoOneNone
  Silent = {t3}
  MayFail = {t1, t3}
  EdgeMayFail = {}
  MaxAttempts <- TwoAttemptsOfT3
  Commands = {"value", "ids", "null"}
  MaxRuns = 4
INVARIANTS
  IndexMatchesList
  AnswersFit
  AnswersAreStable
  DoneStaysDone
  OnlyDoneIsSkipped
CHECK_DEADLOCK FALSE
