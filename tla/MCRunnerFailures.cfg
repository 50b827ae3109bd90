SPECIFICATION Spec
CONSTANTS
  t1 = t1
  t2 = t2
  t3 = t3
  c1 = c1
  h1 = h1
  None = None
  Tasks = {t1, t2, t3}
  Calls = {}
  Handlers = {h1}
  Caller <- NoCaller
  HandlerOf <- HandlerOfT1
  MaxConcurrency = 2
  MaxAttempts <- TwoAttemptsOfT1
  MayEndIn <- AnyhowButT3
  IsNested = TRUE
INVARIANTS
  FailuresSurface
  HandlersFollowFailures
  ConcurrencyBound
  ReturnedMeansCommitted
  OneAttemptCommitted
  AbortsAreNotBlamed
