SPECIFICATION EventLoopSpec
CONSTANTS
  t1 = t1
  t2 = t2
  t3 = t3
  c1 = c1
  h1 = h1
  None = None
  Tasks = {t1, t2}
  Calls = {c1}
  Handlers = {}
  Caller <- CallerOfC1
  HandlerOf <- NoCaller
  MaxConcurrency = 2
  MaxAttempts <- OneAttempt
  MayEndIn <- BubbleOrNot
  IsNested = FALSE
INVARIANTS
  NothingLeftBehind
PROPERTIES
  AbortEndsTick
  FailureCancels
  TickEnds
