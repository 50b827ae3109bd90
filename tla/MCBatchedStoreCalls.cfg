SPECIFICATION Spec
CONSTANTS
    c1 = c1
    c2 = c2
    c3 = c3
    one = one
    two = two
    Clients = {c1, c2, c3}
    Runs = {one, two}
    RunOf <- MCRunOf
    MaxCalls = 4
INVARIANTS
    AnswersAreCurrent
PROPERTIES
    EveryCallReturns
CHECK_DEADLOCK FALSE
