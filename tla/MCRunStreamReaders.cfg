SPECIFICATION Spec
CONSTANTS
    r1 = r1
    r2 = r2
    Readers = {r1, r2}
    MaxMessages = 3
INVARIANTS
    NoGaps
    SharedOnce
    EndsComplete
PROPERTIES
    ReadersEnd
CHECK_DEADLOCK FALSE
