SPECIFICATION Spec
CONSTANTS
    r1 = r1
    r2 = r2
    Readers = {r1, r2}
    MaxMessages = 2
INVARIANTS
    Replayable
CHECK_DEADLOCK FALSE
