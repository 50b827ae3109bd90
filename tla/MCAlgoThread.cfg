SPECIFICATION Spec
CONSTANTS
    s = s
    a = a
    b = b
    d = d
    e = e
    j = j
    w = w
    toS = toS
    toA = toA
    toB = toB
    toD = toD
    toJ = toJ
    join = join
    late = late
    data = data
    note = note
    topic = topic
    None = None
    Channels <- MCChannels
    Kind <- MCKind
    Names <- MCNames
    Nodes <- MCNodes
    Triggers <- MCTriggers
    Options <- MCOptions
    Inputs <- MCInputs
    Gotos <- MCGotos
    MaxSteps = 7
    MaxStops = 1
INVARIANTS SendsRunOnce TriggersAreFresh JoinsFire DeferredRuns CandidatesAreExact
PROPERTIES ChangesAreUnseen
CHECK_DEADLOCK FALSE
