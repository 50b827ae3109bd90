SPECIFICATION Spec
CONSTANTS
    Tasks = {1, 2}
    Silent = {}
    Durabilities = {"async", "exit"}
    SnapshotFrequency = 5
    MaxSupersteps = 9
    MaxFaults = 0
    Disorder = {"abandon"}
    MaxRuns = 3
    MaxCheckpoints = 6
INVARIANT ReconstructionMatchesLive
CHECK_DEADLOCK FALSE
