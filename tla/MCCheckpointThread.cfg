SPECIFICATION Spec
CONSTANTS
    Tasks = {1, 2}
    Silent = {}
    Durabilities = {"sync", "async", "exit"}
    SnapshotFrequency = 2
    MaxSupersteps = 4
    MaxFaults = 1
    Disorder = {}
    MaxRuns = 3
    MaxCheckpoints = 5
INVARIANTS
    TypeOK
    ReconstructionMatchesLive
    ReturnedIsDurable
    SyncWaits
PROPERTY ThreadSpec
CHECK_DEADLOCK FALSE
