SPECIFICATION Spec
CONSTANTS
    MaxSubmissions = 3
    MaxFailures = 1
    NoSubmission = NoSubmission
INVARIANTS OneInFlight Announced
PROPERTIES QueueWaits SubmitsSettle QueueDrains
CHECK_DEADLOCK FALSE
