\* Two attempts at a workflow over four rows, one of which is invalid, with two faults.
CONSTANTS
    Rows = 4
    Invalid = {2}
    BatchSize = 2
    MaxConcurrency = 2
    Plans <- SomePlans
    Pinned = TRUE
    MaxAttempts = 2
    MaxFaults = 2
    NULL = NULL

SPECIFICATION Spec
INVARIANTS
    YieldsInOrder
    BoundedConcurrency
    ResultsAreDurable
    CompletedRunIsWhole
    ErrorsHaveCauses
PROPERTIES
    CompletedWorkIsKept
    EveryAttemptEnds
CHECK_DEADLOCK FALSE
