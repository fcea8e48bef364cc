\* The workflow leaves configuration and split to the server to resolve.
CONSTANTS
    Rows = 2
    Invalid = {}
    BatchSize = 2
    MaxConcurrency = 1
    Plans <- SomePlans
    Pinned = FALSE
    MaxAttempts = 2
    MaxFaults = 1
    NULL = NULL

SPECIFICATION Spec
INVARIANTS
    ErrorsHaveCauses
CHECK_DEADLOCK FALSE
