\* A failed attempt, then one that completes: no crash is needed.
CONSTANTS
    Proc = {p1, p2}
    Hash = {h1}
    Key = {1, 2}
    Value = {p1, p2}
    Limit = 2
    Available = 2
    BatchSize = 2
    MaxWorkers = 1
    NULL = NULL

SPECIFICATION SoloSpec
INVARIANTS
    CompletedRunHasItsMetrics
CHECK_DEADLOCK FALSE
