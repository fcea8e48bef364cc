\* Three attempts in turn, after failures and crashes of the earlier ones.
CONSTANTS
    Proc = {p1, p2, p3}
    Hash = {h1}
    Key = {1, 2, 3}
    Value = {p1, p2, p3}
    Limit = 3
    Available = 3
    BatchSize = 2
    MaxWorkers = 2
    NULL = NULL

SPECIFICATION SoloSpec
SYMMETRY Attempts
INVARIANTS
    AggregatesAreHonest
PROPERTIES
    CompletedOutputIsFinal
CHECK_DEADLOCK FALSE
