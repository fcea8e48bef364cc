\* Two attempts that may overlap, with configurations that may differ, at a dataset
\* that is shorter than announced.
CONSTANTS
    Proc = {p1, p2}
    Hash = {h1, h2}
    Key = {1, 2, 3}
    Value = {p1, p2}
    Limit = 3
    Available = 2
    BatchSize = 3
    MaxWorkers = 2
    NULL = NULL

SPECIFICATION FairSpec
INVARIANTS
    CompletedRunIsWhole
    CompletedRunIsUniform
    MetricsOfCompletedRowsOnly
PROPERTIES
    EveryAttemptEnds
    RunSettles
CHECK_DEADLOCK FALSE
