\* Two processes in one workspace, and at times on one run, with `qt serve' up or with servers of their own.
CONSTANTS
    Proc = {p1, p2}
    Workspace = {w1}
    Home <- OneHome
    Metric = {m1, m2}
    MaxRun = 2
    ServeHome = w1
    w1 = w1

SPECIFICATION FairSpec
INVARIANTS
    RunsAreNotForgotten
    ServedMetricsAreKept
PROPERTIES
    ReportedStatusIsRecorded
    EveryProcessEnds
CHECK_DEADLOCK FALSE
