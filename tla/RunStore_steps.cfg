\* One run, two steps under two keys, two clients that race on them.
CONSTANTS
    Run = {r1}
    Step = {s1, s2}
    Name = {n1}
    Key = {k1, k2}
    Hash = {h1, h2}
    Value = {v1}
    ErrorText = {e1}
    Provenance = {p1}
    Client = {c1, c2}
    NULL = NULL
    MaxEvents = 5

SPECIFICATION Spec
SYMMETRY ClientsAndSteps
INVARIANTS
    TypeOK
    OneStepPerKey
    RowsCoherent
    JournalExplainsRuns
    JournalExplainsSteps
    RetryOnlyAfterFailure
PROPERTIES
    EveryStepChangeIsLogged
CHECK_DEADLOCK FALSE
