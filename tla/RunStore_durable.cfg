\* Two runs whose steps share a key, one client: what crosses from run to run, and what
\* an executor of one of them relies on.
CONSTANTS
    Run = {r1, r2}
    Step = {s1, s2}
    Name = {n1}
    Key = {k1}
    Hash = {h1}
    Value = {v1}
    ErrorText = {e1}
    Provenance = {}
    Client = {c1}
    NULL = NULL
    MaxEvents = 4
    Observed = r1

SPECIFICATION Spec
SYMMETRY StepPermutations
INVARIANTS
    JournalIsLocal
PROPERTIES
    ImplementsDurableSteps
CHECK_DEADLOCK FALSE
