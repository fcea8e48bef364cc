\* Two commands around one run, and one change of the registry, the configuration or
\* the prompt file between any two of their steps.
CONSTANTS
    Proc = {p1, p2}
    Version = {1, 2}
    Responses <- SomeResponses
    Sections <- SomeSections
    Contents = {3, 4}
    Inputs <- Overriding
    Plaintext = FALSE
    Size = 2
    MaxRuns = 1
    MaxChanges = 1
    MaxResourceCount = 2
    MaxResourceBytes = 1
    MaxBundleBytes = 2
    SizeOf <- MCSizeOf
    DefinitionOf <- MCDefinitionOf
    NULL = NULL

SPECIFICATION Spec
SYMMETRY Commands
INVARIANTS
    RunsKeepTheirBenchmark
    PromptsAreAuthentic
    AddedSectionsHaveTheirPrompt
CHECK_DEADLOCK FALSE
