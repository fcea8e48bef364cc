\* Loops in turn, after crashes of earlier ones.
CONSTANTS
    Loop = {l1, l2}
    Source = {s1}
    Of <- Sources
    Size <- Sizes
    Limit <- Limits
    BatchSize = 2
    l1 = l1
    l2 = l2
    l3 = l3
    s1 = s1
    s2 = s2

SPECIFICATION SoloSpec
INVARIANTS
    LoopSeesWholeDataset
CHECK_DEADLOCK FALSE
