\* Three loops at two sources: two of them share one, with different limits.
CONSTANTS
    Loop = {l1, l2, l3}
    Source = {s1, s2}
    Of <- Sources
    Size <- Sizes
    Limit <- Limits
    BatchSize = 2
    l1 = l1
    l2 = l2
    l3 = l3
    s1 = s1
    s2 = s2

SPECIFICATION FairSpec
INVARIANTS
    LoopSeesPrefix
    ReadableFilesAreTrue
PROPERTIES
    LoopsEnd
CHECK_DEADLOCK FALSE
