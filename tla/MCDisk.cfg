SPECIFICATION FairSpec
CONSTANTS
    Buffers = {t1, t2, t3}
    NumBlocks = 5
    None = None
    MaxNest = 3
    Prompt = TRUE
    Second = 5
    Latency = 3
    MaxSecond = 5
INVARIANTS
    DiskTypeOK SectionsAreMasked DueInTime SumsAreOfReads
PROPERTY ReadsEnd
CHECK_DEADLOCK FALSE
