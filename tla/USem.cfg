SPECIFICATION FairSpec
CONSTANTS
    Threads = {t1, t2, t3, t4}
    InitialValue = 1
    MaxSignals = 4
INVARIANTS
    TypeOK StoppedIsQueued NoLostWakeup PermitsConserved
PROPERTY PermitEventuallyTaken
CHECK_DEADLOCK FALSE
