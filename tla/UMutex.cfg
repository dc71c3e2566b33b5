SPECIFICATION FairSpec
CONSTANTS
    Threads = {t1, t2, t3, t4, t5}
    Conds = {c1, c2}
    None = None
INVARIANTS
    TypeOK FieldsAgree StoppedIsQueued NoStrandedWaiter
PROPERTIES FreeMutexTaken ImplementsMonitor
CHECK_DEADLOCK FALSE
