SPECIFICATION Spec
CONSTANTS
    p1 = p1
    p2 = p2
    main = main
    base1 = base1
    base2 = base2
    a = a
    b = b
    Pthreads <- MCPthreads2
    MainPthread = p1
    Threads <- MCThreads2
    Main = main
    Base <- MCBase2
    None = None
    Detached = Detached
    MaxClaims = 1
    LateCheck = FALSE
SYMMETRY MCSymmetry
INVARIANTS
    TypeOK Placement ExclusiveExecution UnblockKept NoUseAfterFree JoinMeetsExit NoIdleOverWork
PROPERTIES ImplementsSched ImplementsLife
CHECK_DEADLOCK FALSE
