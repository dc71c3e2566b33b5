SPECIFICATION FairSpec
CONSTANTS
    p1 = p1
    p2 = p2
    main = main
    base1 = base1
    base2 = base2
    a = a
    b = b
    Pthreads <- MCPthreads2
    MainPthread = p1
    Threads <- MCThreads2
    Main = main
    Base <- MCBase2
    None = None
    Detached = Detached
    MaxClaims = 0
    LateCheck = FALSE
INVARIANT NoThreadLost
PROPERTIES ReadyEventuallyRuns ImplementsFairSched
CHECK_DEADLOCK FALSE
