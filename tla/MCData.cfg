SPECIFICATION Spec
SYMMETRY MCSymmetry
CONSTANTS
    HeapSize = 128
    Buckets = {b1, b2, b3}
    Requests = {0, 9, 24}
    IntMax = 1023
    NULL = NULL
    SimpleIters = 12
    FixedIters = 18
    RandomIters = 8
    FixedSize = 16
    RandomBuckets = 2
    IntElements = {i1}
    StrElements = {s1, s2}
    Nodes = {n1, n2, n3}
    Values = {0, 1}
    MaxRefs = 1
    MaxNodes = 3
    None = None
    Tcbs = {t1, t2, t3, t4}
    Queues = {q1, q2}
    NoTcb = NoTcb
    INITIAL_SIZE = 1
    GROWTH_FACTOR = 2
    Garbage = Garbage
    Names = {a1, a2}
    Items = {0, 1}
    Arrays <- MCArrays
    MaxLen = 3
    NoResult = NoResult
    Capacity = 6
    WordsToStore <- MCWords
    Lengths = {1, 2}
    Numbers = {0, 1, 3}
    MaxArguments = 4
    Arguments = {1, 2, 3, 4}
    Numerals = {1, 2}
    MaxElements = 3
    SwitchArgs = {18, 19, 20, 21, 22, 23, 24}
    Q2Cases = {9, 10, 11, 12, 13, 14, 15, 16, 17, 18, 19}
    Q2Args = {0, 3, 5}
INVARIANTS
    ManagersSound LinksSound MachinesAgree AllProgramsRight
PROPERTY ImplementsSequences
CHECK_DEADLOCK FALSE
