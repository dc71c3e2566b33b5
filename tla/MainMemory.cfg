SPECIFICATION MemorySpec
CONSTANTS
    Capacity = 6
    WordsToStore = {0, 200, 305419896}
INVARIANT WordsAreKept
