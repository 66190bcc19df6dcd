INIT MCInit
NEXT Next
CONSTANTS
    Absent = Absent
    Text = Text
    Broken = Broken
    CpuCounts = {0, 2}
    SizeBits = 4
    IntBits = 3
    Languages <- MCLanguages
    Files <- MCFiles
INVARIANTS TypeOK ServesOneFile FirstEntryCounts PoolHasThreads
