SPECIFICATION FairSpec
CONSTANTS
    Threads = {t1, t2, t3}
    Keys = {"cpp", "python"}
    Values = {1, 2}
    NoValue = NoValue
    Nobody = Nobody
    MaxCalls = 2
    MaxSpurious = 1
    InitPool <- MCTwoInList
PROPERTIES FirstInFirstOut
