SPECIFICATION Spec
CONSTANTS
    Ids = {0, 1, 2, 3, 4, 5, 6}
    NoId = NoId
    NoImage = NoImage
    Foreign = {0}
    ForeignImage = "postgres"
    Leftover = {}
    LeftoverImage = "senjun_cpp"
    MaxFaults = 0
    MaxExits = 1
    MaxCrashes = 0
    Boot = Boot
    Requests = {1, 2, 3}
    NoSources = {}
    threadPoolSize = 2
    maxContainersAmount = 1
    Images <- MCImages
    SenjunImages <- MCSenjun
    Languages <- MCLanguages
    LanguageOf <- MCLanguageOf
    courses <- MCOneEach
    playgrounds <- MCNone
    practices <- MCNone
INVARIANTS WithinMaxContainersAmount
