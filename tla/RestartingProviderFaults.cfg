SPECIFICATION Spec
CONSTANTS
    Ids = {0, 1, 2, 3, 4, 5, 6, 7}
    NoId = NoId
    NoImage = NoImage
    Foreign = {0}
    ForeignImage = "postgres"
    Leftover = {7}
    LeftoverImage = "senjun_python"
    MaxFaults = 1
    MaxExits = 1
    MaxCrashes = 1
    Boot = Boot
    Requests = {1, 2}
    NoSources = {}
    threadPoolSize = 2
    maxContainersAmount = 2
    Images <- MCImages
    SenjunImages <- MCSenjun
    Languages <- MCLanguages
    LanguageOf <- MCLanguageOf
    courses <- MCOneCpp
    playgrounds <- MCOnePlayground
    practices <- MCNone
INVARIANTS TypeOK ExclusiveUse CleanContainers LaunchersMatchConfig
    ShrinksOnlyByFaults NoLeak NeverMoreThanConfigured IInv
PROPERTIES ForeignUntouched
CHECK_DEADLOCK FALSE
