SPECIFICATION FairSpec
CONSTANTS
    Ids = {0, 1, 2, 3, 4, 7}
    NoId = NoId
    NoImage = NoImage
    Foreign = {0}
    ForeignImage = "postgres"
    Leftover = {7}
    LeftoverImage = "senjun_cpp"
    MaxFaults = 1
    MaxExits = 0
    MaxCrashes = 1
    Boot = Boot
    Requests = {1, 2, 3}
    NoSources = {3}
    threadPoolSize = 2
    maxContainersAmount = 2
    Images <- MCImages
    SenjunImages <- MCSenjun
    Languages <- MCLanguages
    LanguageOf <- MCLanguageOf
    courses <- MCOneCpp
    playgrounds <- MCNone
    practices <- MCNone
PROPERTIES AnsweredUnlessDepleted ServesAgain ImplementsSandbox
CHECK_DEADLOCK FALSE
