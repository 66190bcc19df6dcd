SPECIFICATION FairSpec
CONSTANTS
    Requests = {1, 2}
    NoSources = {}
    MaxFailures = 1
    NoTask = NoTask
    threadCount = 2
    Languages <- MCLanguages
    LanguageOf <- MCLanguageOf
    Launchers <- MCLaunchers
INVARIANTS TypeOK NoSleeperWithWork OnePlace ReplyOnItsWay ServiceOutlivesTasks
PROPERTIES EveryTaskRuns ClientsAnswered Stops
CHECK_DEADLOCK FALSE
