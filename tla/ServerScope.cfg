SPECIFICATION Spec
CONSTANTS
    Requests = {1, 2}
    NoSources = {}
    MaxFailures = 0
    NoTask = NoTask
    threadCount = 2
    Languages <- MCLanguages
    LanguageOf <- MCLanguageOf
    Launchers <- MCLaunchers
PROPERTIES ScopeEmptyWhenDestroyed
CHECK_DEADLOCK FALSE
