SPECIFICATION TaskSpec
CONSTANTS
    MaxTasks = 3
    RootLimit = 1
    DefaultLimit = 2
    NoEntry = NoEntry
CHECK_DEADLOCK FALSE
INVARIANTS AwaitAnswersForItsTask
