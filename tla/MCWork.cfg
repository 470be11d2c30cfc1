SPECIFICATION WorkSpec
CONSTANTS
    Dispatcher = {d1, d2}
    Build = {b1, b2}
    Builder = {1}
    MaxLeaderChanges = 1
    MaxCordons = 1
    MaxRefused = 1
    StaleListing = FALSE
    Scenes <- WorkScenes
    Period = 1
    Jitter = 1
    MaxJobs = 2
    MaxRuns = 5
CHECK_DEADLOCK FALSE
INVARIANTS
    WorkTypeOK
    SlotFiredOnce
    CronExclusive
    ExecutionsBounded
PROPERTIES
    OutcomeFinal
    BuildsEnd
    JobsSettle
