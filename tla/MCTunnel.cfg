SPECIFICATION FairSpec
CONSTANTS
    AutoRetry = FALSE
    TimeoutSet = TRUE
    AttachRetries = 5
    DelayMax = 8
    MaxTimers = 2
INVARIANTS
    TypeOK
    Restartable
    ManagerNeedsProcess
    StoppedIsQuiet
    RetryWithoutProcess
    Watched
    FallbackIsConfigured
PROPERTIES
    DeadProcessIsReaped
    AttemptEnds
