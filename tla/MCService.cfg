SPECIFICATION FairSpec
CONSTANTS
    Users = {u1}
    NoUser = NoUser
    AutoRetry = FALSE
    Decongest = TRUE
    TimeoutSet = TRUE
    AttachRetries = 1
    DelayMax = 1
    MaxTimers = 1
    MayRestart = FALSE
    MayReconfigure = FALSE
    MaySpoil = TRUE
INVARIANTS
    IdleIsIdle
    ErrorStopsProgress
PROPERTIES
    FollowsLifecycle
    CoreDrivesTunnel
    CoreDrivesSetup
    BusyEnds
