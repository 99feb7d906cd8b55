SPECIFICATION Spec
CONSTANTS
    Users = {u1}
    NoUser = NoUser
    AutoRetry = TRUE
    Decongest = FALSE
    TimeoutSet = TRUE
    AttachRetries = 1
    DelayMax = 1
    MaxTimers = 1
    MayRestart = TRUE
    MayReconfigure = TRUE
    MaySpoil = TRUE
INVARIANTS
    SetupGoesOn
