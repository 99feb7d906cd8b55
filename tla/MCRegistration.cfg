SPECIFICATION FairSpec
CONSTANTS
    Codes = {c1, c2}
    NoCode = NoCode
    Registered = {c1}
    DelayMax = 2
    MaxOrphans = 2
    MaxTimers = 2
INVARIANTS
    TypeOK
    SetupIsDriven
    OnlineIsConsistent
PROPERTIES
    SavedBeforeDeleted
    SetupEnds
