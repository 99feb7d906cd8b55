SPECIFICATION Spec
CONSTANTS
    Users = {u1, u2}
    NoData = NoData
    Slots = {s1, s2, s3, s4}
    Shared = TRUE
    MaxSslErrors = 2
    Options <- MCOptions
    MaxOverlap = 2
    Ports = {p1, p2}
    NoPort = NoPort
    TimeoutTicks = 2
    Retrievals = {u1}
    Addresses = {a1, a2}
    MaxZombies = 2
    Sockets = {c1}
    Shapes <- MCShapes
    MaxRequests = 2
    InitialPorts = {65530}
    MaxAttaches = 1
SYMMETRY SlotSymmetry
CHECK_DEADLOCK FALSE
INVARIANTS
    PartsInv
    DeathIsNoticed
    HandledOnceAndWhole
PROPERTIES
    SignalsAreRight
    NoFalseAlarm
    NoProgramIsKilled
    ReportsAreAsked
