SPECIFICATION FairSpec
CONSTANTS
    Endpoints = {e1, e2}
    Networks = {}
    Static = {e2}
    Gateways = {g1, g2}
    NoGw = NoGw
    Foreign = Foreign
    MaxCopies = 2
INVARIANTS
    TypeOK
    StaticRoutesKept
    RoutesAreKnown
    StopRemovesHosts
PROPERTIES
    AddsConverge
