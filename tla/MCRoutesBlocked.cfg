SPECIFICATION FairSpec
CONSTANTS
    Endpoints = {e1}
    Networks = {}
    Static = {}
    Gateways = {g1}
    NoGw = NoGw
    Foreign = Foreign
    MaxCopies = 2
PROPERTIES
    ReadsEnd
