SPECIFICATION Spec
CONSTANTS
    Users = {u1}
    NoUser = NoUser
    VpnName = VpnName
    Certificates = {}
    Settings <- MCSettings
    Needs = {"sb_auth"}
    MaxErrors = 2
    MaxRequests = 1
    MaxReplies = 2
INVARIANTS
    StatusInv
PROPERTIES
    ViewConverges
    ErrorIsAnnounced
