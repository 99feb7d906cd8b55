SPECIFICATION Spec
CONSTANTS
    Users = {u1, u2}
    NoUser = NoUser
    DelayMax = 8
INVARIANTS
    FallbackIsUsable
