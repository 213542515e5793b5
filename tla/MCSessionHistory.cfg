SPECIFICATION HSpec
CONSTANTS
    Users = {u1}
    Requests = {r1, r2, r3, r4}
    RefreshTtl = 1
    MsPerSecond = 2
    MaxTime = 2
    AccessTtl = 1
    None = None
SYMMETRY Symmetry
CHECK_DEADLOCK FALSE
INVARIANTS
    SettledLogin
    RevocationFinal
    RevokedAccessFades
