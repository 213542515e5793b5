SPECIFICATION Spec
CONSTANTS
    Users = {u1}
    Requests = {r1, r2, r3}
    RefreshTtl = 4
    MsPerSecond = 2
    MaxTime = 2
    None = None
CHECK_DEADLOCK FALSE
PROPERTY
    RefreshTouchesOnlyExpiry
