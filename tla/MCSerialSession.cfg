SPECIFICATION SerialSpec
CONSTANTS
    Users = {u1, u2}
    Requests = {r1, r2, r3}
    RefreshTtl = 1
    MsPerSecond = 2
    MaxTime = 2
    None = None
CHECK_DEADLOCK FALSE
PROPERTY
    ImplementsAtomicSession
