SPECIFICATION Spec
CONSTANTS
    Users = {u1, u2}
    Requests = {r1, r2, r3}
    RefreshTtl = 2
    MsPerSecond = 2
    MaxTime = 3
    None = None
SYMMETRY Symmetry
CHECK_DEADLOCK FALSE
INVARIANTS
    TypeOK
    RowDecrypts
    ExpiryBounded
    OnlyRevokeMisses
    WholePairs
    PairUntilWritten
    ObjectsBounded
PROPERTY
    LoginStored
