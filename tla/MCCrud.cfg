SPECIFICATION HSpec
CONSTANTS
    Requests = {r1, r2, r3}
    Early = {c0, c1}
    Unused = {c1}
    Users = {u1, u2}
    Texts = {a}
    FirstOwner = u1
    None = None
SYMMETRY Symmetry
CHECK_DEADLOCK FALSE
INVARIANTS
    TypeOK
    OwnerGiven
    DeletedStays
    DeletionsCounted
