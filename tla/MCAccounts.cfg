SPECIFICATION BoundedSpec
CONSTANTS
    Requests = {r1, r2, r3}
    Early = {g}
    Dropped = {g}
    Root = root
    FirstPassword = p1
    Names = {root, n1}
    Emails = {e1}
    Passwords = {root, p1}
    None = None
SYMMETRY Symmetry
CHECK_DEADLOCK FALSE
INVARIANTS
    TypeOK
    DuplicatesOverlap
    PasswordsEarned
    SettledPassword
PROPERTY
    ChangeStored
