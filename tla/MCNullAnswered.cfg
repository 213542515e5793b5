SPECIFICATION Spec
CONSTANTS
    Requests = {r1, r2}
    Endpoints = {"getProfile", "findById", "create"}
    Ports = {4000}
    None = None
CHECK_DEADLOCK FALSE
INVARIANT NullAnswered
