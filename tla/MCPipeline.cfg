SPECIFICATION Spec
CONSTANTS
    Requests = {r1, r2}
    Endpoints = {"login", "getProfile", "revokeToken", "refreshToken", "delete", "create", "check", "unknown", "unreadable"}
    Ports = {4000, 8080}
    None = None
CHECK_DEADLOCK FALSE
INVARIANTS
    TypeOK
    Guarded
    StatusTellsCause
    EffectReported
    OwnValidationErrors
    LabelsLatest
    HealthServed
PROPERTY
    AllAnswered
