CONSTANTS
    Jobs = {j1}
    Phones = {p1}
    Names = {n1}
    Cooldown = 0
    Hour = 1
    RateLimit = 1
    Ttl = 1
    TokenTtl = 1
    MaxAttempts = 1
    MaxTime = 1
    MaxOtps = 1
    MaxAccounts = 1
    MaxStudents = 1
    None = None
SPECIFICATION Spec
PROPERTY WrongCodeCounted
CHECK_DEADLOCK FALSE
