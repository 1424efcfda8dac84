CONSTANTS
    Jobs = {j1, j2}
    Phones = {p1}
    Names = {n1, n2, n3}
    Cooldown = 0
    Hour = 0
    RateLimit = 1
    Ttl = 1
    TokenTtl = 1
    MaxAttempts = 1
    MaxTime = 2
    MaxOtps = 2
    MaxAccounts = 2
    MaxStudents = 3
    None = None
    AuthSessions = {as1, as2}
    AuthJobs = {aj1, aj2}
    MaxTokens = 4
    MaxPasswords = 2
    NoSession = NoSession
    Pupils = {pupil1}
    Clerks = {c1, c2}
    LastGrade = 2
    MaxYears = 3
    MaxYearTerms = 2
SPECIFICATION PeopleSpec
INVARIANTS
    PeopleTypes
    OnePending
    LimitsKept
    RegisteredOnce
    ConsumedIsRegistered
    CalmAppStaysIn
    
    RolledOverOnce
PROPERTIES
    OnlyNewestVerified
    PhonesAreProven
SYMMETRY Alike
CHECK_DEADLOCK FALSE
