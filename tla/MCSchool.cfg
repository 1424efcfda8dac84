CONSTANTS
    Jobs = {j1, j2}
    Students = {s1, s2}
    Staff = {}
    Serials = {1, 2}
    Year = 2
    TrialDays = 1
    MaxTime = 2
    MaxBatch = 2
    NoOne = NoOne
    Imports = {i1, i2}
    Runners = {r1, r2}
    Names = {n1}
    n1 = n1
    Families = {f1}
    f1 = f1
    NoFamily = NoFamily
    MaxAccounts = 4
    Clerks = {k1, k2}
    SubjectRows = {y1}
    SectionRows = {z1, z2}
    FirstSection = z1
    Teachers = {t1, t2}
    NoRow = NoRow
    MaxRequests = 4
SPECIFICATION SchoolSpec
INVARIANTS
    SchoolTypes
    CodeSpentOnce
    PaidDisjoint
    OneRunningPeriod
    TrialForEveryStudent
    StatusTellsAccess
    OneParentAccount
    StructureKept
 
SYMMETRY Symmetry
CHECK_DEADLOCK FALSE
