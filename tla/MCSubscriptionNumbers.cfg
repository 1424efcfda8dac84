CONSTANTS
    Jobs = {j1, j2}
    Students = {s1}
    Staff = {t1}
    Serials = {1}
    Year = 1
    TrialDays = 1
    MaxTime = 0
    MaxBatch = 1
    NoOne = NoOne
SPECIFICATION Spec
INVARIANT UniqueNumbers
CHECK_DEADLOCK FALSE
