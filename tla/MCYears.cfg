\* One pupil who finishes the second of three grades.
CONSTANTS
    Pupils = {p1}
    Clerks = {c1}
    LastGrade = 3
    MaxYears = 2
    MaxYearTerms = 1
SPECIFICATION YearsSpec
INVARIANT PromotedToTheNext
CHECK_DEADLOCK FALSE
