CONSTANTS
    Backups = {b1, b2}
    Restores = {res1}
    NoArchive = NoArchive
    Options <- AnyParts
    Copies = {1, 2}
    Consoles = {con1, con2}
    MaxBackups = 1
    MinSafe = 1
    PurgeDays = 1
    LastNight = 2
    Questions = {q1}
    q1 = q1
    QJobs = {qj1, qj2}
    Completing = {c1}
    Reading = {c2}
    Answering = {c3}
    Attempts = {c4}
    MaxEdits = 1
    MaxResults = 2
    NoChange = NoChange
    Uuids = {1, 2}
    Limit = 1
    MaxCommits = 2
    MaxClock = 2
    Subjects = {m1, m2}
    Terms = {1, 2}
    NoTerm = 0
    Scores = {0, 1}
    MaxAttempts = 2
    MaxTerms = 1
    MaxPublished = 2
    Editors = {e1, e2}
    MaxRows = 3
    MaxPlace = 2
    MaxActive = 2
    Schools = {sc1}
    LibraryJobs = {lj1, lj2}
    MaxContent = 2
    MaxForks = 2
    MaxBatches = 2
SPECIFICATION PartSpec
CONSTRAINT Tidy
INVARIANTS
    PartTypes
    OneDump
    NoDumpAtTheReplace
    
    
    
    CompletedHasResult
    LessonsArrive
    
    
    ListsInOrder
    CopyIsCurrent
PROPERTY EndsWhole
SYMMETRY Swap
CHECK_DEADLOCK FALSE
