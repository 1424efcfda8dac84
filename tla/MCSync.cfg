\* Two lessons, pages of one row.
CONSTANTS
    Uuids = {1, 2}
    Limit = 1
    MaxCommits = 2
    MaxClock = 2
SPECIFICATION SyncSpec
INVARIANT QuestionsArrive
CHECK_DEADLOCK FALSE
