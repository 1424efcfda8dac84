\* Two restores asked for at once.
CONSTANTS
    Backups = {b1}
    Restores = {r1, r2}
    NoArchive = NoArchive
    Options <- Everything
SPECIFICATION Spec
INVARIANT OneRestore
CHECK_DEADLOCK FALSE
