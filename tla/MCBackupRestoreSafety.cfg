\* A restore of the safety backup of another restore, one after the other.
CONSTANTS
    Backups = {b1, b2}
    Restores = {r1, r2}
    NoArchive = NoArchive
    Options <- JustDatabase
SPECIFICATION Spec
CONSTRAINT OneByOne
PROPERTY SafetyListed
CHECK_DEADLOCK FALSE
