--------------------------- MODULE MCBackupRestore ---------------------------
EXTENDS BackupRestore, TLC

Everything == {[database |-> TRUE, media |-> TRUE, config |-> TRUE]}
AnyParts == Everything \cup {[database |-> FALSE, media |-> TRUE, config |-> FALSE],
                             [database |-> FALSE, media |-> FALSE, config |-> TRUE]}
JustDatabase == {[database |-> TRUE, media |-> FALSE, config |-> FALSE]}

Symmetry == Permutations(Backups)

\* An owner who asks for one thing at a time, and sees nothing fail.
OneByOne ==
    /\ \A i, j \in Backups : at[i] \notin {"idle", "ended"} /\ at[j] \notin {"idle", "ended"} => i = j
    /\ \A r, s \in Restores : rat[r] \notin Over /\ rat[s] \notin Over => r = s
    /\ \A r \in Restores : rat[r] \notin Over => \A j \in Backups : at[j] \in {"idle", "ended"}
    /\ \A r \in Restores : rat[r] \in Over => rat[r] \in {"idle", "completed"}
    /\ \A j \in Jobs : at[j] = "ended" => archive[j] # NoArchive
    /\ \A j \in Jobs : at[j] # "dead"
=============================================================================
