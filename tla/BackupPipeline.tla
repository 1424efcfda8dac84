--------------------------- MODULE BackupPipeline ---------------------------
(***************************************************************************)
(* BackupOrchestratorService: one backup from startBackup to the record of *)
(* its instance.  A pipeline runs detached from the request that asked for *)
(* it and is told of the others only by the status column of the job rows, *)
(* which are in the database that is dumped, and that a restore replaces.  *)
(*                                                                         *)
(* A job stands for its uuid; a restore is also the uuid of its own safety *)
(* backup.  Writes by the id of a row that a restore has taken away fail.  *)
(***************************************************************************)
EXTENDS Naturals

CONSTANTS Backups,   \* backups asked for by the owner or a schedule
          Restores,  \* restores, each with a safety backup of its own
          NoArchive  \* no file on disk

Jobs == Backups \cup Restores

BackupStatus == {"NONE", "PENDING", "RUNNING", "COMPLETED", "FAILED"}
RestoreStatus == BackupStatus \cup {"ROLLBACK_COMPLETED", "CRITICAL_FAILURE"}

\* `ids` is the instance row of a job's backup, 0 if there is none; `nextId` the
\* sequence its ids come from; `whole` tells that the content is of one time.
Tables == [whole : BOOLEAN, jobs : [Jobs -> BackupStatus],
           restores : [Restores -> RestoreStatus],
           ids : [Jobs -> Nat], nextId : Nat \ {0}]
Archive == [tables : Tables, media : BOOLEAN]

ASSUME BackupAssumption == Backups \cap Restores = {} /\ NoArchive \notin Archive

VARIABLES db,       \* the database
          archive,  \* backup files on disk, by job
          media,    \* the media files: all of one time?
          at        \* where each backup pipeline is

EmptyDb == [whole |-> TRUE,
            jobs |-> [j \in Jobs |-> "NONE"],
            restores |-> [r \in Restores |-> "NONE"],
            ids |-> [j \in Jobs |-> 0],
            nextId |-> 1]

BackupInit == /\ db = EmptyDb
              /\ archive = [j \in Jobs |-> NoArchive]
              /\ media = TRUE
              /\ at = [j \in Jobs |-> "idle"]

NoBackupRuns == \A j \in Jobs : db.jobs[j] # "RUNNING"
NoRestoreRuns == \A r \in Restores : db.restores[r] # "RUNNING"

Move(j, from, to) == at[j] = from /\ at' = [at EXCEPT ![j] = to]

\* The transaction of startBackup, under the advisory lock.
Enqueue(j) == /\ Move(j, "idle", "pending")
              /\ NoBackupRuns
              /\ db' = [db EXCEPT !.jobs[j] = "PENDING"]
              /\ UNCHANGED <<archive, media>>

StartBackup(j) == j \in Backups /\ NoRestoreRuns /\ Enqueue(j)

BeginBackup(j) == /\ Move(j, "pending", "running")
                  /\ db.jobs[j] # "NONE"
                  /\ db' = [db EXCEPT !.jobs[j] = "RUNNING"]
                  /\ UNCHANGED <<archive, media>>

\* The row is gone: the pipeline returns, or fails and cannot even say so.
LoseBackup(j) == /\ \E from \in {"pending", "running", "checked", "dump", "copy",
                                "register", "cleanup"} : Move(j, from, "ended")
                 /\ db.jobs[j] = "NONE"
                 /\ UNCHANGED <<db, archive, media>>

(* PreflightValidatorService.validate: two queries, one after the other. *)

\* Seeded fault: the preflight does not look at the other backups.
CheckBackups_skipped(j) == /\ Move(j, "running", "checked")
                           /\ UNCHANGED <<db, archive, media>>

CheckBackups(j) == /\ Move(j, "running", "checked")
                   /\ \A i \in Jobs \ {j} : db.jobs[i] # "RUNNING"
                   /\ UNCHANGED <<db, archive, media>>

\* Seeded fault: the preflight is content with what startBackup has seen.
CheckRestores_skipped(j) == /\ Move(j, "checked", "dump")
                            /\ UNCHANGED <<db, archive, media>>

CheckRestores(j) == /\ Move(j, "checked", "dump")
                    /\ j \in Restores \/ NoRestoreRuns
                    /\ UNCHANGED <<db, archive, media>>

Dump(j) == /\ Move(j, "dump", "copy")
           /\ archive' = [archive EXCEPT ![j] = [tables |-> db, media |-> FALSE]]
           /\ UNCHANGED <<db, media>>

\* Media, configuration, manifest, compression, checksum, move to completed/.
Pack(j) == /\ Move(j, "copy", "register")
           /\ archive' = [archive EXCEPT ![j].media = media]
           /\ UNCHANGED <<db, media>>

\* The instance and the job's COMPLETED in one transaction.
Register(j) == /\ Move(j, "register", "cleanup")
               /\ db.jobs[j] # "NONE"
               /\ db' = [db EXCEPT !.jobs[j] = "COMPLETED", !.ids[j] = db.nextId,
                                   !.nextId = db.nextId + 1]
               /\ UNCHANGED <<archive, media>>

CleanUp(j) == /\ Move(j, "cleanup", "ended")
              /\ UNCHANGED <<db, archive, media>>

\* Any step may fail; after Register the job is FAILED although its backup exists.
FailBackup(j) == /\ \E from \in {"running", "checked", "dump", "copy", "register",
                                "cleanup"} : Move(j, from, "ended")
                 /\ db.jobs[j] # "NONE"
                 /\ db' = [db EXCEPT !.jobs[j] = "FAILED"]
                 /\ UNCHANGED <<archive, media>>

Backup(j) == \/ BeginBackup(j) \/ LoseBackup(j) \/ CheckBackups(j) \/ CheckRestores(j)
             \/ Dump(j) \/ Pack(j) \/ Register(j) \/ CleanUp(j) \/ FailBackup(j)

Dumping(j) == at[j] \in {"dump", "copy", "register"}
=============================================================================
