---------------------------- MODULE BackupRestore ----------------------------
(***************************************************************************)
(* RestoreOrchestratorService with the backups it runs beside: a restore   *)
(* takes a safety backup, replaces the database by a dump (and with it the *)
(* rows that say which jobs exist), rebuilds those rows, copies the media  *)
(* and the configuration, and goes back to the safety backup when a step   *)
(* fails after the point of no return.                                     *)
(***************************************************************************)
EXTENDS BackupPipeline

CONSTANT Options  \* what a restore may be asked for: records of three Booleans

ASSUME OptionsAssumption ==
    Options \subseteq [database : BOOLEAN, media : BOOLEAN, config : BOOLEAN]

VARIABLES rat,  \* where each restore pipeline is
          ask,  \* the instance and the options of each restore
          did   \* local variables of each restore

vars == <<db, archive, media, at, rat, ask, did>>

NoAsk == [target |-> NoArchive, database |-> FALSE, media |-> FALSE, config |-> FALSE]

\* mediaRestored, hasRequiredConfigFailure, and savedSafetyInstance.id
Nothing == [media |-> FALSE, configFailed |-> FALSE, safetyId |-> 0]

Init == /\ BackupInit
        /\ rat = [r \in Restores |-> "idle"]
        /\ ask = [r \in Restores |-> NoAsk]
        /\ did = [r \in Restores |-> Nothing]

Go(r, from, to) == rat[r] = from /\ rat' = [rat EXCEPT ![r] = to]

\* An update of the job's row, which changes nothing if the row is gone.
Mark(r, status) ==
    db' = IF db.restores[r] = "NONE" THEN db ELSE [db EXCEPT !.restores[r] = status]

\* An update that creates the row if it is gone.
Record(r, status) == db' = [db EXCEPT !.restores[r] = status]

-----------------------------------------------------------------------------
(* Up to the point of no return *)

StartRestore(r, target, options) ==
    /\ Go(r, "idle", "pending")
    /\ NoBackupRuns /\ NoRestoreRuns
    /\ db.ids[target] # 0
    /\ Record(r, "PENDING")
    /\ ask' = [ask EXCEPT ![r] = [target |-> target, database |-> options.database,
                                  media |-> options.media, config |-> options.config]]
    /\ UNCHANGED <<archive, media, at, did>>

BeginRestore(r) == /\ Go(r, "pending", "validate")
                   /\ db.restores[r] # "NONE" /\ db.ids[ask[r].target] # 0
                   /\ Record(r, "RUNNING")
                   /\ UNCHANGED <<archive, media, at, ask, did>>

Validate(r) == /\ Go(r, "validate", IF ask[r].database THEN "safety" ELSE "extract")
               /\ UNCHANGED <<db, archive, media, at, ask, did>>

\* startBackup with PRE_RESTORE, which does not ask whether a restore runs.
AskSafety(r) == /\ Go(r, "safety", "wait")
                /\ Enqueue(r)
                /\ UNCHANGED <<ask, did>>

SafetyDone(r) == /\ Go(r, "wait", "extract")
                 /\ db.jobs[r] = "COMPLETED"
                 /\ did' = [did EXCEPT ![r].safetyId = db.ids[r]]
                 /\ UNCHANGED <<db, archive, media, at, ask>>

\* waitForBackupCompletion: the backup failed, or five minutes have passed.
SafetyMissed(r) == /\ Go(r, "wait", "failed")
                   /\ Mark(r, "FAILED")
                   /\ UNCHANGED <<archive, media, at, ask, did>>

\* The archive is checked, extracted, audited, its manifest and dump verified.
Extract(r) == /\ Go(r, "extract", IF ask[r].database THEN "psql" ELSE "media")
              /\ UNCHANGED <<db, archive, media, at, ask, did>>

FailEarly(r) == /\ \E from \in {"pending", "validate", "safety", "extract"} :
                         Go(r, from, "failed")
                /\ Mark(r, "FAILED")
                /\ UNCHANGED <<archive, media, at, ask, did>>

-----------------------------------------------------------------------------
(* The database is replaced, and its job rows rebuilt *)

PsqlDone(r) == /\ Go(r, "psql", "clean")
               /\ db' = archive[ask[r].target].tables
               /\ UNCHANGED <<archive, media, at, ask, did>>

\* psql runs in no transaction: what it has done before an error stays.
PartOf(tables) == {db, [db EXCEPT !.whole = FALSE], [tables EXCEPT !.whole = FALSE]}

\* An error taken for one of the environment is not rolled back.
PsqlFails(r) ==
    /\ rat[r] = "psql"
    /\ \E part \in PartOf(archive[ask[r].target].tables) :
          \/ Go(r, "psql", "rollback") /\ db' = part
          \/ /\ Go(r, "psql", "abandoned")
             /\ db' = IF part.restores[r] = "NONE" THEN part
                      ELSE [part EXCEPT !.restores[r] = "FAILED"]
    /\ UNCHANGED <<archive, media, at, ask, did>>

\* Seeded fault: the jobs that were running when the dump was taken stay so.
Clean_forgotten(r) == /\ Go(r, "clean", "reregister")
                      /\ UNCHANGED <<db, archive, media, at, ask, did>>

\* Seeded fault: a status the enum does not have.
Stopped_noEnum(status) == [x \in DOMAIN status |-> IF status[x] = "RUNNING" THEN "INTERRUPTED"
                                                   ELSE status[x]]

Stopped(status) == [x \in DOMAIN status |-> IF status[x] = "RUNNING" THEN "FAILED"
                                            ELSE status[x]]

Clean(r) == /\ Go(r, "clean", "reregister")
            /\ db' = [db EXCEPT !.jobs = Stopped(db.jobs), !.restores = Stopped(db.restores)]
            /\ UNCHANGED <<archive, media, at, ask, did>>

\* The safety backup's row is looked for by uuid, then by the id it used to have.
Reregister(r) ==
    /\ Go(r, "reregister", "recreate")
    /\ db' = IF \E j \in Jobs : db.ids[j] # 0 /\ (j = r \/ db.ids[j] = did[r].safetyId)
             THEN db
             ELSE [db EXCEPT !.ids[r] = db.nextId, !.nextId = db.nextId + 1]
    /\ UNCHANGED <<archive, media, at, ask, did>>

ReregisterFails(r) == /\ Go(r, "reregister", "rollback")
                      /\ Record(r, "FAILED")
                      /\ UNCHANGED <<archive, media, at, ask, did>>

Recreate(r) == /\ Go(r, "recreate", "media")
               /\ db.restores[r] = "NONE"
               /\ Record(r, "RUNNING")
               /\ UNCHANGED <<archive, media, at, ask, did>>

RecreateFails(r) == /\ Go(r, "recreate", "rollback")
                    /\ UNCHANGED <<db, archive, media, at, ask, did>>

-----------------------------------------------------------------------------
(* Media, configuration, end *)

SkipMedia(r) == /\ Go(r, "media", "config")
                /\ UNCHANGED <<db, archive, media, at, ask, did>>

\* An error between two files is logged, and the restore goes on.
CopyMedia(r) == /\ Go(r, "media", "config")
                /\ ask[r].media
                /\ media' \in {archive[ask[r].target].media, FALSE}
                /\ did' = [did EXCEPT ![r].media = TRUE]
                /\ UNCHANGED <<db, archive, at, ask>>

RestoreConfig(r) == /\ Go(r, "config", "finish")
                    /\ \E failed \in IF ask[r].config THEN BOOLEAN ELSE {FALSE} :
                          did' = [did EXCEPT ![r].configFailed = failed]
                    /\ UNCHANGED <<db, archive, media, at, ask>>

Complete(r) == /\ Go(r, "finish", "completed")
               /\ ~did[r].configFailed
               /\ Mark(r, "COMPLETED")
               /\ UNCHANGED <<archive, media, at, ask, did>>

Touched(r) == ask[r].database \/ did[r].media

\* The .env was not restored, or an error outside the steps' own handlers.
FailLate(r) ==
    /\ \E from \in {"config", "finish"} :
          \/ ~Touched(r) /\ Go(r, from, "failed") /\ Mark(r, "FAILED")
          \/ Touched(r) /\ Go(r, from, "rollback") /\ UNCHANGED db
    /\ UNCHANGED <<archive, media, at, ask, did>>

-----------------------------------------------------------------------------
(* attemptRollback *)

RollbackDatabase(r) == /\ Go(r, "rollback", "rollbackClean")
                       /\ ask[r].database
                       /\ db' = archive[r].tables
                       /\ UNCHANGED <<archive, media, at, ask, did>>

\* Only the job of the safety backup, which its own dump holds as RUNNING.
RollbackClean(r) ==
    /\ Go(r, "rollbackClean", "rollbackMedia")
    /\ db' = IF db.jobs[r] = "RUNNING" THEN [db EXCEPT !.jobs[r] = "FAILED"] ELSE db
    /\ UNCHANGED <<archive, media, at, ask, did>>

\* Seeded fault: the files already copied are left.
RollbackMedia_forgotten(r) == /\ Go(r, "rollbackMedia", "record")
                              /\ UNCHANGED <<db, archive, media, at, ask, did>>

RollbackMedia(r) == /\ Go(r, "rollbackMedia", "record")
                    /\ media' = IF did[r].media THEN archive[r].media ELSE media
                    /\ UNCHANGED <<db, archive, at, ask, did>>

RecordRollback(r) == /\ Go(r, "record", "rolledBack")
                     /\ Record(r, "ROLLBACK_COMPLETED")
                     /\ UNCHANGED <<archive, media, at, ask, did>>

\* No safety backup, or the rollback failed in its turn.
RollbackFails(r) ==
    /\ \/ /\ Go(r, "rollback", "critical")
          /\ \E part \in IF ask[r].database THEN PartOf(archive[r].tables) ELSE {db} :
                db' = [part EXCEPT !.restores[r] = "CRITICAL_FAILURE"]
       \/ /\ \E from \in {"rollbackClean", "rollbackMedia", "record"} : Go(r, from, "critical")
          /\ Record(r, "CRITICAL_FAILURE")
    /\ UNCHANGED <<archive, media, at, ask, did>>

-----------------------------------------------------------------------------
Over == {"idle", "completed", "failed", "abandoned", "rolledBack", "critical", "dead"}

\* The server process dies, and takes every pipeline and psql with it.
Crash ==
    /\ \/ \E j \in Jobs : at[j] \notin {"idle", "ended", "dead"}
       \/ \E r \in Restores : rat[r] \notin Over
    /\ at' = [j \in Jobs |-> IF at[j] \in {"idle", "ended"} THEN at[j] ELSE "dead"]
    /\ rat' = [r \in Restores |-> IF rat[r] \in Over THEN rat[r] ELSE "dead"]
    /\ \/ UNCHANGED <<db, media>>
       \/ /\ \E r \in Restores : rat[r] \in {"psql", "rollback"}
          /\ db' = [db EXCEPT !.whole = FALSE]
          /\ UNCHANGED media
       \/ /\ \E r \in Restores : rat[r] \in {"media", "rollbackMedia"}
          /\ media' = FALSE
          /\ UNCHANGED db
    /\ UNCHANGED <<archive, ask, did>>

Restore(r) ==
    \/ BeginRestore(r) \/ Validate(r) \/ AskSafety(r) \/ SafetyDone(r) \/ SafetyMissed(r)
    \/ Extract(r) \/ FailEarly(r)
    \/ PsqlDone(r) \/ PsqlFails(r) \/ Clean(r) \/ Reregister(r) \/ ReregisterFails(r)
    \/ Recreate(r) \/ RecreateFails(r)
    \/ SkipMedia(r) \/ CopyMedia(r) \/ RestoreConfig(r) \/ Complete(r) \/ FailLate(r)
    \/ RollbackDatabase(r) \/ RollbackClean(r) \/ RollbackMedia(r) \/ RecordRollback(r)
    \/ RollbackFails(r)

RunBackup(j) == Backup(j) /\ UNCHANGED <<rat, ask, did>>

Next == \/ \E j \in Backups : StartBackup(j) /\ UNCHANGED <<rat, ask, did>>
        \/ \E j \in Jobs : RunBackup(j)
        \/ \E r \in Restores, target \in Jobs, options \in Options :
              StartRestore(r, target, options)
        \/ \E r \in Restores : Restore(r)
        \/ Crash

Spec == Init /\ [][Next]_vars

-----------------------------------------------------------------------------
(* Properties *)

\* The columns hold values of the enums of schema.prisma, in the live database
\* and in every dump; a local variable has a value of its type.
TypeOK ==
    /\ db \in Tables
    /\ archive \in [Jobs -> Archive \cup {NoArchive}]
    /\ media \in BOOLEAN
    /\ at \in [Jobs -> {"idle", "pending", "running", "checked", "dump", "copy",
                        "register", "cleanup", "ended", "dead"}]
    /\ rat \in [Restores -> Over \cup
                   {"pending", "validate", "safety", "wait", "extract", "psql", "clean",
                    "reregister", "recreate", "media", "config", "finish",
                    "rollback", "rollbackClean", "rollbackMedia", "record"}]
    /\ ask \in [Restores -> [target : Jobs \cup {NoArchive}, database : BOOLEAN,
                             media : BOOLEAN, config : BOOLEAN]]
    /\ did \in [Restores -> [media : BOOLEAN, configFailed : BOOLEAN, safetyId : Nat]]

Early == {"idle", "pending", "validate", "safety", "wait", "extract", "psql", "failed"}

\* A restore has put other rows where those of the running jobs were.
Replaced == \E r \in Restores : ask[r].database /\ rat[r] \notin Early \cup {"dead"}

\* No two backups read the database at once.  startBackup lets two jobs wait
\* together (neither is RUNNING yet): it is the preflight that keeps them apart, by
\* rows that a restore takes away: three backups and a restore do break this.
OneDump == ~Replaced => \A i, j \in Jobs : Dumping(i) /\ Dumping(j) => i = j

\* While psql first replaces the tables no backup is between its first read of them
\* and its record, so no archive mixes what was there with what comes.  The safety
\* backup of another restore is not asked to wait for this one.
NoDumpAtTheReplace ==
    ~Replaced => \A r \in Restores : rat[r] = "psql" => \A j \in Backups \cup {r} : ~Dumping(j)

\* No restore is where job rows may be out of date, or ended where they may stay so.
Settled == \A r \in Restores :
    rat[r] \notin {"clean", "rollback", "rollbackClean", "abandoned", "critical", "dead"}

\* A second restore may take away, or bring back, the rows of the first.
First == \A r, s \in Restores : "idle" \notin {rat[r], rat[s]} => r = s

RolledBack == \E r \in Restores : rat[r] \in {"rollbackMedia", "record", "rolledBack"}

\* A row that says RUNNING stands for a pipeline that has not ended: as every
\* start looks at these rows, one left behind refuses backups and restores for
\* ever.  A dump holds the rows of the moment it was taken, so this is what the
\* cleaning after a replace or a rollback is for.  A rollback cleans the job of
\* its own safety backup alone, hence the exception for the others.
RunningIsAlive ==
    First /\ Settled =>
      /\ \A j \in Jobs : db.jobs[j] = "RUNNING" /\ (j \in Restores \/ ~RolledBack) =>
                            at[j] \notin {"idle", "ended"}
      /\ \A r \in Restores : db.restores[r] = "RUNNING" => rat[r] \notin Over

\* No other restore has come as far as the tables or the media, or a crash has ended it.
Alone(r) == \A s \in Restores \ {r} : rat[s] \in (Early \ {"psql"}) \cup {"dead"}

\* A restore that reports COMPLETED leaves the whole of the dump in place, and
\* one that reports ROLLBACK_COMPLETED has taken back every table and file.
EndsWhole ==
    [][\A r \in Restores : Alone(r) =>
         /\ rat[r] = "finish" /\ rat'[r] = "completed" /\ ask[r].database =>
               (archive[ask[r].target].tables.whole => db'.whole)
         /\ rat[r] = "record" /\ rat'[r] = "rolledBack" =>
               (archive[r].tables.whole => db'.whole)
         /\ rat[r] = "record" /\ rat'[r] = "rolledBack" /\ did[r].media =>
               (archive[r].media => media')]_vars

\* Two restores do not work at the same time: the advisory lock of startRestore
\* is said to protect from that race (restore-orchestrator.service.ts:71).
OneRestore ==
    \A r, s \in Restores :
        {rat[r], rat[s]} \cap (Over \cup {"pending"}) = {} => r = s

\* A restore of the database goes on only when its safety backup is listed in
\* the restored one (restore-orchestrator.service.ts:557-558).
SafetyListed ==
    [][\A r \in Restores :
         rat[r] = "reregister" /\ rat'[r] = "recreate" => db'.ids[r] # 0]_vars
=============================================================================
