---------------------------- MODULE BackupProofs ----------------------------
(***************************************************************************)
(* Backups beside restores, for any number of both.  The proof goes in two *)
(* layers: that every row and every file a pipeline relies on is there,    *)
(* and on top of it, that no two backups dump together, that none dumps    *)
(* while the tables are replaced, and that a restore ends with the whole   *)
(* of what it reports.                                                     *)
(***************************************************************************)
EXTENDS BackupRestore, TLAPS

RestorePlaces == Over \cup
    {"pending", "validate", "safety", "wait", "extract", "psql", "clean", "reregister",
     "recreate", "media", "config", "finish", "rollback", "rollbackClean", "rollbackMedia",
     "record"}
Asks == [target : Jobs \cup {NoArchive}, database : BOOLEAN, media : BOOLEAN, config : BOOLEAN]
Dids == [media : BOOLEAN, configFailed : BOOLEAN, safetyId : Nat]

\* The backups whose file is on disk for good, and the restores nobody has asked for.
Done == {j \in Jobs : at[j] \in {"cleanup", "ended", "dead"} /\ archive[j] \in Archive}
Unasked == {r \in Restores : rat[r] = "idle"}

\* What the tables say is registered or completed is done, and nothing runs unasked.
Sound(T, done, unasked) ==
    /\ T \in Tables
    /\ \A j \in Jobs : T.ids[j] # 0 \/ T.jobs[j] = "COMPLETED" => j \in done
    /\ \A r \in unasked : T.jobs[r] # "RUNNING" /\ T.restores[r] # "RUNNING"

Files == /\ Sound(db, Done, Unasked)
         /\ \A j \in Jobs : archive[j] \in Archive => Sound(archive[j].tables, Done, Unasked)
         /\ \A j \in Jobs : at[j] \in {"copy", "register", "cleanup"} => archive[j] \in Archive

\* Where a restore of the database, and of it alone, can be; and where the safety
\* backup that it begins with must be there.
Replacing == {"safety", "wait", "psql", "clean", "reregister", "recreate",
              "rollbackClean", "rollbackMedia", "record"}
Safe == RestorePlaces \ {"idle", "pending", "validate", "safety", "wait", "failed", "dead"}

Asked(r) == /\ rat[r] = "idle" => at[r] = "idle"
            /\ rat[r] # "idle" => ask[r].target \in Done
            /\ rat[r] \in Replacing => ask[r].database
            /\ ask[r].database /\ rat[r] \in Safe => r \in Done

IInv == TypeOK /\ Files /\ \A r \in Restores : Asked(r)

-----------------------------------------------------------------------------
(* What a write makes of the tables *)

LEMMA SoundLasts ==
    ASSUME NEW T, NEW done, NEW done2, NEW unasked, NEW unasked2,
           Sound(T, done, unasked), done \subseteq done2, unasked2 \subseteq unasked
    PROVE  Sound(T, done2, unasked2)
  BY DEF Sound

LEMMA JobRow ==
    ASSUME NEW T \in Tables, NEW j \in Jobs, NEW s \in BackupStatus,
           NEW U, U = [T EXCEPT !.jobs[j] = s]
    PROVE  /\ U \in Tables
           /\ U.jobs = [T.jobs EXCEPT ![j] = s]
           /\ U.restores = T.restores /\ U.ids = T.ids /\ U.whole = T.whole
  BY DEF Tables

LEMMA RestoreRow ==
    ASSUME NEW T \in Tables, NEW r \in Restores, NEW s \in RestoreStatus,
           NEW U, U = [T EXCEPT !.restores[r] = s]
    PROVE  /\ U \in Tables
           /\ U.restores = [T.restores EXCEPT ![r] = s]
           /\ U.jobs = T.jobs /\ U.ids = T.ids /\ U.whole = T.whole
  BY DEF Tables

\* The tables after the instance of a backup is added, and after a backup is registered.
WithInstance(T, j) == [T EXCEPT !.ids[j] = T.nextId, !.nextId = T.nextId + 1]
Registered(T, j) == [T EXCEPT !.jobs[j] = "COMPLETED", !.ids[j] = T.nextId,
                              !.nextId = T.nextId + 1]

LEMMA InstanceRow ==
    ASSUME NEW T \in Tables, NEW j \in Jobs
    PROVE  LET U == WithInstance(T, j)
           IN  /\ U \in Tables
               /\ U.ids = [T.ids EXCEPT ![j] = T.nextId]
               /\ U.jobs = T.jobs /\ U.restores = T.restores /\ U.whole = T.whole
<1>1. T.nextId \in Nat \ {0} /\ T.nextId + 1 \in Nat \ {0} /\ T.ids \in [Jobs -> Nat]
  BY DEF Tables
<1>. QED
  BY <1>1 DEF Tables, WithInstance

LEMMA RegisteredRow ==
    ASSUME NEW T \in Tables, NEW j \in Jobs
    PROVE  LET U == Registered(T, j)
           IN  /\ U \in Tables
               /\ U.jobs = [T.jobs EXCEPT ![j] = "COMPLETED"]
               /\ U.ids = [T.ids EXCEPT ![j] = T.nextId]
               /\ U.restores = T.restores /\ U.whole = T.whole
<1>1. T.nextId \in Nat \ {0} /\ T.nextId + 1 \in Nat \ {0} /\ T.ids \in [Jobs -> Nat]
      /\ T.jobs \in [Jobs -> BackupStatus] /\ "COMPLETED" \in BackupStatus
  BY DEF Tables, BackupStatus
<1>. QED
  BY <1>1 DEF Tables, Registered

LEMMA BrokenRow ==
    ASSUME NEW T \in Tables, NEW U, U = [T EXCEPT !.whole = FALSE]
    PROVE  /\ U \in Tables /\ ~U.whole
           /\ U.jobs = T.jobs /\ U.restores = T.restores /\ U.ids = T.ids
  BY DEF Tables

LEMMA StoppedStatus ==
    ASSUME NEW S, NEW D, NEW status \in [D -> S], "FAILED" \in S
    PROVE  /\ Stopped(status) \in [D -> S]
           /\ \A x \in D : Stopped(status)[x] = IF status[x] = "RUNNING" THEN "FAILED" ELSE status[x]
  BY DEF Stopped

LEMMA SoundJobRow ==
    ASSUME NEW T, NEW done, NEW unasked, Sound(T, done, unasked),
           NEW j \in Jobs, NEW s \in BackupStatus,
           s = "COMPLETED" => j \in done, s = "RUNNING" => j \notin unasked
    PROVE  Sound([T EXCEPT !.jobs[j] = s], done, unasked)
<1>1. T.jobs \in [Jobs -> BackupStatus] /\ T \in Tables
  BY DEF Sound, Tables
<1>. QED
  BY <1>1, JobRow DEF Sound

LEMMA SoundRestoreRow ==
    ASSUME NEW T, NEW done, NEW unasked, Sound(T, done, unasked),
           NEW r \in Restores, NEW s \in RestoreStatus, s = "RUNNING" => r \notin unasked
    PROVE  Sound([T EXCEPT !.restores[r] = s], done, unasked)
<1>1. T.restores \in [Restores -> RestoreStatus] /\ T \in Tables
  BY DEF Sound, Tables
<1>. QED
  BY <1>1, RestoreRow DEF Sound

\* What psql leaves of the tables when it stops.
LEMMA SoundPart ==
    ASSUME NEW T, NEW done, NEW unasked, Sound(T, done, unasked), Sound(db, done, unasked),
           NEW part \in PartOf(T)
    PROVE  Sound(part, done, unasked)
<1>1. T \in Tables /\ db \in Tables
  BY DEF Sound
<1>. QED
  BY <1>1, BrokenRow DEF Sound, PartOf

-----------------------------------------------------------------------------
(* The rows and files are there: backups *)

LEMMA InitInv == Init => IInv
<1> SUFFICES ASSUME Init PROVE IInv
  OBVIOUS
<1>1. EmptyDb \in Tables /\ Sound(EmptyDb, Done, Unasked)
  BY DEF EmptyDb, Tables, Sound, BackupStatus, RestoreStatus, Unasked, Jobs
<1>2. TypeOK
  BY <1>1 DEF Init, BackupInit, TypeOK, NoAsk, Nothing, Over
<1>3. Files
  BY <1>1, BackupAssumption DEF Init, BackupInit, Files
<1>4. \A r \in Restores : Asked(r)
  BY DEF Init, BackupInit, Asked, Replacing, Safe, Jobs
<1>. QED
  BY <1>2, <1>3, <1>4 DEF IInv

BackupPlaces == {"idle", "pending", "running", "checked", "dump", "copy", "register", "cleanup",
                 "ended", "dead"}

\* A backup goes on, and what is done stays so.
LEMMA BackupGoes ==
    ASSUME IInv, NEW j \in Jobs, at' \in [Jobs -> BackupPlaces],
           \A i \in Jobs \ {j} : at'[i] = at[i] /\ archive'[i] = archive[i],
           at'[j] # "idle", at[j] = "idle" => j \notin Unasked,
           archive' \in [Jobs -> Archive \cup {NoArchive}],
           Done \subseteq Done', Sound(db', Done', Unasked),
           archive'[j] \in Archive => Sound(archive'[j].tables, Done', Unasked),
           at'[j] \in {"copy", "register", "cleanup"} => archive'[j] \in Archive,
           UNCHANGED <<media, rat, ask, did>>
    PROVE  IInv'
<1>1. Unasked' = Unasked
  BY DEF Unasked
<1>2. \A i \in Jobs : archive'[i] \in Archive => Sound(archive'[i].tables, Done', Unasked)
  BY SoundLasts DEF IInv, Files
<1>3. Files'
  BY <1>1, <1>2 DEF IInv, Files
<1>4. TypeOK'
  <2>1. db' \in Tables
    BY DEF Sound
  <2>. QED
    BY <2>1 DEF IInv, TypeOK, BackupPlaces
<1>5. \A r \in Restores : Asked(r)'
  BY DEF IInv, Asked, Unasked, Jobs
<1>. QED
  BY <1>3, <1>4, <1>5 DEF IInv

\* A step of a backup that leaves the files alone.
LEMMA BackupMoves ==
    ASSUME IInv, NEW j \in Jobs, NEW to \in BackupPlaces, at' = [at EXCEPT ![j] = to],
           to # "idle", at[j] = "idle" => j \notin Unasked,
           at[j] = "cleanup" => to = "ended", at[j] \notin {"ended", "dead"},
           to \in {"copy", "register", "cleanup"} => archive[j] \in Archive,
           Sound(db', Done', Unasked), UNCHANGED <<archive, media, rat, ask, did>>
    PROVE  IInv'
<1>1. at \in [Jobs -> BackupPlaces] /\ archive \in [Jobs -> Archive \cup {NoArchive}]
  BY DEF IInv, TypeOK, BackupPlaces
<1>2. at' \in [Jobs -> BackupPlaces] /\ (\A i \in Jobs \ {j} : at'[i] = at[i]) /\ at'[j] = to
  BY <1>1
<1>3. Done \subseteq Done'
  BY <1>1, <1>2 DEF Done
<1>4. archive'[j] \in Archive => Sound(archive'[j].tables, Done', Unasked)
  BY <1>3, SoundLasts DEF IInv, Files
<1>. QED
  BY <1>1, <1>2, <1>3, <1>4, BackupGoes

\* A step of a backup that writes its file.
LEMMA BackupWrites ==
    ASSUME IInv, NEW j \in Jobs, NEW to \in {"copy", "register"}, at' = [at EXCEPT ![j] = to],
           at[j] \in {"dump", "copy"}, NEW a \in Archive, Sound(a.tables, Done, Unasked),
           archive' = [archive EXCEPT ![j] = a], UNCHANGED <<db, media, rat, ask, did>>
    PROVE  IInv'
<1>1. at \in [Jobs -> BackupPlaces] /\ archive \in [Jobs -> Archive \cup {NoArchive}]
  BY DEF IInv, TypeOK, BackupPlaces
<1>2. at' \in [Jobs -> BackupPlaces] /\ (\A i \in Jobs \ {j} : at'[i] = at[i]) /\ at'[j] = to
  BY <1>1 DEF BackupPlaces
<1>3. /\ archive' \in [Jobs -> Archive \cup {NoArchive}] /\ archive'[j] = a
      /\ \A i \in Jobs \ {j} : archive'[i] = archive[i]
  BY <1>1
<1>4. Done \subseteq Done'
  BY <1>1, <1>2, <1>3 DEF Done
<1>5. Sound(db', Done', Unasked) /\ Sound(a.tables, Done', Unasked)
  BY <1>4, SoundLasts DEF IInv, Files
<1>. QED
  BY <1>2, <1>3, <1>4, <1>5, BackupGoes

LEMMA DoneLasts ==
    ASSUME IInv, NEW j \in Jobs, NEW to \in BackupPlaces, at' = [at EXCEPT ![j] = to],
           at[j] = "cleanup" => to = "ended", at[j] \notin {"ended", "dead"}, UNCHANGED archive
    PROVE  Done \subseteq Done'
  BY DEF IInv, TypeOK, Done

LEMMA BackupInv == ASSUME IInv, NEW j \in Jobs, RunBackup(j) PROVE IInv'
<1>1. /\ Sound(db, Done, Unasked) /\ db \in Tables /\ UNCHANGED <<rat, ask, did>>
      /\ {"running", "checked", "dump", "copy", "register", "cleanup", "ended"} \subseteq BackupPlaces
      /\ {"RUNNING", "COMPLETED", "FAILED"} \subseteq BackupStatus
  BY DEF IInv, TypeOK, Files, RunBackup, BackupPlaces, BackupStatus
<1>2. CASE BeginBackup(j)
  <2>1. /\ at' = [at EXCEPT ![j] = "running"] /\ at[j] = "pending"
        /\ db' = [db EXCEPT !.jobs[j] = "RUNNING"] /\ UNCHANGED <<archive, media>>
    BY <1>2 DEF BeginBackup, Move
  <2>2. j \notin Unasked /\ Done \subseteq Done'
    BY <1>1, <2>1, DoneLasts DEF IInv, Asked, Unasked
  <2>3. Sound(db', Done', Unasked)
    BY <1>1, <2>1, <2>2, SoundJobRow, SoundLasts
  <2>. QED
    BY <1>1, <2>1, <2>3, BackupMoves
<1>3. CASE LoseBackup(j) \/ CheckBackups(j) \/ CheckRestores(j) \/ CleanUp(j)
  <2>1. PICK to \in {"checked", "dump", "ended"} :
          /\ at' = [at EXCEPT ![j] = to] /\ at[j] \notin {"idle", "ended", "dead"}
          /\ at[j] = "cleanup" => to = "ended"
    BY <1>3 DEF LoseBackup, CheckBackups, CheckRestores, CleanUp, Move
  <2>2. UNCHANGED <<db, archive, media>>
    BY <1>3 DEF LoseBackup, CheckBackups, CheckRestores, CleanUp
  <2>3. Done \subseteq Done'
    BY <1>1, <2>1, <2>2, DoneLasts
  <2>4. Sound(db', Done', Unasked)
    BY <1>1, <2>2, <2>3, SoundLasts
  <2>. QED
    BY <1>1, <2>1, <2>2, <2>4, BackupMoves
<1>4. CASE Dump(j)
  <2> DEFINE a == [tables |-> db, media |-> FALSE]
  <2>1. /\ at' = [at EXCEPT ![j] = "copy"] /\ at[j] = "dump"
        /\ archive' = [archive EXCEPT ![j] = a] /\ UNCHANGED <<db, media>>
    BY <1>4 DEF Dump, Move
  <2>2. a \in Archive /\ a.tables = db
    BY <1>1 DEF Archive
  <2> HIDE DEF a
  <2>. QED
    BY <1>1, <2>1, <2>2, BackupWrites
<1>5. CASE Pack(j)
  <2> DEFINE a == [archive[j] EXCEPT !.media = media]
  <2>1. /\ at' = [at EXCEPT ![j] = "register"] /\ at[j] = "copy"
        /\ archive' = [archive EXCEPT ![j] = a] /\ UNCHANGED <<db, media>>
    BY <1>5 DEF Pack, Move
  <2>2. archive[j] \in Archive /\ Sound(archive[j].tables, Done, Unasked)
    BY <2>1 DEF IInv, Files
  <2>3. a \in Archive /\ a.tables = archive[j].tables
    BY <2>2 DEF Archive, IInv, TypeOK
  <2> HIDE DEF a
  <2>. QED
    BY <1>1, <2>1, <2>2, <2>3, BackupWrites
<1>6. CASE Register(j)
  <2>1. /\ at' = [at EXCEPT ![j] = "cleanup"] /\ at[j] = "register"
        /\ db' = Registered(db, j)
        /\ UNCHANGED <<archive, media>>
    BY <1>6 DEF Register, Move, Registered
  <2>2. archive[j] \in Archive
    BY <2>1 DEF IInv, Files
  <2>3. Done \subseteq Done' /\ j \in Done'
    BY <1>1, <2>1, <2>2, DoneLasts DEF Done, IInv, TypeOK
  <2>4. db \in Tables /\ db' \in Tables /\ db'.restores = db.restores
        /\ db'.jobs = [db.jobs EXCEPT ![j] = "COMPLETED"]
        /\ db'.ids = [db.ids EXCEPT ![j] = db.nextId]
    BY <1>1, <2>1, RegisteredRow
  <2>5. db.jobs \in [Jobs -> BackupStatus] /\ db.ids \in [Jobs -> Nat]
    BY <1>1 DEF Tables
  <2>6. Sound(db', Done', Unasked)
    BY <1>1, <2>3, <2>4, <2>5 DEF Sound
  <2>. QED
    BY <1>1, <2>1, <2>2, <2>6, BackupMoves
<1>7. CASE FailBackup(j)
  <2>1. /\ at' = [at EXCEPT ![j] = "ended"] /\ at[j] \notin {"idle", "ended", "dead"}
        /\ db' = [db EXCEPT !.jobs[j] = "FAILED"] /\ UNCHANGED <<archive, media>>
    BY <1>7 DEF FailBackup, Move
  <2>2. Done \subseteq Done'
    BY <1>1, <2>1, DoneLasts
  <2>3. Sound(db', Done', Unasked)
    BY <1>1, <2>1, <2>2, SoundJobRow, SoundLasts
  <2>. QED
    BY <1>1, <2>1, <2>3, BackupMoves
<1>. QED
  BY <1>2, <1>3, <1>4, <1>5, <1>6, <1>7 DEF RunBackup, Backup

LEMMA StartBackupInv ==
    ASSUME IInv, NEW j \in Backups, StartBackup(j), UNCHANGED <<rat, ask, did>> PROVE IInv'
<1>1. /\ at' = [at EXCEPT ![j] = "pending"] /\ at[j] = "idle" /\ j \in Jobs
      /\ db' = [db EXCEPT !.jobs[j] = "PENDING"] /\ UNCHANGED <<archive, media>>
      /\ "pending" \in BackupPlaces /\ "PENDING" \in BackupStatus
  BY DEF StartBackup, Enqueue, Move, Jobs, BackupPlaces, BackupStatus
<1>2. Done \subseteq Done'
  BY <1>1, DoneLasts
<1>3. Sound(db', Done', Unasked)
  BY <1>1, <1>2, SoundJobRow, SoundLasts DEF IInv, Files
<1>. QED
  BY <1>1, <1>3, BackupMoves, BackupAssumption DEF Unasked

-----------------------------------------------------------------------------
(* The rows and files are there: restores *)

LEMMA RestoreGoes ==
    ASSUME IInv, NEW r \in Restores, NEW to \in RestorePlaces, rat' = [rat EXCEPT ![r] = to],
           to # "idle", rat[r] # "idle", UNCHANGED <<archive, at, ask>>,
           media' \in BOOLEAN, did' \in [Restores -> Dids], Sound(db', Done, Unasked),
           to \in Replacing => ask[r].database,
           ask[r].database /\ to \in Safe => r \in Done
    PROVE  IInv'
<1>1. Done' = Done
  BY DEF Done
<1>2. Unasked' = Unasked /\ \A s \in Restores : rat'[s] = IF s = r THEN to ELSE rat[s]
  BY DEF IInv, TypeOK, Unasked
<1>3. Files'
  BY <1>1, <1>2 DEF IInv, Files
<1>4. TypeOK'
  <2>1. db' \in Tables
    BY DEF Sound
  <2>2. rat \in [Restores -> RestorePlaces]
    BY DEF IInv, TypeOK, RestorePlaces
  <2>. QED
    BY <2>1, <2>2 DEF IInv, TypeOK, Dids, RestorePlaces
<1>5. \A s \in Restores : Asked(s)'
  BY <1>1, <1>2 DEF IInv, Asked
<1>. QED
  BY <1>3, <1>4, <1>5 DEF IInv

LEMMA Facts ==
    ASSUME IInv, NEW r \in Restores
    PROVE  /\ Sound(db, Done, Unasked) /\ db \in Tables /\ Asked(r)
           /\ media \in BOOLEAN /\ did \in [Restores -> Dids]
           /\ r \in Jobs /\ (rat[r] # "idle" => r \notin Unasked)
           /\ \A j \in Done : archive[j] \in Archive /\ Sound(archive[j].tables, Done, Unasked)
  BY DEF IInv, TypeOK, Files, Dids, Jobs, Unasked, Done

LEMMA MarkSound ==
    ASSUME IInv, NEW r \in Restores, NEW s \in RestoreStatus, rat[r] # "idle",
           Mark(r, s) \/ Record(r, s)
    PROVE  Sound(db', Done, Unasked)
<1>1. Sound(db, Done, Unasked) /\ r \notin Unasked
  BY Facts
<1>2. db' = db \/ db' = [db EXCEPT !.restores[r] = s]
  BY DEF Mark, Record
<1>. QED
  BY <1>1, <1>2, SoundRestoreRow

\* Steps that write nothing in the tables.
LEMMA QuietInv ==
    ASSUME IInv, NEW r \in Restores,
           \/ Validate(r) \/ SafetyDone(r) \/ Extract(r) \/ RecreateFails(r)
           \/ SkipMedia(r) \/ CopyMedia(r) \/ RestoreConfig(r) \/ RollbackMedia(r)
    PROVE  IInv'
<1>1. PICK to \in RestorePlaces \ {"idle"} : rat' = [rat EXCEPT ![r] = to] /\ rat[r] # "idle" /\
        \/ rat[r] = "validate" /\ to = IF ask[r].database THEN "safety" ELSE "extract"
        \/ rat[r] = "wait" /\ to = "extract" /\ db.jobs[r] = "COMPLETED"
        \/ rat[r] = "extract" /\ to = IF ask[r].database THEN "psql" ELSE "media"
        \/ rat[r] = "recreate" /\ to = "rollback"
        \/ rat[r] = "media" /\ to = "config"
        \/ rat[r] = "config" /\ to = "finish"
        \/ rat[r] = "rollbackMedia" /\ to = "record"
  BY DEF Validate, SafetyDone, Extract, RecreateFails, SkipMedia, CopyMedia, RestoreConfig,
         RollbackMedia, Go, RestorePlaces
<1>2. UNCHANGED <<db, archive, at, ask>>
  BY DEF Validate, SafetyDone, Extract, RecreateFails, SkipMedia, CopyMedia, RestoreConfig,
         RollbackMedia
<1>3. to \in Replacing => ask[r].database
  BY <1>1, Facts DEF Asked, Replacing
<1>4. ask[r].database /\ to \in Safe => r \in Done
  BY <1>1, Facts DEF Asked, Safe, Sound, Replacing, RestorePlaces
<1>5. did' \in [Restores -> Dids]
  <2>1. did \in [Restores -> Dids] /\ db.ids[r] \in Nat
    BY Facts DEF Tables
  <2>2. \/ did' = did
        \/ did' = [did EXCEPT ![r].safetyId = db.ids[r]]
        \/ did' = [did EXCEPT ![r].media = TRUE]
        \/ \E failed \in BOOLEAN : did' = [did EXCEPT ![r].configFailed = failed]
    BY DEF Validate, SafetyDone, Extract, RecreateFails, SkipMedia, CopyMedia, RestoreConfig,
           RollbackMedia
  <2>3. /\ [did[r] EXCEPT !.safetyId = db.ids[r]] \in Dids
        /\ [did[r] EXCEPT !.media = TRUE] \in Dids
        /\ \A failed \in BOOLEAN : [did[r] EXCEPT !.configFailed = failed] \in Dids
    BY <2>1 DEF Dids
  <2>4. \E d \in Dids : did' = [did EXCEPT ![r] = d]
    BY <2>1, <2>2, <2>3
  <2>. QED
    BY <2>1, <2>4
<1>6. media' \in BOOLEAN
  <2>1. CASE CopyMedia(r)
    <3>1. rat[r] = "media" /\ media' \in {archive[ask[r].target].media, FALSE}
      BY <2>1 DEF CopyMedia, Go
    <3>2. archive[ask[r].target] \in Archive
      BY <3>1, Facts DEF Asked
    <3>. QED
      BY <3>1, <3>2 DEF Archive
  <2>2. CASE RollbackMedia(r)
    <3>1. rat[r] = "rollbackMedia" /\ (media' = archive[r].media \/ media' = media)
      BY <2>2 DEF RollbackMedia, Go
    <3>2. r \in Done
      BY <3>1, Facts DEF Asked, Replacing, Safe, RestorePlaces
    <3>3. archive[r] \in Archive /\ media \in BOOLEAN
      BY <3>2, Facts
    <3>. QED
      BY <3>1, <3>3 DEF Archive
  <2>3. CASE ~CopyMedia(r) /\ ~RollbackMedia(r)
    BY <2>3, Facts DEF Validate, SafetyDone, Extract, RecreateFails, SkipMedia, RestoreConfig
  <2>. QED
    BY <2>1, <2>2, <2>3
<1>. QED
  BY <1>1, <1>2, <1>3, <1>4, <1>5, <1>6, Facts, RestoreGoes

\* Steps that write the row of the restore itself.
LEMMA MarkInv ==
    ASSUME IInv, NEW r \in Restores,
           \/ BeginRestore(r) \/ SafetyMissed(r) \/ FailEarly(r) \/ ReregisterFails(r)
           \/ Recreate(r) \/ Complete(r) \/ FailLate(r) \/ RecordRollback(r)
    PROVE  IInv'
<1>1. PICK to \in RestorePlaces \ {"idle"} : rat' = [rat EXCEPT ![r] = to] /\ rat[r] # "idle" /\
        \/ rat[r] = "pending" /\ to = "validate"
        \/ to = "failed"
        \/ rat[r] = "reregister" /\ to = "rollback"
        \/ rat[r] = "recreate" /\ to = "media"
        \/ rat[r] = "finish" /\ to = "completed"
        \/ rat[r] \in {"config", "finish"} /\ to = "rollback"
        \/ rat[r] = "record" /\ to = "rolledBack"
  BY DEF BeginRestore, SafetyMissed, FailEarly, ReregisterFails, Recreate, Complete, FailLate,
         RecordRollback, Go, RestorePlaces, Over
<1>2. UNCHANGED <<archive, media, at, ask, did>>
  BY DEF BeginRestore, SafetyMissed, FailEarly, ReregisterFails, Recreate, Complete, FailLate,
         RecordRollback
<1>3. to \in Replacing => ask[r].database
  BY <1>1 DEF Replacing
<1>4. ask[r].database /\ to \in Safe => r \in Done
  BY <1>1, Facts DEF Asked, Safe, Replacing, RestorePlaces
<1>5. Sound(db', Done, Unasked)
  <2>1. db' = db \/ \E s \in RestoreStatus : Mark(r, s) \/ Record(r, s)
    BY DEF BeginRestore, SafetyMissed, FailEarly, ReregisterFails, Recreate, Complete, FailLate,
           RecordRollback, RestoreStatus, BackupStatus
  <2>. QED
    BY <1>1, <2>1, Facts, MarkSound
<1>. QED
  BY <1>1, <1>2, <1>3, <1>4, <1>5, Facts, RestoreGoes

\* Steps that write the tables: with those of an archive, or the rows of the jobs.
LEMMA ReplaceInv ==
    ASSUME IInv, NEW r \in Restores,
           \/ PsqlDone(r) \/ PsqlFails(r) \/ Clean(r) \/ Reregister(r)
           \/ RollbackDatabase(r) \/ RollbackClean(r) \/ RollbackFails(r)
    PROVE  IInv'
<1>1. PICK to \in RestorePlaces \ {"idle"} : rat' = [rat EXCEPT ![r] = to] /\ rat[r] # "idle" /\
        \/ rat[r] = "psql" /\ to \in {"clean", "rollback", "abandoned"}
        \/ rat[r] = "clean" /\ to = "reregister"
        \/ rat[r] = "reregister" /\ to = "recreate"
        \/ rat[r] = "rollback" /\ ask[r].database /\ to = "rollbackClean"
        \/ rat[r] = "rollbackClean" /\ to = "rollbackMedia"
        \/ rat[r] \in {"rollback", "rollbackClean", "rollbackMedia", "record"} /\ to = "critical"
  BY DEF PsqlDone, PsqlFails, Clean, Reregister, RollbackDatabase, RollbackClean, RollbackFails,
         Go, RestorePlaces, Over
<1>2. UNCHANGED <<archive, media, at, ask, did>>
  BY DEF PsqlDone, PsqlFails, Clean, Reregister, RollbackDatabase, RollbackClean, RollbackFails
<1>3. to \in Replacing => ask[r].database
  BY <1>1, Facts DEF Asked, Replacing
<1>4. ask[r].database /\ to \in Safe => r \in Done
  BY <1>1, Facts DEF Asked, Safe, Replacing, RestorePlaces
<1>5. /\ Sound(archive[ask[r].target].tables, Done, Unasked)
      /\ ask[r].database /\ rat[r] \in Safe =>
            r \in Done /\ Sound(archive[r].tables, Done, Unasked)
  BY <1>1, Facts DEF Asked
<1>6. r \notin Unasked /\ r \in Jobs /\ Sound(db, Done, Unasked) /\ db \in Tables
  BY <1>1, Facts
<1>7. Sound(db', Done, Unasked)
  <2>1. CASE PsqlDone(r)
    BY <1>5, <2>1 DEF PsqlDone
  <2>2. CASE PsqlFails(r)
    <3>1. PICK part \in PartOf(archive[ask[r].target].tables) :
            db' = part \/ db' = [part EXCEPT !.restores[r] = "FAILED"]
      BY <2>2 DEF PsqlFails
    <3>2. Sound(part, Done, Unasked)
      BY <1>5, <1>6, SoundPart
    <3>3. "FAILED" \in RestoreStatus
      BY DEF RestoreStatus, BackupStatus
    <3>4. Sound([part EXCEPT !.restores[r] = "FAILED"], Done, Unasked)
      BY <3>2, <3>3, SoundRestoreRow
    <3>. QED
      BY <3>1, <3>2, <3>4
  <2>3. CASE Clean(r)
    <3>1. db' = [db EXCEPT !.jobs = Stopped(db.jobs), !.restores = Stopped(db.restores)]
      BY <2>3 DEF Clean
    <3> DEFINE jobs == Stopped(db.jobs)
               restores == Stopped(db.restores)
    <3>2. db.jobs \in [Jobs -> BackupStatus] /\ db.restores \in [Restores -> RestoreStatus]
      BY <1>6 DEF Tables
    <3>3. "FAILED" \in BackupStatus /\ "FAILED" \in RestoreStatus
      BY DEF BackupStatus, RestoreStatus
    <3>4. /\ jobs \in [Jobs -> BackupStatus]
          /\ \A j \in Jobs : jobs[j] = IF db.jobs[j] = "RUNNING" THEN "FAILED" ELSE db.jobs[j]
      BY <3>2, <3>3, StoppedStatus
    <3>5. /\ restores \in [Restores -> RestoreStatus]
          /\ \A q \in Restores :
                restores[q] = IF db.restores[q] = "RUNNING" THEN "FAILED" ELSE db.restores[q]
      BY <3>2, <3>3, StoppedStatus
    <3>6. db' = [db EXCEPT !.jobs = jobs, !.restores = restores]
      BY <3>1
    <3> HIDE DEF jobs, restores
    <3>7. /\ db' \in Tables /\ db'.ids = db.ids
          /\ db'.jobs = jobs /\ db'.restores = restores
      BY <1>6, <3>4, <3>5, <3>6 DEF Tables
    <3>. QED
      BY <1>6, <3>4, <3>5, <3>7 DEF Sound, Unasked, Jobs
  <2>4. CASE Reregister(r)
    <3>1. db' = db \/ db' = WithInstance(db, r)
      BY <2>4 DEF Reregister, WithInstance
    <3>2. r \in Done
      BY <2>4, Facts DEF Asked, Replacing, Safe, RestorePlaces, Reregister, Go
    <3>3. db.ids \in [Jobs -> Nat]
      BY <1>6 DEF Tables
    <3>4. CASE db' = db
      BY <1>6, <3>4
    <3>5. CASE db' = WithInstance(db, r)
      <4>1. /\ db' \in Tables /\ db'.ids = [db.ids EXCEPT ![r] = db.nextId]
            /\ db'.jobs = db.jobs /\ db'.restores = db.restores
        BY <1>6, <3>5, InstanceRow
      <4>. QED
        BY <1>6, <3>2, <3>3, <4>1 DEF Sound
    <3>. QED
      BY <3>1, <3>4, <3>5
  <2>5. CASE RollbackDatabase(r)
    BY <1>5, <2>5 DEF RollbackDatabase, Go, Safe, RestorePlaces
  <2>6. CASE RollbackClean(r)
    <3>1. db' = db \/ db' = [db EXCEPT !.jobs[r] = "FAILED"]
      BY <2>6 DEF RollbackClean
    <3>2. Sound([db EXCEPT !.jobs[r] = "FAILED"], Done, Unasked)
      BY <1>6, SoundJobRow DEF BackupStatus
    <3>. QED
      BY <1>6, <3>1, <3>2
  <2>7. CASE RollbackFails(r)
    <3>1. PICK part : /\ db' = [part EXCEPT !.restores[r] = "CRITICAL_FAILURE"]
                      /\ \/ part = db
                         \/ /\ rat[r] = "rollback" /\ ask[r].database
                            /\ part \in PartOf(archive[r].tables)
      BY <2>7 DEF RollbackFails, Record, Go
    <3>2. Sound(part, Done, Unasked)
      BY <1>5, <1>6, <3>1, SoundPart DEF Safe, RestorePlaces
    <3>. QED
      BY <1>6, <3>1, <3>2, SoundRestoreRow DEF RestoreStatus, BackupStatus
  <2>. QED
    BY <2>1, <2>2, <2>3, <2>4, <2>5, <2>6, <2>7
<1>. QED
  BY <1>1, <1>2, <1>3, <1>4, <1>7, Facts, RestoreGoes

LEMMA AskSafetyInv == ASSUME IInv, NEW r \in Restores, AskSafety(r) PROVE IInv'
<1>1. /\ rat' = [rat EXCEPT ![r] = "wait"] /\ rat[r] = "safety" /\ at[r] = "idle" /\ r \in Jobs
      /\ at' = [at EXCEPT ![r] = "pending"] /\ UNCHANGED <<archive, media, ask, did>>
  BY DEF AskSafety, Enqueue, Move, Go, Jobs
<1>2. Done \subseteq Done' /\ Unasked' = Unasked
  BY <1>1 DEF IInv, TypeOK, Done, Unasked
<1>3. Sound(db', Done', Unasked')
  <2>1. db' = [db EXCEPT !.jobs[r] = "PENDING"] /\ Sound(db, Done, Unasked)
    BY DEF AskSafety, Enqueue, IInv, Files
  <2>2. Sound(db', Done, Unasked)
    BY <1>1, <2>1, SoundJobRow DEF BackupStatus
  <2>. QED
    BY <1>2, <2>2, SoundLasts
<1>4. TypeOK'
  BY <1>1, <1>3 DEF IInv, TypeOK, Sound
<1>5. Files'
  <2>1. \A j \in Jobs : archive[j] \in Archive => Sound(archive[j].tables, Done', Unasked')
    BY <1>2, SoundLasts DEF IInv, Files
  <2>. QED
    BY <1>1, <1>3, <2>1 DEF IInv, TypeOK, Files
<1>6. \A s \in Restores : Asked(s)'
  <2>1. \A s \in Restores : rat'[s] = (IF s = r THEN "wait" ELSE rat[s]) /\ (s # r => at'[s] = at[s])
    BY <1>1 DEF IInv, TypeOK, Jobs
  <2>. QED
    BY <1>1, <1>2, <2>1 DEF IInv, Asked, Replacing, Safe
<1>. QED
  BY <1>4, <1>5, <1>6 DEF IInv

LEMMA StartRestoreInv ==
    ASSUME IInv, NEW r \in Restores, NEW target \in Jobs, NEW options \in Options,
           StartRestore(r, target, options)
    PROVE  IInv'
<1> DEFINE a == [target |-> target, database |-> options.database,
                 media |-> options.media, config |-> options.config]
<1>1. /\ rat' = [rat EXCEPT ![r] = "pending"] /\ rat[r] = "idle" /\ db.ids[target] # 0
      /\ db' = [db EXCEPT !.restores[r] = "PENDING"] /\ ask' = [ask EXCEPT ![r] = a]
      /\ UNCHANGED <<archive, media, at, did>>
  BY DEF StartRestore, Record, Go
<1>2. Done' = Done /\ Unasked' \subseteq Unasked /\ r \in Jobs
  BY <1>1 DEF IInv, TypeOK, Done, Unasked, Jobs
<1>3. a \in Asks /\ a.target = target /\ target \in Done
  <2>1. options \in [database : BOOLEAN, media : BOOLEAN, config : BOOLEAN]
    BY OptionsAssumption
  <2>. QED
    BY <1>1, <2>1 DEF Asks, IInv, Files, Sound
<1> HIDE DEF a
<1>4. Sound(db', Done', Unasked')
  <2>1. Sound(db', Done, Unasked)
    BY <1>1, Facts, SoundRestoreRow DEF RestoreStatus, BackupStatus
  <2>. QED
    BY <1>2, <2>1, SoundLasts
<1>5. TypeOK'
  BY <1>1, <1>3, <1>4 DEF IInv, TypeOK, Sound, Asks
<1>6. Files'
  <2>1. \A j \in Jobs : archive[j] \in Archive => Sound(archive[j].tables, Done', Unasked')
    BY <1>2, SoundLasts DEF IInv, Files
  <2>. QED
    BY <1>1, <1>4, <2>1 DEF IInv, Files
<1>7. \A s \in Restores : Asked(s)'
  <2>1. \A s \in Restores : /\ rat'[s] = IF s = r THEN "pending" ELSE rat[s]
                            /\ ask'[s] = IF s = r THEN a ELSE ask[s]
    BY <1>1 DEF IInv, TypeOK
  <2>. QED
    BY <1>1, <1>2, <1>3, <2>1 DEF IInv, Asked, Replacing, Safe
<1>. QED
  BY <1>5, <1>6, <1>7 DEF IInv

LEMMA CrashInv == ASSUME IInv, Crash PROVE IInv'
<1>1. /\ \A j \in Jobs : at'[j] = IF at[j] \in {"idle", "ended"} THEN at[j] ELSE "dead"
      /\ \A r \in Restores : rat'[r] = IF rat[r] \in Over THEN rat[r] ELSE "dead"
      /\ db' = db \/ db' = [db EXCEPT !.whole = FALSE]
      /\ media' \in {media, FALSE} /\ UNCHANGED <<archive, ask, did>>
  BY DEF Crash
<1>2. Done \subseteq Done' /\ Unasked' = Unasked
  BY <1>1 DEF Done, Unasked, Over
<1>3. Sound(db', Done', Unasked')
  <2>1. Sound(db, Done', Unasked) /\ db \in Tables
    BY <1>2, SoundLasts DEF IInv, TypeOK, Files
  <2>. QED
    BY <1>1, <1>2, <2>1, BrokenRow DEF Sound
<1>4. TypeOK'
  <2>1. /\ at' = [j \in Jobs |-> IF at[j] \in {"idle", "ended"} THEN at[j] ELSE "dead"]
        /\ rat' = [r \in Restores |-> IF rat[r] \in Over THEN rat[r] ELSE "dead"]
    BY DEF Crash
  <2>. QED
    BY <1>1, <1>3, <2>1 DEF IInv, TypeOK, Sound, Over
<1>5. Files'
  <2>1. \A j \in Jobs : archive[j] \in Archive => Sound(archive[j].tables, Done', Unasked')
    BY <1>2, SoundLasts DEF IInv, Files
  <2>. QED
    BY <1>1, <1>3, <2>1 DEF Files
<1>6. \A r \in Restores : Asked(r)'
  <2> SUFFICES ASSUME NEW r \in Restores PROVE Asked(r)'
    OBVIOUS
  <2>1. Asked(r) /\ r \in Jobs /\ rat'[r] \in {rat[r], "dead"} /\ (rat[r] = "idle" <=> rat'[r] = "idle")
    BY <1>1 DEF IInv, Jobs, Over
  <2>. QED
    BY <1>1, <1>2, <2>1 DEF Asked, Replacing, Safe
<1>. QED
  BY <1>4, <1>5, <1>6 DEF IInv

LEMMA NextInv == IInv /\ [Next]_vars => IInv'
<1> SUFFICES ASSUME IInv, [Next]_vars PROVE IInv'
  OBVIOUS
<1>1. ASSUME NEW r \in Restores, Restore(r) PROVE IInv'
  BY <1>1, QuietInv, MarkInv, ReplaceInv, AskSafetyInv DEF Restore
<1>2. CASE UNCHANGED vars
  <2>1. Done' = Done /\ Unasked' = Unasked
    BY <1>2 DEF vars, Done, Unasked
  <2>2. TypeOK'
    BY <1>2 DEF vars, IInv, TypeOK
  <2>3. Files' /\ \A r \in Restores : Asked(r)'
    BY <1>2, <2>1 DEF vars, IInv, Files, Asked
  <2>. QED
    BY <2>2, <2>3 DEF IInv
<1>. QED
  BY <1>1, <1>2, BackupInv, StartBackupInv, StartRestoreInv, CrashInv DEF Next

THEOREM Invariance == Spec => []IInv
<1>. QED
  BY InitInv, NextInv, PTL DEF Spec

\* The columns hold values of their enums, in the live database and in every dump.
THEOREM BackupTypes == Spec => []TypeOK
<1>1. IInv => TypeOK
  BY DEF IInv
<1>. QED
  BY <1>1, Invariance, PTL

-----------------------------------------------------------------------------
(* As long as no restore has put other rows in their place, the rows tell the *)
(* pipelines of one another.                                                  *)

Working == {"running", "checked", "dump", "copy", "register"}
Past == {"checked", "dump", "copy", "register"}

Rows == /\ \A j \in Jobs : at[j] \in Working => db.jobs[j] = "RUNNING"
        /\ \A r \in Restores : rat[r] \in {"validate", "safety", "wait", "extract", "psql"} =>
              db.restores[r] = "RUNNING"
OneChecked == \A i, j \in Jobs : at[i] \in Past /\ at[j] \in Past => i = j

\* Before it asks for its safety backup a restore sees that no backup runs, and
\* from then on its own row holds up the others.
Quiet == \A r \in Restores : rat[r] \in {"wait", "extract", "psql"} /\ ask[r].database =>
            \A j \in Backups : ~Dumping(j)

Kept == ~Replaced => Rows /\ OneChecked /\ Quiet

LEMMA InitKept == Init => Kept
  BY DEF Init, BackupInit, Kept, Rows, OneChecked, Quiet, Working, Past, Dumping

LEMMA BackupKept ==
    ASSUME IInv, Kept, NEW j \in Jobs, UNCHANGED <<rat, ask, did>>,
           Backup(j) \/ (StartBackup(j) /\ j \in Backups)
    PROVE  Kept'
<1> SUFFICES ASSUME ~Replaced PROVE Rows' /\ OneChecked' /\ Quiet'
  BY DEF Kept, Replaced
<1>1. Rows /\ OneChecked /\ Quiet
  BY DEF Kept
<1>2. PICK to \in BackupPlaces : at' = [at EXCEPT ![j] = to]
  BY DEF Backup, StartBackup, Enqueue, BeginBackup, LoseBackup, CheckBackups, CheckRestores, Dump,
         Pack, Register, CleanUp, FailBackup, Move, BackupPlaces
<1>3. at \in [Jobs -> BackupPlaces] /\ db \in Tables /\ db.jobs \in [Jobs -> BackupStatus]
      /\ db.restores \in [Restores -> RestoreStatus]
  BY DEF IInv, TypeOK, BackupPlaces, Tables
<1>4. \A i \in Jobs : at'[i] = IF i = j THEN to ELSE at[i]
  BY <1>2, <1>3
<1>5. /\ db'.restores = db.restores
      /\ \A i \in Jobs \ {j} : db'.jobs[i] = db.jobs[i]
      /\ to \in Working => db'.jobs[j] = "RUNNING"
  <2>1. CASE BeginBackup(j)
    BY <1>3, <2>1, JobRow DEF BeginBackup, BackupStatus
  <2>2. CASE UNCHANGED db /\ (to \in Working => at[j] \in Working)
    BY <1>1, <2>2 DEF Rows
  <2>3. CASE Register(j)
    <3>1. /\ at' = [at EXCEPT ![j] = "cleanup"]
          /\ db' = Registered(db, j)
      BY <2>3 DEF Register, Move, Registered
    <3>2. db \in Tables
      BY <1>3
    <3>3. db'.restores = db.restores /\ db'.jobs = [db.jobs EXCEPT ![j] = "COMPLETED"]
      BY <3>1, <3>2, RegisteredRow
    <3>. QED
      BY <1>3, <1>4, <3>1, <3>3 DEF Working
  <2>4. CASE FailBackup(j)
    BY <1>2, <1>3, <2>4, JobRow DEF FailBackup, Move, Working, BackupStatus
  <2>5. CASE StartBackup(j)
    BY <1>2, <1>3, <2>5, JobRow DEF StartBackup, Enqueue, Move, Working, BackupStatus
  <2>6. CASE LoseBackup(j) \/ CheckBackups(j) \/ CheckRestores(j) \/ Dump(j) \/ Pack(j) \/ CleanUp(j)
    BY <1>2, <1>3, <2>2, <2>6
       DEF LoseBackup, CheckBackups, CheckRestores, Dump, Pack, CleanUp, Move, Working
  <2>. QED
    BY <2>1, <2>3, <2>4, <2>5, <2>6 DEF Backup
<1>6. Rows'
  BY <1>1, <1>4, <1>5 DEF Rows
<1>7. to \in Past => at[j] \in Past \/ \A i \in Jobs \ {j} : at[i] \notin Past
  <2>1. CASE CheckBackups(j)
    BY <1>1, <2>1 DEF CheckBackups, Rows, Working, Past
  <2>2. CASE ~CheckBackups(j)
    BY <1>2, <1>3, <2>2
       DEF Backup, StartBackup, Enqueue, BeginBackup, LoseBackup, CheckRestores, Dump,
           Pack, Register, CleanUp, FailBackup, Move, Past
  <2>. QED
    BY <2>1, <2>2
<1>8. OneChecked'
  BY <1>1, <1>4, <1>7 DEF OneChecked
<1>9. Quiet'
  <2> SUFFICES ASSUME NEW r \in Restores, rat[r] \in {"wait", "extract", "psql"}, ask[r].database,
                      NEW i \in Backups, Dumping(i)'
               PROVE  FALSE
    BY DEF Quiet, Dumping
  <2>1. ~Dumping(i) /\ i \in Jobs /\ db.restores[r] = "RUNNING"
    BY <1>1 DEF Quiet, Rows, Jobs
  <2>2. i = j /\ to \in {"dump", "copy", "register"} /\ at[j] \notin {"dump", "copy", "register"}
    BY <1>4, <2>1 DEF Dumping
  <2>3. CheckRestores(j)
    BY <1>2, <1>3, <2>2 DEF Backup, StartBackup, Enqueue, BeginBackup, LoseBackup, CheckBackups,
           Dump, Pack, Register, CleanUp, FailBackup, Move
  <2>. QED
    BY <2>1, <2>2, <2>3, BackupAssumption DEF CheckRestores, NoRestoreRuns
<1>. QED
  BY <1>6, <1>8, <1>9

\* What a restore does while no restore has replaced the rows.
LEMMA RestoreRows ==
    ASSUME IInv, NEW r \in Restores, Restore(r), ~Replaced'
    PROVE  /\ ~Replaced /\ UNCHANGED ask
           /\ \A s \in Restores \ {r} : rat'[s] = rat[s] /\ db'.restores[s] = db.restores[s]
           /\ AskSafety(r) \/ (UNCHANGED at /\ db'.jobs = db.jobs)
           /\ rat'[r] \in {"validate", "safety", "wait", "extract", "psql"} =>
                 \/ db'.restores[r] = "RUNNING"
                 \/ /\ rat[r] \in {"validate", "safety", "wait", "extract", "psql"}
                    /\ db'.restores[r] = db.restores[r]
           /\ rat'[r] \in {"wait", "extract", "psql"} /\ ask[r].database =>
                 AskSafety(r) \/ rat[r] \in {"wait", "extract", "psql"}
<1> DEFINE ready == {"validate", "safety", "wait", "extract", "psql"}
<1>1. /\ rat \in [Restores -> RestorePlaces] /\ db \in Tables /\ db.jobs \in [Jobs -> BackupStatus]
      /\ db.restores \in [Restores -> RestoreStatus] /\ Asked(r)
  BY DEF IInv, TypeOK, RestorePlaces, Tables
<1>2. UNCHANGED ask
  BY DEF Restore, BeginRestore, Validate, AskSafety, SafetyDone, SafetyMissed, Extract, FailEarly,
         PsqlDone, PsqlFails, Clean, Reregister, ReregisterFails, Recreate, RecreateFails, SkipMedia,
         CopyMedia, RestoreConfig, Complete, FailLate, RollbackDatabase, RollbackClean,
         RollbackMedia, RecordRollback, RollbackFails
<1>3. PICK to \in RestorePlaces : rat' = [rat EXCEPT ![r] = to] /\ rat[r] # "idle"
  BY DEF Restore, BeginRestore, Validate, AskSafety, SafetyDone, SafetyMissed, Extract, FailEarly,
         PsqlDone, PsqlFails, Clean, Reregister, ReregisterFails, Recreate, RecreateFails, SkipMedia,
         CopyMedia, RestoreConfig, Complete, FailLate, RollbackDatabase, RollbackClean,
         RollbackMedia, RecordRollback, RollbackFails, Go, RestorePlaces, Over
<1>4. \A s \in Restores : rat'[s] = IF s = r THEN to ELSE rat[s]
  BY <1>1, <1>3
<1>5. ask[r].database => to \in Early \cup {"dead"}
  BY <1>2, <1>4 DEF Replaced
<1> DEFINE Goal == /\ ask[r].database => rat[r] \in Early \cup {"dead"}
                   /\ \A s \in Restores \ {r} : db'.restores[s] = db.restores[s]
                   /\ AskSafety(r) \/ (UNCHANGED at /\ db'.jobs = db.jobs)
                   /\ to \in ready => \/ db'.restores[r] = "RUNNING"
                                      \/ rat[r] \in ready /\ db'.restores[r] = db.restores[r]
                   /\ to \in {"wait", "extract", "psql"} /\ ask[r].database =>
                         AskSafety(r) \/ rat[r] \in {"wait", "extract", "psql"}
<1>6. ASSUME \/ Validate(r) \/ SafetyDone(r) \/ Extract(r) \/ RecreateFails(r)
             \/ SkipMedia(r) \/ CopyMedia(r) \/ RestoreConfig(r) \/ RollbackMedia(r)
      PROVE  Goal
  <2>1. UNCHANGED <<db, at>>
    BY <1>6 DEF Validate, SafetyDone, Extract, RecreateFails, SkipMedia, CopyMedia, RestoreConfig,
                RollbackMedia
  <2>2. \/ rat[r] = "validate" /\ to = IF ask[r].database THEN "safety" ELSE "extract"
        \/ rat[r] = "wait" /\ to = "extract"
        \/ rat[r] = "extract" /\ to = IF ask[r].database THEN "psql" ELSE "media"
        \/ rat[r] = "recreate" /\ to = "rollback"
        \/ rat[r] = "media" /\ to = "config"
        \/ rat[r] = "config" /\ to = "finish"
        \/ rat[r] = "rollbackMedia" /\ to = "record"
    BY <1>1, <1>3, <1>4, <1>6 DEF Validate, SafetyDone, Extract, RecreateFails, SkipMedia,
       CopyMedia, RestoreConfig, RollbackMedia, Go
  <2>. QED
    BY <1>5, <2>1, <2>2 DEF Early
<1>7. ASSUME \/ BeginRestore(r) \/ SafetyMissed(r) \/ FailEarly(r) \/ ReregisterFails(r)
             \/ Recreate(r) \/ Complete(r) \/ FailLate(r) \/ RecordRollback(r)
      PROVE  Goal
  <2>1. /\ UNCHANGED at
        /\ db' = db \/ \E s \in RestoreStatus : db' = [db EXCEPT !.restores[r] = s]
    BY <1>7 DEF BeginRestore, SafetyMissed, FailEarly, ReregisterFails, Recreate, Complete,
       FailLate, RecordRollback, Mark, Record, RestoreStatus, BackupStatus
  <2>2. \/ rat[r] = "pending" /\ to = "validate" /\ db' = [db EXCEPT !.restores[r] = "RUNNING"]
        \/ rat[r] \in Early /\ to = "failed"
        \/ to \in RestorePlaces \ (Early \cup {"dead"})
        \/ to = "failed" /\ ~ask[r].database
    BY <1>1, <1>3, <1>4, <1>7 DEF BeginRestore, SafetyMissed, FailEarly, ReregisterFails, Recreate,
       Complete, FailLate, RecordRollback, Record, Touched, Go, RestorePlaces, Over, Early
  <2>3. db'.jobs = db.jobs /\ \A s \in Restores \ {r} : db'.restores[s] = db.restores[s]
    BY <1>1, <2>1, RestoreRow
  <2>4. rat[r] = "pending" /\ to = "validate" => db'.restores[r] = "RUNNING"
    BY <1>1, <2>2 DEF Early, Tables
  <2>. QED
    BY <1>5, <2>1, <2>2, <2>3, <2>4 DEF Early
<1>8. ASSUME \/ PsqlDone(r) \/ PsqlFails(r) \/ Clean(r) \/ Reregister(r)
             \/ RollbackDatabase(r) \/ RollbackClean(r) \/ RollbackFails(r)
      PROVE  Goal
  <2>1. UNCHANGED at
    BY <1>8 DEF PsqlDone, PsqlFails, Clean, Reregister, RollbackDatabase, RollbackClean,
                RollbackFails
  <2>2. /\ to \in {"clean", "rollback", "abandoned", "reregister", "recreate", "rollbackClean",
                   "rollbackMedia", "critical"}
        /\ rat[r] \in Replacing \/ ask[r].database \/ rat[r] = "rollback"
        /\ rat[r] \notin Replacing /\ ~ask[r].database => RollbackFails(r)
    BY <1>1, <1>3, <1>4, <1>8 DEF PsqlDone, PsqlFails, Clean, Reregister, RollbackDatabase,
       RollbackClean, RollbackFails, Go, Replacing
  <2>3. ~ask[r].database /\ rat[r] = "rollback" /\ RollbackFails(r)
    BY <1>1, <1>5, <2>2 DEF Asked, Early
  <2>4. db' = [db EXCEPT !.restores[r] = "CRITICAL_FAILURE"]
    BY <2>3 DEF RollbackFails, Go, Record
  <2>5. db'.jobs = db.jobs /\ \A s \in Restores \ {r} : db'.restores[s] = db.restores[s]
    BY <1>1, <2>4, RestoreRow DEF RestoreStatus
  <2>. QED
    BY <2>1, <2>2, <2>3, <2>5
<1>9. ASSUME AskSafety(r) PROVE Goal
  <2>1. db' = [db EXCEPT !.jobs[r] = "PENDING"] /\ rat[r] = "safety" /\ r \in Jobs
    BY <1>9 DEF AskSafety, Enqueue, Go, Jobs
  <2>2. db'.restores = db.restores
    BY <1>1, <2>1, JobRow DEF BackupStatus
  <2>. QED
    BY <1>9, <2>1, <2>2 DEF Early
<1>10. Goal
  BY <1>6, <1>7, <1>8, <1>9 DEF Restore
<1>11. ~Replaced
  BY <1>2, <1>4, <1>10 DEF Replaced
<1>. QED
  BY <1>2, <1>4, <1>10, <1>11

LEMMA RestoreKept == ASSUME IInv, Kept, NEW r \in Restores, Restore(r) PROVE Kept'
<1> SUFFICES ASSUME ~Replaced' PROVE Rows' /\ OneChecked' /\ Quiet'
  BY DEF Kept
<1>1. Rows /\ OneChecked /\ Quiet
  BY RestoreRows DEF Kept
<1>2. CASE UNCHANGED at /\ db'.jobs = db.jobs /\ ~AskSafety(r)
  <2>1. Rows'
    BY <1>1, <1>2, RestoreRows DEF Rows
  <2>2. OneChecked'
    BY <1>1, <1>2 DEF OneChecked
  <2>3. Quiet'
    BY <1>1, <1>2, RestoreRows DEF Quiet, Dumping
  <2>. QED
    BY <2>1, <2>2, <2>3
<1>3. CASE AskSafety(r)
  <2>1. /\ at' = [at EXCEPT ![r] = "pending"] /\ db' = [db EXCEPT !.jobs[r] = "PENDING"]
        /\ NoBackupRuns /\ r \in Jobs /\ at \in [Jobs -> BackupPlaces] /\ db \in Tables
    BY <1>3 DEF AskSafety, Enqueue, Move, Jobs, IInv, TypeOK, BackupPlaces
  <2>2. db'.jobs = [db.jobs EXCEPT ![r] = "PENDING"] /\ db.jobs \in [Jobs -> BackupStatus]
    BY <2>1, JobRow DEF BackupStatus, Tables
  <2>3. \A j \in Jobs : at[j] \notin Working
    BY <1>1, <2>1 DEF Rows, NoBackupRuns
  <2>4. \A j \in Jobs : at'[j] \notin Working
    BY <2>1, <2>3 DEF Working
  <2>5. Rows'
    BY <1>1, <2>4, RestoreRows DEF Rows
  <2>6. OneChecked' /\ Quiet'
    BY <2>4 DEF OneChecked, Quiet, Dumping, Working, Past, Jobs
  <2>. QED
    BY <2>5, <2>6
<1>. QED
  BY <1>2, <1>3, RestoreRows

LEMMA KeptStep == IInv /\ Kept /\ [Next]_vars => Kept'
<1> SUFFICES ASSUME IInv, Kept, [Next]_vars PROVE Kept'
  OBVIOUS
<1>1. ASSUME NEW r \in Restores, NEW target \in Jobs, NEW options \in Options,
             StartRestore(r, target, options)
      PROVE  Kept'
  <2>1. /\ rat' = [rat EXCEPT ![r] = "pending"] /\ rat[r] = "idle"
        /\ db' = [db EXCEPT !.restores[r] = "PENDING"] /\ UNCHANGED at
        /\ ask' = [ask EXCEPT ![r] = ask'[r]]
    BY <1>1 DEF StartRestore, Record, Go, IInv, TypeOK
  <2>2. /\ db \in Tables /\ rat \in [Restores -> RestorePlaces]
        /\ db.restores \in [Restores -> RestoreStatus]
    BY DEF IInv, TypeOK, RestorePlaces, Tables
  <2>3. db'.jobs = db.jobs /\ \A s \in Restores \ {r} : db'.restores[s] = db.restores[s]
    BY <2>1, <2>2, RestoreRow DEF RestoreStatus, BackupStatus
  <2>4. /\ \A s \in Restores : rat'[s] = IF s = r THEN "pending" ELSE rat[s]
        /\ \A s \in Restores \ {r} : ask'[s] = ask[s]
    BY <2>1, <2>2 DEF IInv, TypeOK
  <2>5. ~Replaced' => ~Replaced
    BY <2>1, <2>4 DEF Replaced, Early
  <2>. QED
    BY <2>1, <2>3, <2>4, <2>5 DEF Kept, Rows, OneChecked, Quiet, Dumping
<1>2. CASE Crash
  <2>1. /\ \A j \in Jobs : at'[j] \in {"idle", "ended", "dead"}
        /\ \A r \in Restores : rat'[r] \in Over
    BY <1>2 DEF Crash, Over
  <2>. QED
    BY <2>1 DEF Kept, Rows, OneChecked, Quiet, Dumping, Working, Past, Over, Jobs
<1>3. CASE UNCHANGED vars
  BY <1>3 DEF vars, Kept, Replaced, Rows, OneChecked, Quiet, Dumping
<1>4. ASSUME NEW j \in Jobs, RunBackup(j) PROVE Kept'
  BY <1>4, BackupKept DEF RunBackup
<1>5. ASSUME NEW j \in Backups, StartBackup(j), UNCHANGED <<rat, ask, did>> PROVE Kept'
  BY <1>5, BackupKept DEF Jobs
<1>. QED
  BY <1>1, <1>2, <1>3, <1>4, <1>5, RestoreKept DEF Next

THEOREM KeptTheorem == Spec => []Kept
<1>. QED
  BY InitKept, KeptStep, Invariance, PTL DEF Spec

\* No two backups read the database at once: the preflight keeps them apart, as long as
\* no restore has taken its rows away (preflight-validator.service.ts:203-225).
THEOREM OneDumpTheorem == Spec => []OneDump
<1>1. Kept => OneDump
  BY DEF Kept, OneDump, OneChecked, Past, Dumping
<1>. QED
  BY <1>1, KeptTheorem, PTL

\* While psql replaces the tables no backup is between its first read of them and its
\* record (restore-orchestrator.service.ts:174-223, preflight-validator.service.ts:227-246).
THEOREM ReplaceTheorem == Spec => []NoDumpAtTheReplace
<1>1. IInv /\ Kept => NoDumpAtTheReplace
  BY DEF IInv, Kept, Quiet, NoDumpAtTheReplace, Asked, Replacing, Safe, RestorePlaces, Done, Dumping
<1>. QED
  BY <1>1, Invariance, KeptTheorem, PTL

-----------------------------------------------------------------------------
(* A restore that nobody interferes with ends with the whole of its dump. *)

Ahead == {"clean", "reregister", "recreate", "media", "config", "finish"}
Back == {"rollbackClean", "rollbackMedia", "record"}

\* A restore that has written nothing that another one reads back.
Still(s) == rat[s] \in (Early \ {"psql"}) \cup {"dead"} \/ ~Touched(s)
Apart(r) == \A s \in Restores \ {r} : Still(s)

Wholes(r) == Apart(r) =>
    /\ rat[r] \in Ahead /\ ask[r].database => (archive[ask[r].target].tables.whole => db.whole)
    /\ rat[r] \in Back => (archive[r].tables.whole => db.whole)
    /\ rat[r] = "record" /\ did[r].media => (archive[r].media => media)

LEMMA InitWholes == ASSUME Init, NEW r \in Restores PROVE Wholes(r)
  BY DEF Init, Wholes, Ahead, Back

\* One step of a restore, as far as the whole is concerned.
Course(s) ==
    /\ UNCHANGED <<archive, ask>>
    /\ \A q \in Restores \ {s} : rat'[q] = rat[q] /\ did'[q] = did[q]
    /\ Still(s)' => Still(s) /\ db'.whole = db.whole /\ media' = media
    /\ rat'[s] \in Ahead /\ ask[s].database => \/ rat[s] \in Ahead /\ db'.whole = db.whole
                                               \/ db' = archive[ask[s].target].tables
    /\ rat'[s] \in Back => \/ rat[s] \in Back /\ db'.whole = db.whole
                           \/ db' = archive[s].tables
    /\ rat'[s] = "record" /\ did'[s].media => media' = archive[s].media
    /\ rat'[s] = "completed" => rat[s] = "finish" /\ db'.whole = db.whole
    /\ rat'[s] = "rolledBack" => /\ rat[s] = "record" /\ db'.whole = db.whole
                                 /\ UNCHANGED <<media, did>>

LEMMA RestoreCourse == ASSUME IInv, NEW s \in Restores, Restore(s) PROVE Course(s)
<1>1. /\ rat \in [Restores -> RestorePlaces] /\ did \in [Restores -> Dids]
      /\ db \in Tables /\ Asked(s)
  BY DEF IInv, TypeOK, RestorePlaces, Dids
<1>2. CASE \/ Validate(s) \/ SafetyDone(s) \/ Extract(s) \/ RecreateFails(s)
           \/ SkipMedia(s) \/ RestoreConfig(s)
  <2>1. PICK to \in RestorePlaces : rat' = [rat EXCEPT ![s] = to] /\
          \/ rat[s] = "validate" /\ to = IF ask[s].database THEN "safety" ELSE "extract"
          \/ rat[s] = "wait" /\ to = "extract"
          \/ rat[s] = "extract" /\ to = IF ask[s].database THEN "psql" ELSE "media"
          \/ rat[s] = "recreate" /\ to = "rollback"
          \/ rat[s] = "media" /\ to = "config"
          \/ rat[s] = "config" /\ to = "finish"
    BY <1>2 DEF Validate, SafetyDone, Extract, RecreateFails, SkipMedia, RestoreConfig, Go,
                RestorePlaces
  <2>2. UNCHANGED <<db, archive, media, at, ask>>
    BY <1>2 DEF Validate, SafetyDone, Extract, RecreateFails, SkipMedia, RestoreConfig
  <2>3. /\ \A q \in Restores \ {s} : did'[q] = did[q]
        /\ did'[s].media = did[s].media
    BY <1>1, <1>2 DEF Validate, SafetyDone, Extract, RecreateFails, SkipMedia, RestoreConfig, Dids
  <2>4. /\ \A q \in Restores \ {s} : rat'[q] = rat[q]
        /\ rat'[s] = to
    BY <1>1, <2>1
  <2>. QED
    BY <1>1, <2>1, <2>2, <2>3, <2>4
       DEF Course, Still, Touched, Ahead, Back, Early, Asked, Replacing
<1>3. CASE CopyMedia(s)
  <2>1. /\ rat' = [rat EXCEPT ![s] = "config"] /\ rat[s] = "media"
        /\ did' = [did EXCEPT ![s].media = TRUE] /\ UNCHANGED <<db, archive, at, ask>>
    BY <1>3 DEF CopyMedia, Go
  <2>2. /\ \A q \in Restores \ {s} : rat'[q] = rat[q] /\ did'[q] = did[q]
        /\ rat'[s] = "config" /\ did'[s].media
    BY <1>1, <2>1 DEF Dids
  <2>. QED
    BY <2>1, <2>2 DEF Course, Still, Touched, Ahead, Back, Early
<1>4. CASE RollbackMedia(s)
  <2>1. /\ rat' = [rat EXCEPT ![s] = "record"] /\ rat[s] = "rollbackMedia"
        /\ did[s].media => media' = archive[s].media
        /\ UNCHANGED <<db, archive, at, ask, did>>
    BY <1>4 DEF RollbackMedia, Go
  <2>2. (\A q \in Restores \ {s} : rat'[q] = rat[q]) /\ rat'[s] = "record" /\ ask[s].database
    BY <1>1, <2>1 DEF Asked, Replacing
  <2>. QED
    BY <2>1, <2>2 DEF Course, Still, Touched, Ahead, Back, Early
<1>5. CASE \/ BeginRestore(s) \/ SafetyMissed(s) \/ FailEarly(s) \/ ReregisterFails(s)
           \/ Recreate(s) \/ Complete(s) \/ FailLate(s) \/ RecordRollback(s) \/ AskSafety(s)
  <2>1. PICK to \in RestorePlaces : rat' = [rat EXCEPT ![s] = to] /\
          \/ rat[s] = "pending" /\ to = "validate"
          \/ rat[s] = "safety" /\ to = "wait"
          \/ rat[s] \in Early \ {"psql"} /\ to = "failed"
          \/ to = "failed" /\ ~Touched(s)
          \/ rat[s] = "reregister" /\ to = "rollback"
          \/ rat[s] = "recreate" /\ to = "media"
          \/ rat[s] = "finish" /\ to = "completed"
          \/ rat[s] \in {"config", "finish"} /\ to = "rollback"
          \/ rat[s] = "record" /\ to = "rolledBack"
    BY <1>5 DEF BeginRestore, SafetyMissed, FailEarly, ReregisterFails, Recreate, Complete, FailLate,
         RecordRollback, AskSafety, Go, RestorePlaces, Over, Early
  <2>2. UNCHANGED <<archive, media, ask, did>>
    BY <1>5 DEF BeginRestore, SafetyMissed, FailEarly, ReregisterFails, Recreate, Complete, FailLate,
         RecordRollback, AskSafety, Enqueue
  <2>3. \/ db' = db \/ \E j \in Jobs : db' = [db EXCEPT !.jobs[j] = "PENDING"]
        \/ \E status \in RestoreStatus : db' = [db EXCEPT !.restores[s] = status]
    BY <1>5 DEF BeginRestore, SafetyMissed, FailEarly, ReregisterFails, Recreate, Complete,
       FailLate, RecordRollback, AskSafety, Enqueue, Mark, Record, RestoreStatus, BackupStatus, Jobs
  <2>4. db'.whole = db.whole
    <3>1. db \in Tables
      BY <1>1
    <3>2. ASSUME NEW j \in Jobs, db' = [db EXCEPT !.jobs[j] = "PENDING"] PROVE db'.whole = db.whole
      BY <3>1, <3>2 DEF Tables
    <3>3. ASSUME NEW status \in RestoreStatus, db' = [db EXCEPT !.restores[s] = status]
          PROVE  db'.whole = db.whole
      BY <3>1, <3>3 DEF Tables
    <3>. QED
      BY <2>3, <3>2, <3>3
  <2>5. /\ \A q \in Restores \ {s} : rat'[q] = rat[q]
        /\ rat'[s] = to
    BY <1>1, <2>1
  <2>. QED
    BY <1>1, <2>1, <2>2, <2>4, <2>5
       DEF Course, Still, Touched, Ahead, Back, Early, Asked, Replacing
<1>6. CASE \/ PsqlDone(s) \/ PsqlFails(s) \/ Clean(s) \/ Reregister(s)
           \/ RollbackDatabase(s) \/ RollbackClean(s) \/ RollbackFails(s)
  <2>1. PICK to \in RestorePlaces : rat' = [rat EXCEPT ![s] = to] /\
          \/ rat[s] = "psql" /\ to = "clean" /\ db' = archive[ask[s].target].tables
          \/ rat[s] = "psql" /\ to \in {"rollback", "abandoned"}
          \/ rat[s] = "clean" /\ to = "reregister" /\ Clean(s)
          \/ rat[s] = "reregister" /\ to = "recreate" /\ Reregister(s)
          \/ /\ rat[s] = "rollback" /\ ask[s].database /\ to = "rollbackClean"
             /\ db' = archive[s].tables
          \/ rat[s] = "rollbackClean" /\ to = "rollbackMedia" /\ RollbackClean(s)
          \/ rat[s] = "rollback" /\ ask[s].database /\ to = "critical"
          \/ /\ rat[s] = "rollback" /\ ~ask[s].database /\ to = "critical"
             /\ db' = [db EXCEPT !.restores[s] = "CRITICAL_FAILURE"]
          \/ rat[s] \in Back /\ to = "critical"
    BY <1>6 DEF PsqlDone, PsqlFails, Clean, Reregister, RollbackDatabase, RollbackClean,
                RollbackFails, Go, RestorePlaces, Over, Back
  <2>2. UNCHANGED <<archive, media, ask, did>>
    BY <1>6 DEF PsqlDone, PsqlFails, Clean, Reregister, RollbackDatabase, RollbackClean,
                RollbackFails
  <2>3. Clean(s) \/ Reregister(s) \/ RollbackClean(s) => db'.whole = db.whole
    <3>1. Clean(s) => db'.whole = db.whole
      BY <1>1 DEF Clean, Tables
    <3>2. Reregister(s) => db'.whole = db.whole
      BY <1>1 DEF Reregister, Tables
    <3>3. RollbackClean(s) => db'.whole = db.whole
      BY <1>1, JobRow DEF RollbackClean, BackupStatus, Jobs
    <3>. QED
      BY <3>1, <3>2, <3>3
  <2>4. db' = [db EXCEPT !.restores[s] = "CRITICAL_FAILURE"] => db'.whole = db.whole
    BY <1>1, RestoreRow DEF RestoreStatus
  <2>5. /\ \A q \in Restores \ {s} : rat'[q] = rat[q]
        /\ rat'[s] = to
    BY <1>1, <2>1
  <2>. QED
    BY <1>1, <2>1, <2>2, <2>3, <2>4, <2>5
       DEF Course, Still, Touched, Ahead, Back, Early, Asked, Replacing
<1>. QED
  BY <1>2, <1>3, <1>4, <1>5, <1>6 DEF Restore

\* What is done is not written again, and a backup writes nothing else.
LEMMA BackupCourse ==
    ASSUME IInv, NEW j \in Jobs, Backup(j) \/ StartBackup(j)
    PROVE  /\ db'.whole = db.whole /\ media' = media
           /\ \A i \in Done : archive'[i] = archive[i]
<1>1. db \in Tables /\ archive \in [Jobs -> Archive \cup {NoArchive}]
  BY DEF IInv, TypeOK
<1>2. media' = media
  BY DEF Backup, StartBackup, Enqueue, BeginBackup, LoseBackup, CheckBackups, CheckRestores, Dump,
         Pack, Register, CleanUp, FailBackup
<1>3. \/ archive' = archive
      \/ at[j] \in {"dump", "copy"} /\ \E a : archive' = [archive EXCEPT ![j] = a]
  BY DEF Backup, StartBackup, Enqueue, BeginBackup, LoseBackup, CheckBackups, CheckRestores, Dump,
         Pack, Register, CleanUp, FailBackup, Move
<1>4. \A i \in Done : archive'[i] = archive[i]
  BY <1>1, <1>3 DEF Done
<1>5. db'.whole = db.whole
  <2>1. CASE Register(j)
    BY <1>1, <2>1 DEF Register, Tables
  <2>2. CASE ~Register(j)
    BY <1>1, <2>2 DEF Tables, Backup, StartBackup, Enqueue, BeginBackup, LoseBackup, CheckBackups,
       CheckRestores, Dump, Pack, CleanUp, FailBackup
  <2>. QED
    BY <2>1, <2>2
<1>. QED
  BY <1>2, <1>4, <1>5

LEMMA WholesStep ==
    ASSUME IInv, \A r \in Restores : Wholes(r), [Next]_vars, NEW r \in Restores
    PROVE  Wholes(r)'
<1>1. /\ rat \in [Restores -> RestorePlaces] /\ Wholes(r) /\ Asked(r)
  BY DEF IInv, TypeOK, RestorePlaces
<1>2. ASSUME NEW j \in Jobs, Backup(j) \/ StartBackup(j), UNCHANGED <<rat, ask, did>>
      PROVE  Wholes(r)'
  <2>1. rat[r] \in Ahead /\ ask[r].database => ask[r].target \in Done
    BY <1>1 DEF Asked, Ahead
  <2>2. rat[r] \in Back => r \in Done
    BY <1>1 DEF Asked, Back, Replacing, Safe, RestorePlaces
  <2>. QED
    BY <1>1, <1>2, <2>1, <2>2, BackupCourse DEF Wholes, Apart, Still, Touched, Back
<1>3. ASSUME NEW s \in Restores \ {r}, Restore(s) PROVE Wholes(r)'
  <2>1. Course(s)
    BY <1>3, RestoreCourse
  <2>2. Apart(r)' => Still(s)' /\ Apart(r)
    BY <2>1 DEF Course, Apart, Still, Touched
  <2>. QED
    BY <1>1, <2>1, <2>2 DEF Course, Wholes
<1>4. ASSUME Restore(r) PROVE Wholes(r)'
  <2>1. Course(r)
    BY <1>4, RestoreCourse
  <2>2. Apart(r)' => Apart(r)
    BY <2>1 DEF Course, Apart, Still, Touched
  <2>. QED
    BY <1>1, <2>1, <2>2 DEF Course, Wholes
<1>5. ASSUME NEW s \in Restores, NEW target \in Jobs, NEW options \in Options,
             StartRestore(s, target, options)
      PROVE  Wholes(r)'
  <2>1. /\ rat' = [rat EXCEPT ![s] = "pending"] /\ rat[s] = "idle" /\ ask' = [ask EXCEPT ![s] = ask'[s]]
        /\ db' = [db EXCEPT !.restores[s] = "PENDING"] /\ UNCHANGED <<archive, media, at, did>>
    BY <1>5 DEF StartRestore, Record, Go, IInv, TypeOK
  <2>2. \A q \in Restores : rat'[q] = IF q = s THEN "pending" ELSE rat[q]
    BY <1>1, <2>1
  <2>3. db'.whole = db.whole /\ \A q \in Restores \ {s} : ask'[q] = ask[q]
    BY <2>1 DEF IInv, TypeOK, Tables
  <2>4. Apart(r)' => Apart(r)
    BY <2>1, <2>2, <2>3 DEF Apart, Still, Touched, Early
  <2>. QED
    BY <1>1, <2>1, <2>2, <2>3, <2>4 DEF Wholes, Ahead, Back
<1>6. CASE Crash
  BY <1>6 DEF Crash, Wholes, Ahead, Back, Over
<1>7. CASE UNCHANGED vars
  BY <1>1, <1>7 DEF vars, Wholes, Apart, Still, Touched
<1>. QED
  BY <1>2, <1>3, <1>4, <1>5, <1>6, <1>7 DEF Next, RunBackup, Jobs

THEOREM WholesTheorem == Spec => [](\A r \in Restores : Wholes(r))
<1>1. Init => \A r \in Restores : Wholes(r)
  BY InitWholes
<1>2. IInv /\ (\A r \in Restores : Wholes(r)) /\ [Next]_vars => (\A r \in Restores : Wholes(r))'
  BY WholesStep
<1>. QED
  BY <1>1, <1>2, Invariance, PTL DEF Spec

LEMMA EndStep ==
    ASSUME IInv, \A r \in Restores : Wholes(r), Next, NEW r \in Restores, Alone(r)
    PROVE  /\ rat[r] = "finish" /\ rat'[r] = "completed" /\ ask[r].database =>
                 (archive[ask[r].target].tables.whole => db'.whole)
           /\ rat[r] = "record" /\ rat'[r] = "rolledBack" =>
                 (archive[r].tables.whole => db'.whole)
           /\ rat[r] = "record" /\ rat'[r] = "rolledBack" /\ did[r].media =>
                 (archive[r].media => media')
<1>1. Wholes(r) /\ Apart(r) /\ rat \in [Restores -> RestorePlaces]
  BY DEF Alone, Apart, Still, IInv, TypeOK, RestorePlaces
<1>2. CASE Restore(r)
  <2>1. Course(r)
    BY <1>2, RestoreCourse
  <2>. QED
    BY <1>1, <2>1 DEF Course, Wholes, Ahead, Back
<1>3. ASSUME NEW s \in Restores \ {r}, Restore(s) PROVE rat'[r] = rat[r]
  BY <1>3, RestoreCourse DEF Course
<1>4. CASE Crash
  BY <1>4 DEF Crash, Over
<1>5. ASSUME NEW s \in Restores, NEW target \in Jobs, NEW options \in Options,
             StartRestore(s, target, options)
      PROVE  rat'[r] \in {rat[r], "pending"}
  BY <1>1, <1>5 DEF StartRestore, Go
<1>. QED
  BY <1>2, <1>3, <1>4, <1>5 DEF Next, RunBackup

\* A restore that reports COMPLETED leaves the whole of the dump in place, and one that
\* reports ROLLBACK_COMPLETED has taken back every table and file
\* (restore-orchestrator.service.ts:800-880 and 1476-1529).
THEOREM WholeTheorem == Spec => EndsWhole
<1>1. IInv /\ (\A r \in Restores : Wholes(r)) /\ [Next]_vars =>
        [\A r \in Restores : Alone(r) =>
           /\ rat[r] = "finish" /\ rat'[r] = "completed" /\ ask[r].database =>
                 (archive[ask[r].target].tables.whole => db'.whole)
           /\ rat[r] = "record" /\ rat'[r] = "rolledBack" =>
                 (archive[r].tables.whole => db'.whole)
           /\ rat[r] = "record" /\ rat'[r] = "rolledBack" /\ did[r].media =>
                 (archive[r].media => media')]_vars
  BY EndStep
<1>. QED
  BY <1>1, Invariance, WholesTheorem, PTL DEF Spec, EndsWhole

-----------------------------------------------------------------------------
(* A row that says RUNNING stands for a pipeline that has not ended. *)

Looked == IF RolledBack THEN Restores ELSE Jobs

Alive == First /\ Settled =>
    /\ \A j \in Looked : /\ db.jobs[j] = "RUNNING" => at[j] \notin {"idle", "ended"}
                         /\ at[j] = "cleanup" => db.jobs[j] # "RUNNING"
    /\ \A r \in Restores : rat[r] \in Over => db.restores[r] # "RUNNING"

LEMMA InitAlive == Init => Alive
  BY DEF Init, BackupInit, EmptyDb, Alive, Looked, Jobs

LEMMA BackupAlive ==
    ASSUME IInv, Alive, NEW j \in Jobs, Backup(j) \/ StartBackup(j), UNCHANGED <<rat, ask, did>>
    PROVE  Alive'
<1> SUFFICES ASSUME First, Settled PROVE Alive'
  BY DEF Alive, First, Settled
<1>1. /\ at \in [Jobs -> BackupPlaces] /\ db \in Tables /\ db.jobs \in [Jobs -> BackupStatus]
      /\ {"PENDING", "RUNNING", "COMPLETED", "FAILED"} \subseteq BackupStatus
  BY DEF IInv, TypeOK, BackupPlaces, Tables, BackupStatus
<1>2. PICK to \in BackupPlaces : at' = [at EXCEPT ![j] = to] /\
        \/ to \in {"pending", "running"} /\ \E s \in {"PENDING", "RUNNING"} : db' = [db EXCEPT !.jobs[j] = s]
        \/ to \in {"checked", "dump", "copy", "register"} /\ at[j] \notin {"idle", "ended"} /\ db' = db
        \/ to = "ended" /\ at[j] = "cleanup" /\ db' = db
        \/ to = "ended" /\ db.jobs[j] = "NONE" /\ db' = db
        \/ to = "ended" /\ db' = [db EXCEPT !.jobs[j] = "FAILED"]
        \/ to = "cleanup" /\ Register(j)
  BY DEF Backup, StartBackup, Enqueue, BeginBackup, LoseBackup, CheckBackups, CheckRestores, Dump,
         Pack, Register, CleanUp, FailBackup, Move, BackupPlaces
<1>3. \A i \in Jobs : at'[i] = IF i = j THEN to ELSE at[i]
  BY <1>1, <1>2
<1>4. db'.restores = db.restores /\ \A i \in Jobs \ {j} : db'.jobs[i] = db.jobs[i]
  <2>1. CASE Register(j)
    <3>1. db' = [db EXCEPT !.jobs[j] = "COMPLETED", !.ids[j] = db.nextId,
                           !.nextId = db.nextId + 1]
      BY <2>1 DEF Register
    <3>2. db \in Tables
      BY <1>1
    <3>. QED
      BY <3>1, <3>2 DEF Tables
  <2>2. CASE \E s : db' = [db EXCEPT !.jobs[j] = s]
    BY <1>1, <2>2 DEF Tables
  <2>. QED
    BY <1>2, <2>1, <2>2
<1>5. Looked' = Looked /\ Looked \subseteq Jobs
  BY DEF Looked, RolledBack, Jobs
<1>6. j \in Looked => /\ db'.jobs[j] = "RUNNING" => to \notin {"idle", "ended"}
                      /\ to = "cleanup" => db'.jobs[j] # "RUNNING"
  <2>1. CASE Register(j)
    <3>1. db' = [db EXCEPT !.jobs[j] = "COMPLETED", !.ids[j] = db.nextId,
                           !.nextId = db.nextId + 1]
      BY <2>1 DEF Register
    <3>2. at' = [at EXCEPT ![j] = "cleanup"]
      BY <2>1 DEF Register, Move
    <3>3. db'.jobs[j] = "COMPLETED" /\ to = "cleanup"
      BY <1>1, <1>3, <3>1, <3>2 DEF Tables
    <3>. QED
      BY <3>3
  <2>2. CASE db' = [db EXCEPT !.jobs[j] = "FAILED"] /\ to = "ended"
    BY <1>1, <2>2 DEF Tables
  <2>. QED
    BY <1>2, <2>1, <2>2 DEF Alive
<1>. QED
  BY <1>3, <1>4, <1>5, <1>6 DEF Alive

\* Where the rows may be out of date, and where a rollback has brought some back.
Unsettled == {"clean", "rollback", "rollbackClean", "abandoned", "critical", "dead"}
Reverted == {"rollbackMedia", "record", "rolledBack"}

\* One step of a restore, as far as the rows that say RUNNING are concerned.
Tells(r) ==
    /\ "idle" \notin {rat[r], rat'[r]} /\ \A s \in Restores \ {r} : rat'[s] = rat[s]
    /\ \A s \in Restores \ {r} : db'.restores[s] = db.restores[s]
    /\ \/ UNCHANGED at /\ db'.jobs = db.jobs
       \/ at'[r] = "pending" /\ \A j \in Jobs \ {r} : at'[j] = at[j] /\ db'.jobs[j] = db.jobs[j]
    /\ rat[r] \in Unsettled => rat'[r] \in Unsettled
    /\ rat[r] \in Reverted => rat'[r] \in Reverted \cup Unsettled
    /\ rat'[r] \in Over => db'.restores[r] # "RUNNING"

LEMMA RestoreTells ==
    ASSUME IInv, NEW r \in Restores, Restore(r), ~Clean(r), ~RollbackClean(r), rat'[r] \notin Unsettled
    PROVE  Tells(r)
<1>1. /\ rat \in [Restores -> RestorePlaces] /\ db \in Tables /\ at \in [Jobs -> BackupPlaces]
      /\ db.restores \in [Restores -> RestoreStatus] /\ db.jobs \in [Jobs -> BackupStatus] /\ r \in Jobs
  BY DEF IInv, TypeOK, RestorePlaces, BackupPlaces, Tables, Jobs
<1>2. CASE \/ Validate(r) \/ SafetyDone(r) \/ Extract(r) \/ RecreateFails(r)
           \/ SkipMedia(r) \/ CopyMedia(r) \/ RestoreConfig(r) \/ RollbackMedia(r)
  <2>1. PICK to \in RestorePlaces : rat' = [rat EXCEPT ![r] = to] /\
          \/ rat[r] \in {"validate", "wait", "extract"} /\ to \in {"safety", "extract", "psql", "media"}
          \/ rat[r] = "recreate" /\ to = "rollback"
          \/ rat[r] = "media" /\ to = "config"
          \/ rat[r] = "config" /\ to = "finish"
          \/ rat[r] = "rollbackMedia" /\ to = "record"
    BY <1>2 DEF Validate, SafetyDone, Extract, RecreateFails, SkipMedia, CopyMedia, RestoreConfig,
                RollbackMedia, Go, RestorePlaces
  <2>2. UNCHANGED <<db, at>>
    BY <1>2 DEF Validate, SafetyDone, Extract, RecreateFails, SkipMedia, CopyMedia, RestoreConfig,
                RollbackMedia
  <2>. QED
    BY <1>1, <2>1, <2>2 DEF Tells, Unsettled, Reverted, Over
<1>3. CASE \/ BeginRestore(r) \/ SafetyMissed(r) \/ FailEarly(r) \/ ReregisterFails(r)
           \/ Recreate(r) \/ Complete(r) \/ FailLate(r) \/ RecordRollback(r)
  <2>1. PICK to \in RestorePlaces : rat' = [rat EXCEPT ![r] = to] /\
          \/ rat[r] = "pending" /\ to = "validate" /\ Record(r, "RUNNING")
          \/ /\ rat[r] \in {"pending", "validate", "safety", "wait", "extract", "config", "finish"}
             /\ to = "failed" /\ Mark(r, "FAILED")
          \/ to = "rollback"
          \/ rat[r] = "recreate" /\ to = "media" /\ Record(r, "RUNNING")
          \/ rat[r] = "finish" /\ to = "completed" /\ Mark(r, "COMPLETED")
          \/ rat[r] = "record" /\ to = "rolledBack" /\ Record(r, "ROLLBACK_COMPLETED")
    BY <1>3 DEF BeginRestore, SafetyMissed, FailEarly, ReregisterFails, Recreate, Complete, FailLate,
         RecordRollback, Go, RestorePlaces, Over
  <2>2. PICK s \in {"RUNNING", "FAILED", "COMPLETED", "ROLLBACK_COMPLETED"} :
          /\ \/ db' = [db EXCEPT !.restores[r] = s]
             \/ db' = db /\ db.restores[r] = "NONE"
          /\ to \in Over => s # "RUNNING"
    BY <1>1, <2>1 DEF Mark, Record, Unsettled, Over
  <2>3. s \in RestoreStatus /\ UNCHANGED at
    BY <1>3 DEF BeginRestore, SafetyMissed, FailEarly, ReregisterFails, Recreate, Complete, FailLate,
         RecordRollback, RestoreStatus, BackupStatus
  <2>4. db'.jobs = db.jobs /\ \A q \in Restores \ {r} : db'.restores[q] = db.restores[q]
    BY <1>1, <2>2, <2>3, RestoreRow
  <2>5. to \in Over => db'.restores[r] # "RUNNING"
    BY <1>1, <2>2, <2>3 DEF Tables
  <2>. QED
    BY <1>1, <2>1, <2>3, <2>4, <2>5 DEF Tells, Unsettled, Reverted, Over
<1>4. CASE AskSafety(r)
  <2>1. /\ rat' = [rat EXCEPT ![r] = "wait"] /\ rat[r] = "safety"
        /\ at' = [at EXCEPT ![r] = "pending"] /\ db' = [db EXCEPT !.jobs[r] = "PENDING"]
    BY <1>4 DEF AskSafety, Enqueue, Move, Go
  <2>2. db'.jobs = [db.jobs EXCEPT ![r] = "PENDING"] /\ db'.restores = db.restores
    BY <1>1, <2>1 DEF Tables
  <2>. QED
    BY <1>1, <2>1, <2>2 DEF Tells, Unsettled, Reverted, Over
<1>5. CASE \/ PsqlDone(r) \/ PsqlFails(r) \/ Reregister(r)
           \/ RollbackDatabase(r) \/ RollbackFails(r)
  <2>1. PICK to \in RestorePlaces : rat' = [rat EXCEPT ![r] = to] /\
          (to \in Unsettled \/ (rat[r] = "reregister" /\ to = "recreate" /\ Reregister(r)))
    BY <1>5 DEF PsqlDone, PsqlFails, Reregister, RollbackDatabase, RollbackFails, Go,
                RestorePlaces, Over, Unsettled
  <2>2. rat[r] = "reregister" /\ to = "recreate" /\ Reregister(r)
    BY <1>1, <2>1
  <2>3. UNCHANGED at /\ db'.jobs = db.jobs /\ db'.restores = db.restores
    BY <1>1, <2>2 DEF Reregister, Tables
  <2>. QED
    BY <1>1, <2>1, <2>2, <2>3 DEF Tells, Unsettled, Reverted, Over
<1>. QED
  BY <1>2, <1>3, <1>4, <1>5 DEF Restore

LEMMA CleanAlive ==
    ASSUME IInv, NEW r \in Restores, Clean(r) \/ RollbackClean(r), First', Settled'
    PROVE  Alive'
<1>1. /\ rat \in [Restores -> RestorePlaces] /\ db \in Tables
      /\ db.restores \in [Restores -> RestoreStatus] /\ db.jobs \in [Jobs -> BackupStatus] /\ r \in Jobs
      /\ rat[r] \in Replacing \ Over
  BY DEF IInv, TypeOK, RestorePlaces, Tables, Jobs, Clean, RollbackClean, Go, Replacing, Over
<1>2. rat'[r] \notin Over /\ \A s \in Restores \ {r} : rat'[s] = rat[s]
  BY <1>1 DEF Clean, RollbackClean, Go, Over
<1>3. \A s \in Restores \ {r} : rat[s] = "idle" /\ at[s] = "idle" /\ s \in Jobs
  BY <1>2 DEF First, IInv, Asked, Over, Jobs
<1>4. \A s \in Restores \ {r} : db.jobs[s] # "RUNNING" /\ db.restores[s] # "RUNNING"
  BY <1>3 DEF IInv, Files, Sound, Unasked
<1>5. CASE Clean(r)
  <2> DEFINE jobs == Stopped(db.jobs)
             restores == Stopped(db.restores)
  <2>1. db' = [db EXCEPT !.jobs = jobs, !.restores = restores]
    BY <1>5 DEF Clean
  <2>2. "FAILED" \in BackupStatus /\ "FAILED" \in RestoreStatus
    BY DEF BackupStatus, RestoreStatus
  <2>3. (\A j \in Jobs : jobs[j] # "RUNNING") /\ (\A s \in Restores : restores[s] # "RUNNING")
    BY <1>1, <2>2, StoppedStatus
  <2> HIDE DEF jobs, restores
  <2>4. db'.jobs = jobs /\ db'.restores = restores
    BY <1>1, <2>1 DEF Tables
  <2>. QED
    BY <2>3, <2>4 DEF Alive, Looked, Jobs
<1>6. CASE RollbackClean(r)
  <2>1. rat'[r] = "rollbackMedia" /\ UNCHANGED at
    BY <1>1, <1>6 DEF RollbackClean, Go
  <2>2. db'.restores = db.restores /\ db'.jobs[r] # "RUNNING"
        /\ \A j \in Jobs \ {r} : db'.jobs[j] = db.jobs[j]
    BY <1>1, <1>6 DEF RollbackClean, Tables
  <2>3. Looked' = Restores
    BY <2>1 DEF Looked, RolledBack
  <2>. QED
    BY <1>2, <1>3, <1>4, <2>1, <2>2, <2>3 DEF Alive
<1>. QED
  BY <1>5, <1>6

LEMMA RestoreAlive == ASSUME IInv, Alive, NEW r \in Restores, Restore(r) PROVE Alive'
<1> SUFFICES ASSUME First', Settled' PROVE Alive'
  BY DEF Alive
<1>1. CASE Clean(r) \/ RollbackClean(r)
  BY <1>1, CleanAlive
<1>2. CASE ~Clean(r) /\ ~RollbackClean(r)
  <2>1. Tells(r)
    BY <1>2, RestoreTells DEF Settled, Unsettled
  <2>2. First /\ Settled
    BY <2>1 DEF Tells, First, Settled, Unsettled
  <2>3. RolledBack => RolledBack'
    BY <2>1 DEF Tells, RolledBack, Settled, Unsettled, Reverted
  <2>4. Looked' \subseteq Looked /\ Looked \subseteq Jobs
    BY <2>3 DEF Looked, Jobs
  <2>5. \A s \in Restores : rat'[s] \in Over => db'.restores[s] # "RUNNING"
    BY <2>1, <2>2 DEF Alive, Tells
  <2>6. \A j \in Looked' : /\ db'.jobs[j] = "RUNNING" => at'[j] \notin {"idle", "ended"}
                           /\ at'[j] = "cleanup" => db'.jobs[j] # "RUNNING"
    BY <2>1, <2>2, <2>4 DEF Alive, Tells
  <2>. QED
    BY <2>5, <2>6 DEF Alive
<1>. QED
  BY <1>1, <1>2

LEMMA AliveStep == IInv /\ Alive /\ [Next]_vars => Alive'
<1> SUFFICES ASSUME IInv, Alive, [Next]_vars PROVE Alive'
  OBVIOUS
<1>1. ASSUME NEW r \in Restores, NEW target \in Jobs, NEW options \in Options,
             StartRestore(r, target, options)
      PROVE  Alive'
  <2>1. /\ rat' = [rat EXCEPT ![r] = "pending"] /\ rat[r] = "idle"
        /\ db' = [db EXCEPT !.restores[r] = "PENDING"] /\ UNCHANGED at
        /\ db \in Tables /\ rat \in [Restores -> RestorePlaces]
        /\ db.restores \in [Restores -> RestoreStatus]
    BY <1>1 DEF StartRestore, Record, Go, IInv, TypeOK, RestorePlaces, Tables
  <2>2. db'.jobs = db.jobs /\ \A s \in Restores \ {r} : db'.restores[s] = db.restores[s]
    BY <2>1 DEF Tables
  <2>3. \A s \in Restores : rat'[s] = IF s = r THEN "pending" ELSE rat[s]
    BY <2>1
  <2>4. (First' => First) /\ (Settled' => Settled) /\ Looked' = Looked
    BY <2>1, <2>3 DEF First, Settled, Looked, RolledBack
  <2>. QED
    BY <2>1, <2>2, <2>3, <2>4 DEF Alive, Over
<1>2. CASE Crash
  <2> SUFFICES ASSUME First', Settled' PROVE Alive'
    BY DEF Alive
  <2>1. /\ \A j \in Jobs : at'[j] = IF at[j] \in {"idle", "ended"} THEN at[j] ELSE "dead"
        /\ \A r \in Restores : rat'[r] = IF rat[r] \in Over THEN rat[r] ELSE "dead"
    BY <1>2 DEF Crash
  <2>2. \A r \in Restores : rat'[r] = rat[r] /\ rat[r] \in Over
    BY <2>1 DEF Settled
  <2>3. First /\ Settled /\ Looked' = Looked /\ Looked \subseteq Jobs
    BY <2>2 DEF First, Settled, Looked, RolledBack, Jobs
  <2>4. db' = db
    BY <1>2, <2>2 DEF Crash, Over
  <2>. QED
    BY <2>1, <2>2, <2>3, <2>4 DEF Alive
<1>3. CASE UNCHANGED vars
  BY <1>3 DEF vars, Alive, First, Settled, Looked, RolledBack
<1>4. ASSUME NEW j \in Jobs, RunBackup(j) PROVE Alive'
  BY <1>4, BackupAlive DEF RunBackup
<1>5. ASSUME NEW j \in Backups, StartBackup(j), UNCHANGED <<rat, ask, did>> PROVE Alive'
  BY <1>5, BackupAlive DEF Jobs
<1>. QED
  BY <1>1, <1>2, <1>3, <1>4, <1>5, RestoreAlive DEF Next

\* A row that says RUNNING stands for a pipeline that has not ended, so none is left behind to
\* refuse every backup and restore (restore-orchestrator.service.ts:443-469 and 1358-1420).
THEOREM RunningTheorem == Spec => []RunningIsAlive
<1>1. Alive => RunningIsAlive
  BY DEF Alive, Looked, RunningIsAlive, Jobs
<1>. QED
  BY <1>1, InitAlive, AliveStep, Invariance, PTL DEF Spec
=============================================================================
