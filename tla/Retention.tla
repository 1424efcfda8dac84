------------------------------ MODULE Retention ------------------------------
(***************************************************************************)
(* What keeps backups and what removes them: the daily retention, the pin  *)
(* and the deletion of the owner's console.  A deletion only marks the row *)
(* (isDeleted, deletedAt); the archive goes, and then the row, by the      *)
(* purge of a later day.  The retention and the console each read first    *)
(* and write later, by id, with no condition on what they read.            *)
(*                                                                         *)
(* Backups are numbered by createdAt and are all of one plan, enabled and  *)
(* with autoCleanup (several plans are done one after the other).  Copies  *)
(* of category SYSTEM_SAFETY are neither candidates nor purged.            *)
(***************************************************************************)
EXTENDS Naturals, FiniteSets

CONSTANTS Copies,       \* rows of backup_instances, numbered by createdAt
          Consoles,     \* requests of the owner in progress
          MaxBackups,   \* maxBackups of the plan
          MinSafe,      \* MIN_SAFE_BACKUPS (3), and the 3 of deleteInstance
          PurgeDays,    \* PURGE_AFTER_DAYS
          LastNight     \* bound: nights (the retention runs every night)

ASSUME RetentionAssumption == /\ Copies \subseteq Nat /\ IsFiniteSet(Copies)
                              /\ {MaxBackups, MinSafe, PurgeDays, LastNight} \subseteq Nat

VARIABLES copies,  \* the rows
          onDisk,   \* the copies whose archive is on disk
          night,
          cleaning, \* what tonight's retention has read: to delete, or to purge
          console, \* what each request has read
          racing   \* whether a deletion has overlapped another one

retentionVars == <<copies, onDisk, night, cleaning, console, racing>>

NoCopy == 0
AtRest == [op |-> "none", copy |-> NoCopy, pinned |-> FALSE]
Asleep == [pc |-> "done", ids |-> {}]
Never == LastNight + 1

RetentionInit ==
    /\ \E kind \in [Copies -> {"SUCCESS", "FAILED", "SAFETY"}], old \in SUBSET Copies :
         /\ \A c \in old, d \in Copies : d < c => d \in old
         /\ copies = [c \in Copies |->
                [status |-> IF kind[c] = "FAILED" THEN "FAILED" ELSE "SUCCESS",
                 normal |-> kind[c] # "SAFETY", old |-> c \in old,
                 pinned |-> FALSE, deletedAt |-> Never, purged |-> FALSE]]
         /\ onDisk = {c \in Copies : kind[c] # "FAILED"}
    /\ night = 0
    /\ cleaning = [pc |-> "read", ids |-> {}]
    /\ console = [q \in Consoles |-> AtRest]
    /\ racing = FALSE

Deleted(c) == copies[c].deletedAt # Never
Rows == {c \in Copies : ~ copies[c].purged}
Kept == {c \in Rows : ~ Deleted(c)}
Successes == {c \in Kept : copies[c].status = "SUCCESS"}
Oldest(set, n) == {c \in set : Cardinality({d \in set : d < c}) < n}
Less(a, b) == IF a > b THEN a - b ELSE 0

-----------------------------------------------------------------------------
(* the daily retention *)

\* By age, and of the rest by number, never under MinSafe of the plan ...
Candidates == LET normal == {c \in Kept : copies[c].normal /\ ~ copies[c].pinned}
                  aged == {c \in normal : copies[c].old}
                  limit == IF MaxBackups > MinSafe THEN MaxBackups ELSE MinSafe
              IN aged \cup Oldest(normal \ aged, Less(Cardinality(normal \ aged), limit))

\* ... and of the successes only as many as leave MinSafe in the whole system.
Spared(candidates) == Oldest(candidates \cap Successes, Less(Cardinality(Successes), MinSafe))
                      \cup (candidates \ Successes)

Deleting == cleaning.pc = "delete" \/ \E q \in Consoles : console[q].op = "delete"

ReadCandidates == /\ cleaning.pc = "read"
                  /\ cleaning' = [pc |-> "delete", ids |-> Spared(Candidates)]
                  /\ racing' = (racing \/ Deleting)
                  /\ UNCHANGED <<copies, onDisk, night, console>>

\* updateMany by id: also what has been pinned, or deleted, since.
DeleteCandidates ==
    /\ cleaning.pc = "delete"
    /\ copies' = [c \in Copies |-> IF c \in cleaning.ids /\ c \in Rows
                                   THEN [copies[c] EXCEPT !.deletedAt = night] ELSE copies[c]]
    /\ cleaning' = [pc |-> "purge", ids |-> {}]
    /\ UNCHANGED <<onDisk, night, console, racing>>

\* Seeded fault: what is deleted is purged at once.
Purgeable_atOnce(c) == Deleted(c) /\ ~ copies[c].pinned /\ copies[c].normal

Purgeable(c) == /\ Deleted(c) /\ copies[c].deletedAt + PurgeDays < night
                /\ ~ copies[c].pinned /\ copies[c].normal

ReadPurge == /\ cleaning.pc = "purge"
             /\ cleaning' = [pc |-> "files", ids |-> {c \in Rows : Purgeable(c)}]
             /\ UNCHANGED <<copies, onDisk, night, console, racing>>

\* The archive, and then the row; an error of the disk leaves both for another night.
PurgeOne == \E c \in cleaning.ids :
    /\ cleaning.pc = "files"
    /\ cleaning' = [cleaning EXCEPT !.ids = @ \ {c}]
    /\ \/ onDisk' = onDisk \ {c} /\ copies' = [copies EXCEPT ![c].purged = TRUE]
       \/ UNCHANGED <<onDisk, copies>>
       \/ onDisk' = onDisk \ {c} /\ UNCHANGED copies
    /\ UNCHANGED <<night, console, racing>>

RetentionEnds == /\ cleaning.pc = "files" /\ cleaning.ids = {}
                 /\ cleaning' = Asleep
                 /\ UNCHANGED <<copies, onDisk, night, console, racing>>

\* The next night: requests of the day have ended.
NightFalls == /\ cleaning = Asleep /\ night < LastNight
              /\ \A q \in Consoles : console[q] = AtRest
              /\ night' = night + 1
              /\ cleaning' = [pc |-> "read", ids |-> {}]
              /\ UNCHANGED <<copies, onDisk, console, racing>>

-----------------------------------------------------------------------------
(* the console of the owner *)

ReadPin(q) == \E c \in Kept :
    /\ console[q] = AtRest
    /\ console' = [console EXCEPT ![q] = [op |-> "pin", copy |-> c, pinned |-> copies[c].pinned]]
    /\ UNCHANGED <<copies, onDisk, night, cleaning, racing>>

\* The opposite of what was read; a purged row is not found.
TogglePin(q) == LET r == console[q] IN
    /\ r.op = "pin"
    /\ copies' = IF r.copy \in Rows THEN [copies EXCEPT ![r.copy].pinned = ~ r.pinned] ELSE copies
    /\ console' = [console EXCEPT ![q] = AtRest]
    /\ UNCHANGED <<onDisk, night, cleaning, racing>>

\* Not a pinned one, and of the successes not below the minimum.
ReadDelete(q) == \E c \in Kept :
    /\ console[q] = AtRest
    /\ ~ copies[c].pinned
    /\ c \in Successes => Cardinality(Successes) > MinSafe
    /\ console' = [console EXCEPT ![q] = [op |-> "delete", copy |-> c, pinned |-> FALSE]]
    /\ racing' = (racing \/ Deleting)
    /\ UNCHANGED <<copies, onDisk, night, cleaning>>

DeleteInstance(q) == LET c == console[q].copy IN
    /\ console[q].op = "delete"
    /\ copies' = IF c \in Rows THEN [copies EXCEPT ![c].deletedAt = night] ELSE copies
    /\ console' = [console EXCEPT ![q] = AtRest]
    /\ UNCHANGED <<onDisk, night, cleaning, racing>>

RetentionNext == \/ ReadCandidates \/ DeleteCandidates \/ ReadPurge \/ PurgeOne \/ RetentionEnds
                 \/ NightFalls
                 \/ \E q \in Consoles : ReadPin(q) \/ TogglePin(q) \/ ReadDelete(q) \/ DeleteInstance(q)

RetentionSpec == RetentionInit /\ [][RetentionNext]_retentionVars

-----------------------------------------------------------------------------
(* Properties *)

RetentionTypeOK ==
    /\ \A c \in Copies : /\ copies[c].status \in {"SUCCESS", "FAILED"}
                         /\ {copies[c].normal, copies[c].pinned, copies[c].purged} \subseteq BOOLEAN
                         /\ copies[c].deletedAt \in 0..Never
    /\ onDisk \subseteq Copies /\ night \in 0..LastNight
    /\ cleaning.pc \in {"read", "delete", "purge", "files", "done"} /\ cleaning.ids \subseteq Copies

\* A pinned copy can be restored: the pin may race the retention, which then marks the row, but
\* the archive outlives every request that was in progress.
PinnedIsKept == \A c \in Copies : copies[c].pinned /\ copies[c].status = "SUCCESS" => c \in onDisk

\* The retention and the console keep the minimum of successful copies, as long as no deletion
\* overlaps another one (each counts before it deletes).
MinimumKept == LET made == {c \in Copies : copies[c].status = "SUCCESS"}
               IN ~ racing /\ Cardinality(made) >= MinSafe => Cardinality(Successes) >= MinSafe

\* What the retention and the console promise of the copies, whatever they delete
\* (retention.service.ts:142-185 and 216-285, backup.controller.ts:252-295).
CopiesKept == PinnedIsKept /\ MinimumKept
=============================================================================
