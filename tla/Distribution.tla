----------------------------- MODULE Distribution -----------------------------
(***************************************************************************)
(* A lesson of the platform on its way to the schools: it is edited, made  *)
(* ready and taken back by its author, distributed to schools by an admin, *)
(* and copied by the teachers of a school, who are then told whether the   *)
(* platform has a later version than the one they copied.                  *)
(*                                                                         *)
(* Content is an edition number, of the blocks and of the questions.  The  *)
(* blocks are written in one statement and the version is raised in        *)
(* another; a copy is made in a transaction, of a version read before it.  *)
(* The unit and the subject the copy goes to are left out.                 *)
(***************************************************************************)
EXTENDS Naturals, Sequences, FiniteSets

CONSTANTS Schools,     \* active schools
          LibraryJobs, \* requests in progress at one time
          MaxContent,  \* bound: editions of the content
          MaxForks,    \* bound: copies made
          MaxBatches   \* bound: rows of distribution_batches

ASSUME DistributionAssumption == {MaxContent, MaxForks, MaxBatches} \subseteq Nat

VARIABLES source,      \* the lesson template of the platform
          distributed, \* the schools with a row of content_distributions: the copy it names, 0 if none
          forks,       \* the copies: school, sourceVersion, the content copied
          batches,     \* how many rows each batch says it has, and how many it got
          library,     \* where each request is, and what it has read
          unversioned  \* an edit whose version was not raised

libraryVars == <<source, distributed, forks, batches, library, unversioned>>

InLobby == [pc |-> "idle", schools |-> {}, version |-> 0, blocks |-> 0]

DistributionInit == /\ source = [status |-> "DRAFT", live |-> TRUE, version |-> 1, blocks |-> 1, questions |-> 1]
                    /\ distributed = [s \in {} |-> 0]
                    /\ forks = << >>
                    /\ batches = << >>
                    /\ library = [j \in LibraryJobs |-> InLobby]
                    /\ unversioned = FALSE

Enters(j, r) == library[j] = InLobby /\ library' = [library EXCEPT ![j] = r]
Exits(j, pc) == library[j].pc = pc /\ library' = [library EXCEPT ![j] = InLobby]

-----------------------------------------------------------------------------
(* The author *)

\* updateLesson and everything done to blocks and items: written, ...
EditBlocks(j) == /\ source.live /\ source.blocks < MaxContent
                 /\ Enters(j, [InLobby EXCEPT !.pc = "bump"])
                 /\ source' = [source EXCEPT !.blocks = @ + 1]
                 /\ UNCHANGED <<distributed, forks, batches, unversioned>>

\* ... and then the version is raised.
BumpVersion(j) == /\ Exits(j, "bump")
                  /\ source' = [source EXCEPT !.version = @ + 1]
                  /\ UNCHANGED <<distributed, forks, batches, unversioned>>

BumpLost(j) == /\ Exits(j, "bump")
               /\ unversioned' = TRUE
               /\ UNCHANGED <<source, distributed, forks, batches>>

\* Questions are created, replaced, deleted and put in order without a new version.
EditQuestions == /\ source.live /\ source.questions < MaxContent
                 /\ source' = [source EXCEPT !.questions = @ + 1]
                 /\ UNCHANGED <<distributed, forks, batches, library, unversioned>>

\* The status is written whatever it was.
UpdateStatus == \E status \in {"DRAFT", "READY"} :
    /\ source.live
    /\ source' = [source EXCEPT !.status = status]
    /\ UNCHANGED <<distributed, forks, batches, library, unversioned>>

CheckLessonDraft(j) == /\ source.live /\ source.status = "DRAFT"
                       /\ Enters(j, [InLobby EXCEPT !.pc = "delete"])
                       /\ UNCHANGED <<source, distributed, forks, batches, unversioned>>

DeletePlatformLesson(j) == /\ Exits(j, "delete")
                           /\ source' = [source EXCEPT !.live = FALSE]
                           /\ UNCHANGED <<distributed, forks, batches, unversioned>>

-----------------------------------------------------------------------------
(* The admin: distribute *)

\* The schools that have the lesson already are skipped; if all have, that is all.
ReadDistributions(j) == \E chosen \in SUBSET Schools :
    LET new == chosen \ DOMAIN distributed
    IN  /\ source.live /\ source.status = "READY" /\ new # {}
        /\ Enters(j, [InLobby EXCEPT !.pc = "batch", !.schools = new])
        /\ UNCHANGED <<source, distributed, forks, batches, unversioned>>

CreateBatch(j) == /\ library[j].pc = "batch"
                  /\ Len(batches) < MaxBatches
                  /\ batches' = Append(batches, [said |-> library[j].schools, got |-> {}])
                  /\ library' = [library EXCEPT ![j].pc = "rows", ![j].version = Len(batches')]
                  /\ UNCHANGED <<source, distributed, forks, unversioned>>

\* createMany: all of them, or none if another request has made one of them.
CreateDistributions(j) ==
    LET new == library[j].schools IN
    /\ Exits(j, "rows")
    /\ IF new \cap DOMAIN distributed = {}
       THEN /\ distributed' = [s \in DOMAIN distributed \cup new |->
                                  IF s \in new THEN 0 ELSE distributed[s]]
            /\ batches' = [batches EXCEPT ![library[j].version].got = new]
       ELSE UNCHANGED <<distributed, batches>>
    /\ UNCHANGED <<source, forks, unversioned>>

-----------------------------------------------------------------------------
(* The teachers: forkLesson, forkForPublish *)

HasFork(s) == distributed[s] # 0 /\ forks[distributed[s]].live

\* The version is that of the row read here.
ReadSource(j) == \E s \in DOMAIN distributed :
    /\ source.live /\ ~HasFork(s)
    /\ Enters(j, [InLobby EXCEPT !.pc = "fork", !.schools = {s}, !.version = source.version])
    /\ UNCHANGED <<source, distributed, forks, batches, unversioned>>

\* What is deleted is not found: nothing is copied.
Found(edition) == IF source.live THEN edition ELSE 0

CopyBlocksAndItems(j) == /\ library[j].pc = "fork"
                         /\ library' = [library EXCEPT ![j].pc = "questions", ![j].blocks = Found(source.blocks)]
                         /\ UNCHANGED <<source, distributed, forks, batches, unversioned>>

\* Seeded fault: the copy is given the version of the moment it is committed.
CopyQuestions_versionNow(j) == \E s \in library[j].schools :
    /\ Len(forks) < MaxForks
    /\ Exits(j, "questions")
    /\ forks' = Append(forks, [school |-> s, version |-> source.version, blocks |-> library[j].blocks,
                               questions |-> Found(source.questions), live |-> TRUE])
    /\ distributed' = [distributed EXCEPT ![s] = Len(forks')]
    /\ UNCHANGED <<source, batches, unversioned>>

\* The rest of the copy and its name in the distribution, with the COMMIT.
CopyQuestions(j) == \E s \in library[j].schools :
    /\ Len(forks) < MaxForks
    /\ Exits(j, "questions")
    /\ forks' = Append(forks, [school |-> s, version |-> library[j].version, blocks |-> library[j].blocks,
                               questions |-> Found(source.questions), live |-> TRUE])
    /\ distributed' = [distributed EXCEPT ![s] = Len(forks')]
    /\ UNCHANGED <<source, batches, unversioned>>

\* A teacher deletes a copy, which may be made again.
DeleteFork == \E n \in DOMAIN forks :
    /\ forks[n].live
    /\ forks' = [forks EXCEPT ![n].live = FALSE]
    /\ UNCHANGED <<source, distributed, batches, library, unversioned>>

\* A statement fails, or the server stops.
GiveUp(j) == /\ library[j].pc \in {"delete", "batch", "rows", "fork", "questions"}
             /\ Exits(j, library[j].pc)
             /\ UNCHANGED <<source, distributed, forks, batches, unversioned>>

\* getPlatformLessons: what a teacher is told of the lesson.
StateOf(s) == IF ~HasFork(s) THEN "new"
              ELSE IF source.version > forks[distributed[s]].version THEN "updated" ELSE "forked"

-----------------------------------------------------------------------------
Author(j) == EditBlocks(j) \/ BumpVersion(j) \/ BumpLost(j) \/ CheckLessonDraft(j) \/ DeletePlatformLesson(j)
Admin(j) == ReadDistributions(j) \/ CreateBatch(j) \/ CreateDistributions(j)
Teacher(j) == ReadSource(j) \/ CopyBlocksAndItems(j) \/ CopyQuestions(j)

DistributionNext == \/ EditQuestions \/ UpdateStatus \/ DeleteFork
                    \/ \E j \in LibraryJobs : Author(j) \/ Admin(j) \/ Teacher(j) \/ GiveUp(j)
DistributionSpec == DistributionInit /\ [][DistributionNext]_libraryVars

-----------------------------------------------------------------------------
(* Properties *)

DistributionTypeOK ==
    /\ source \in [status : {"DRAFT", "READY"}, live : BOOLEAN, version : 1 .. MaxContent,
                   blocks : 1 .. MaxContent, questions : 1 .. MaxContent]
    /\ DOMAIN distributed \subseteq Schools
    /\ \A s \in DOMAIN distributed : distributed[s] # 0 => forks[distributed[s]].school = s
    /\ \A n \in DOMAIN forks : forks[n].version \in 1 .. MaxContent
    /\ \A b \in DOMAIN batches : batches[b].got \subseteq batches[b].said
    /\ DOMAIN library = LibraryJobs /\ unversioned \in BOOLEAN

\* A copy that is shown as up to date has the blocks the platform's lesson has
\* (platform-content.service.ts:184-194 and 433-499 against the bumpVersion after each edit,
\* platform-lessons.service.ts:25-34), however copies and edits overlap; it is too late only
\* while an edit has yet to raise the version, or when that failed.
CopyIsCurrent == source.live /\ ~unversioned /\ (\A j \in LibraryJobs : library[j].pc # "bump") =>
    \A s \in DOMAIN distributed :
        StateOf(s) = "forked" => forks[distributed[s]].blocks = source.blocks
=============================================================================
