------------------------------- MODULE MCParts --------------------------------
(***************************************************************************)
(* Parts of the system that share no state with one another: backups and  *)
(* their retention, and what becomes of the content: its order, the copies *)
(* of the platform's lessons, quizzes, the devices of the students and the *)
(* reports.  A behaviour is one of one part, while the others rest in a    *)
(* state they may start in.                                                *)
(***************************************************************************)
EXTENDS MCBackupRestore, Retention, Quiz, SyncPull, Reports, OrderedContent, Distribution

VARIABLE part

Parts == {"backups", "retention", "quiz", "sync", "reports", "lists", "distribution"}

partVars == <<part, vars, retentionVars, qVars, syncVars, reportVars, listVars, libraryVars>>

-----------------------------------------------------------------------------
(* Where a component rests: some constants have to be fixed for it. *)

CONSTANT q1

RetentionRests == RetentionInit /\ \A c \in Copies : c \in onDisk /\ copies[c].normal /\ ~copies[c].old
QuizRests == QuizInit /\ asked = {q1}
SyncRests == /\ SyncInit /\ seen = {}
             /\ \A t \in Feeds, u \in Uuids : tables[t][u].stamp = 0
ReportsRests == ReportsInit /\ term = 1 /\ active = {}
ListsRests == ListsInit /\ kind = "units"

Begins(p, init, rests) == IF part = p THEN init ELSE rests

PartInit ==
    /\ part \in Parts
    /\ Init
    /\ Begins("retention", RetentionInit, RetentionRests)
    /\ Begins("quiz", QuizInit, QuizRests)
    /\ Begins("sync", SyncInit, SyncRests)
    /\ Begins("reports", ReportsInit, ReportsRests)
    /\ Begins("lists", ListsInit, ListsRests)
    /\ DistributionInit

OthersRest(p) ==
    /\ part = p /\ part' = part
    /\ p # "backups" => UNCHANGED vars
    /\ p # "retention" => UNCHANGED retentionVars
    /\ p # "quiz" => UNCHANGED qVars
    /\ p # "sync" => UNCHANGED syncVars
    /\ p # "reports" => UNCHANGED reportVars
    /\ p # "lists" => UNCHANGED listVars
    /\ p # "distribution" => UNCHANGED libraryVars

PartNext ==
    \/ OthersRest("backups") /\ Next
    \/ OthersRest("retention") /\ RetentionNext
    \/ OthersRest("quiz") /\ QuizNext
    \/ OthersRest("sync") /\ SyncNext
    \/ OthersRest("reports") /\ ReportsNext
    \/ OthersRest("lists") /\ ListsNext
    \/ OthersRest("distribution") /\ DistributionNext

\* Two requests of one kind differ in nothing but their names: a state stands for the one where
\* those of every kind have changed places.
Kin == {Backups, Consoles, QJobs, Editors}
Swap == {f \in Permutations(UNION Kin) : \/ \A x \in UNION Kin : f[x] = x
                                        \/ \A K \in Kin : \A x \in K : f[x] \in K \ {x}}

\* Of the lists, what two overlapping requests leave behind is not looked into.
Tidy == part = "lists" => tidy

PartSpec == PartInit /\ [][PartNext]_partVars

-----------------------------------------------------------------------------
\* The types of every part.
PartTypes == TypeOK /\ RetentionTypeOK /\ QuizTypeOK /\ SyncTypeOK /\ ReportsTypeOK
             /\ ListsTypeOK /\ DistributionTypeOK
=============================================================================
