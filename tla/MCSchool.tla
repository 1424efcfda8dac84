------------------------------- MODULE MCSchool --------------------------------
(***************************************************************************)
(* The parts of a school's administration that share no state with one    *)
(* another: its subscription, the imports of its people, and the subjects  *)
(* and sections of a grade.  A behaviour is one of one part, while the     *)
(* others rest in a state they may start in.                               *)
(***************************************************************************)
EXTENDS Subscription, Imports, SchoolStructure, TLC

VARIABLE part

Parts == {"subscription", "imports", "structure"}

partVars == <<part, vars, importVars, structureVars>>

-----------------------------------------------------------------------------
(* Where a component rests: some constants have to be fixed for it. *)

CONSTANTS n1, f1

ImportsRests == /\ ImportsInit /\ phone = [n \in Names |-> f1]
                /\ \A i \in Imports : imported[i].type = "STUDENTS"
StructureRests == StructureInit /\ LiveSubjects = {}

Begins(p, init, rests) == IF part = p THEN init ELSE rests

SchoolInit ==
    /\ part \in Parts
    /\ Init
    /\ Begins("imports", ImportsInit, ImportsRests)
    /\ Begins("structure", StructureInit, StructureRests)

OthersRest(p) ==
    /\ part = p /\ part' = part
    /\ p # "subscription" => UNCHANGED vars
    /\ p # "imports" => UNCHANGED importVars
    /\ p # "structure" => UNCHANGED structureVars

SchoolNext ==
    \/ OthersRest("subscription") /\ Next
    \/ OthersRest("imports") /\ ImportsNext
    \/ OthersRest("structure") /\ StructureNext

SchoolSpec == SchoolInit /\ [][SchoolNext]_partVars

\* Two requests of one kind differ in nothing but their names, nor do two students.
Kin == {Jobs, Clerks}
Swap == {f \in Permutations(UNION Kin) : \A K \in Kin : \A x \in K : f[x] \in K \ {x}}
Symmetry == Swap \cup Permutations(Students)

-----------------------------------------------------------------------------
\* The types of every part.
SchoolTypes == TypeOK /\ ImportsTypeOK /\ StructureTypeOK
=============================================================================
