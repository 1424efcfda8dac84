------------------------------- MODULE MCPeople -------------------------------
(***************************************************************************)
(* The students of a school: they register, they log in, and are enrolled  *)
(* year after year.  The three share no state here: a behaviour is one of  *)
(* one of them, while the others rest in a state they may start in.        *)
(*                                                                         *)
(* Two requests at a time; registrations are of one phone and three names: *)
(* locks, limits and queries are of one phone, and phones share nothing.   *)
(***************************************************************************)
EXTENDS Registration, Sessions, AcademicYears, TLC

VARIABLE part

peopleVars == <<part, vars, sessionVars, yearVars>>

RegistrationRests == Init /\ otpEnabled /\ ~delegated
SessionsRest == SessionsInit /\ platform
YearsRest == /\ YearsInit /\ years[1].terms[1].begun
             /\ \A p \in Pupils : enrolled[p][1].grade = 1

Begins(p, init, rests) == IF part = p THEN init ELSE rests

PeopleInit == /\ part \in {"registration", "sessions", "years"}
              /\ Begins("registration", Init, RegistrationRests)
              /\ Begins("sessions", SessionsInit, SessionsRest)
              /\ Begins("years", YearsInit, YearsRest)

OthersRest(p) == /\ part = p /\ part' = part
                 /\ p # "registration" => UNCHANGED vars
                 /\ p # "sessions" => UNCHANGED sessionVars
                 /\ p # "years" => UNCHANGED yearVars

PeopleNext == \/ OthersRest("registration") /\ Next
              \/ OthersRest("sessions") /\ SessionsNext
              \/ OthersRest("years") /\ YearsNext

PeopleSpec == PeopleInit /\ [][PeopleNext]_peopleVars

\* Names are alike; so are two requests, and a state stands for the one where those of every
\* kind have changed places.
Kin == {Jobs, AuthJobs, Clerks}
Alike == {f \in Permutations(Names \cup UNION Kin) :
             /\ \A x \in Names : f[x] \in Names
             /\ \/ \A x \in UNION Kin : f[x] = x
                \/ \A K \in Kin : \A x \in K : f[x] \in K \ {x}}

\* The types of all three.
PeopleTypes == TypeOK /\ SessionsTypeOK /\ YearsTypeOK
=============================================================================
