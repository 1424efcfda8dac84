---------------------------- MODULE AcademicYears ----------------------------
(***************************************************************************)
(* The years and terms of one school, the enrolment of one student per     *)
(* name in Pupils, and the rollover that closes a year and enrols the      *)
(* pupils in the next one.  Requests read outside of their transaction     *)
(* (or have none) and write later: "office" holds what each has read.      *)
(*                                                                         *)
(* The dates of a term say whether it has begun; its end only matters to   *)
(* the form that edits it.  Two rows that may not both be current are kept *)
(* apart by partial unique indexes of the database, here CurrentIsFree.    *)
(* The terms of a year that is no longer current are dropped: nothing here *)
(* reads them, and what is still written to them has no effect.            *)
(* Grades are numbered by sortOrder, and the map of a rollover sends every *)
(* grade to the next one; sections are left out (the rollover creates the  *)
(* missing ones before it enrols anybody).                                 *)
(***************************************************************************)
EXTENDS Naturals, Sequences

CONSTANTS Pupils, Clerks, LastGrade, \* clerks are requests in progress at a time
          MaxYears, MaxYearTerms     \* bounds: years made; terms of a year (3 in the code)

ASSUME YearsAssumption == LastGrade \in Nat \ {0} /\ {MaxYears, MaxYearTerms} \subseteq Nat \ {0}

VARIABLES years,    \* sequence of years: whether current, the year a rollover made it from, its terms
          enrolled, \* per pupil, the enrolments by year: grade (0 if none) and isCurrent
          office,   \* what each request in progress has read
          moved     \* what the last rollover did to the pupils with one current enrolment

yearVars == <<years, enrolled, office, moved>>

Fates == {"NONE", "REPEATED", "WITHDRAWN"}
Out == [grade |-> 0, current |-> FALSE]
Past(y) == [y EXCEPT !.current = FALSE, !.terms = <<>>]
AtDesk == [op |-> "none", year |-> 0, term |-> 0, pupil |-> 0]

NewTerm(current, begun) == [current |-> current, begun |-> begun, live |-> TRUE]

\* The set-up of the school: its first year, current; pupils are added to any grade.
YearsInit ==
    /\ \E begun \in BOOLEAN :
         years = <<[current |-> TRUE, from |-> 0, terms |-> <<NewTerm(begun, begun)>>]>>
    /\ \E grade \in [Pupils -> 1..LastGrade] :
         enrolled = [p \in Pupils |-> [y \in 1..MaxYears |->
                        IF y = 1 THEN [grade |-> grade[p], current |-> TRUE] ELSE Out]]
    /\ office = [c \in Clerks |-> AtDesk]
    /\ moved = {}

CurrentYears == {y \in DOMAIN years : years[y].current}
LiveTerms(y) == {t \in DOMAIN years[y].terms : years[y].terms[t].live}
CurrentTerms(y) == {t \in LiveTerms(y) : years[y].terms[t].current}
CurrentEnrolments(p) == {y \in 1..MaxYears : enrolled[p][y].current}

\* Seeded fault: no index keeps a second year from being current.
CurrentIsFree_always(current) == TRUE

\* years_one_current_per_school and terms_one_current_per_year: refuse the insert or update.
CurrentIsFree(current) == current = {}

AtOffice(c, r) == office[c] = AtDesk /\ office' = [office EXCEPT ![c] = r]
Done(c, op) == office[c].op = op /\ office' = [office EXCEPT ![c] = AtDesk]

-----------------------------------------------------------------------------
(* terms *)

\* createYear: one transaction takes "current" from the old year and gives it to the new one.
CreateYear == \E begun \in BOOLEAN :
    /\ years' = Append([y \in DOMAIN years |-> Past(years[y])], [current |-> TRUE, from |-> 0, terms |-> <<NewTerm(TRUE, begun)>>])
    /\ UNCHANGED <<enrolled, office, moved>>

\* addTerm: after the last one; two at once have one order, and the index refuses the second.
AddTerm == \E y \in CurrentYears :
    /\ Len(years[y].terms) < MaxYearTerms
    /\ years' = [years EXCEPT ![y].terms = Append(@, NewTerm(FALSE, FALSE))]
    /\ UNCHANGED <<enrolled, office, moved>>

\* advanceToNextTerm: reads and writes in one transaction.
AdvanceToNextTerm == \E y \in CurrentYears : \E t \in CurrentTerms(y), next \in LiveTerms(y) :
    /\ next > t
    /\ \A u \in LiveTerms(y) : u > t => u >= next
    /\ years' = [years EXCEPT ![y].terms[t].current = FALSE, ![y].terms[next].current = TRUE]
    /\ UNCHANGED <<enrolled, office, moved>>

\* deleteTerm, startTerm and endCurrentTerm check first, ...
BeginTerm(c) == \E y \in DOMAIN years : \E t \in LiveTerms(y), op \in {"delete", "start", "end"} :
    /\ CASE op = "delete" -> ~ years[y].terms[t].current /\ ~ years[y].terms[t].begun /\ LiveTerms(y) # {t}
         [] op = "start" -> years[y].current /\ CurrentTerms(y) = {}
         [] op = "end" -> years[y].current /\ years[y].terms[t].current
    /\ AtOffice(c, [AtDesk EXCEPT !.op = op, !.year = y, !.term = t])
    /\ UNCHANGED <<years, enrolled, moved>>

\* ... and write by the id of the term, whatever it has become.
TermAsked(c) == years[office[c].year].terms[office[c].term]

WriteTerm(c, op, new) == LET y == office[c].year
                             t == office[c].term
                         IN /\ Done(c, op)
                            /\ years' = IF t \in DOMAIN years[y].terms
                                        THEN [years EXCEPT ![y].terms[t] = new] ELSE years
                            /\ UNCHANGED <<enrolled, moved>>

DeleteTerm(c) == WriteTerm(c, "delete", [TermAsked(c) EXCEPT !.live = FALSE])

EndCurrentTerm(c) == WriteTerm(c, "end", [TermAsked(c) EXCEPT !.current = FALSE])

\* A second current term: the index refuses.
StartTerm(c) == LET others == CurrentTerms(office[c].year) \ {office[c].term}
                    term == TermAsked(c)
                IN WriteTerm(c, "start", IF term.live => CurrentIsFree(others)
                                         THEN [term EXCEPT !.current = TRUE, !.begun = TRUE] ELSE term)

\* updateTerm and the days: a term begins, and one that is not current may be put off again.
TermDates == \E y \in DOMAIN years : \E t \in LiveTerms(y) :
    /\ years[y].terms[t].current => ~ years[y].terms[t].begun
    /\ years' = [years EXCEPT ![y].terms[t].begun = ~ @]
    /\ UNCHANGED <<enrolled, office, moved>>

-----------------------------------------------------------------------------
(* enrolments *)

\* transferGrade and dropEnrollment read the active enrolment, reEnroll the current year.
BeginEnrolment(c) == \E p \in Pupils, y \in 1..MaxYears, op \in {"transfer", "drop", "reEnroll"} :
    /\ IF op = "reEnroll" THEN y \in CurrentYears /\ CurrentEnrolments(p) = {}
                          ELSE y \in CurrentEnrolments(p)
    /\ AtOffice(c, [AtDesk EXCEPT !.op = op, !.year = y, !.pupil = p])
    /\ UNCHANGED <<years, enrolled, moved>>

TransferGrade(c) == \E grade \in 1..LastGrade :
    /\ Done(c, "transfer")
    /\ enrolled' = [enrolled EXCEPT ![office[c].pupil][office[c].year].grade = grade]
    /\ UNCHANGED <<years, moved>>

DropEnrollment(c) ==
    /\ Done(c, "drop")
    /\ enrolled' = [enrolled EXCEPT ![office[c].pupil][office[c].year].current = FALSE]
    /\ UNCHANGED <<years, moved>>

\* The row of the year is current again with its grade, or a new one is made.
ReEnroll(c) == \E grade \in 1..LastGrade : LET r == office[c] IN
    /\ Done(c, "reEnroll")
    /\ enrolled' = [enrolled EXCEPT ![r.pupil][r.year] =
                       [grade |-> IF @.grade = 0 THEN grade ELSE @.grade, current |-> TRUE]]
    /\ UNCHANGED <<years, moved>>

-----------------------------------------------------------------------------
(* rollover *)

\* The branches of execute, in their order: the grade of the new enrolment, 0 for none.
NewGrade(fate, grade) == CASE fate = "WITHDRAWN" -> 0
                           [] fate = "REPEATED" -> grade
                           [] grade = LastGrade -> 0
                           [] OTHER -> grade + 1

\* The grades one by one, each with the enrolments that are current when its turn comes:
\* those just created are among them.  Exceptions are by enrolment, and are of the old ones.
MoveGrade(e, grade, fate, new) == [p \in Pupils |->
    LET here == {y \in 1..MaxYears : e[p][y].current /\ e[p][y].grade = grade}
        goes == IF new \in here THEN NewGrade("NONE", grade) ELSE NewGrade(fate[p], grade)
    IN [y \in 1..MaxYears |->
          CASE here # {} /\ y = new /\ goes # 0 -> [grade |-> goes, current |-> TRUE]
            [] y \in here -> [e[p][y] EXCEPT !.current = FALSE]
            [] OTHER -> e[p][y]]]

MoveAll(fate, new) == LET after[g \in 0..LastGrade] ==
    IF g = 0 THEN enrolled ELSE MoveGrade(after[g-1], g, fate, new)
    IN after[LastGrade]

\* checkEligibility, before the transaction: the current year has no current term, and is the last.
BeginRollover(c) == \E y \in CurrentYears :
    /\ CurrentTerms(y) = {}
    /\ y = Len(years)
    /\ AtOffice(c, [AtDesk EXCEPT !.op = "rollover", !.year = y])
    /\ UNCHANGED <<years, enrolled, moved>>

\* What becomes of the pupils who have one enrolment when the transaction begins.
Moves(fate, to, new) ==
    {[pupil |-> m[1], fate |-> fate[m[1]], grade |-> enrolled[m[1]][m[2]].grade,
      next |-> IF to[m[1]][new].current THEN to[m[1]][new].grade ELSE 0] :
     m \in {q \in Pupils \X (1..MaxYears) : CurrentEnrolments(q[1]) = {q[2]}}}

Rollover(c) == \E fate \in [Pupils -> Fates], begun \in BOOLEAN :
    LET old == office[c].year
        new == Len(years) + 1
    IN /\ Done(c, "rollover")
       /\ CurrentIsFree(CurrentYears \ {old})
       /\ new <= MaxYears
       /\ years' = Append([years EXCEPT ![old] = Past(@)],
                          [current |-> TRUE, from |-> old, terms |-> <<NewTerm(begun, begun)>>])
       /\ enrolled' = MoveAll(fate, new)
       /\ moved' = Moves(fate, enrolled', new)

\* A second current year: the index rolls the transaction back.
RolloverRefused(c) == /\ Done(c, "rollover")
                      /\ ~ CurrentIsFree(CurrentYears \ {office[c].year}) \/ Len(years) = MaxYears
                      /\ UNCHANGED <<years, enrolled, moved>>

\* In the last year of the bound nothing more is asked; what was is finished.
YearsNext ==
    \/ /\ Len(years) < MaxYears
       /\ \/ CreateYear \/ AddTerm \/ AdvanceToNextTerm \/ TermDates
          \/ \E c \in Clerks : BeginTerm(c) \/ BeginEnrolment(c) \/ BeginRollover(c)
    \/ \E c \in Clerks : \/ DeleteTerm(c) \/ StartTerm(c) \/ EndCurrentTerm(c)
                         \/ TransferGrade(c) \/ DropEnrollment(c) \/ ReEnroll(c)
                         \/ Rollover(c) \/ RolloverRefused(c)

YearsSpec == YearsInit /\ [][YearsNext]_yearVars

-----------------------------------------------------------------------------
(* Properties *)

YearsTypeOK ==
    /\ \A y \in DOMAIN years :
         /\ years[y].current \in BOOLEAN /\ years[y].from \in 0..(y - 1)
         /\ \A t \in DOMAIN years[y].terms :
              years[y].terms[t] \in [current: BOOLEAN, begun: BOOLEAN, live: BOOLEAN]
    /\ enrolled \in [Pupils -> [1..MaxYears -> [grade: 0..LastGrade, current: BOOLEAN]]]
    /\ DOMAIN office = Clerks
    /\ \A m \in moved : m.pupil \in Pupils /\ m.next \in 0..LastGrade

\* A year is rolled over once: of two executions that both found it eligible, or one that raced
\* the creation of a year, only one makes a year and moves the pupils.
RolledOverOnce == \A y, z \in DOMAIN years : years[y].from = years[z].from /\ years[y].from # 0 => y = z

\* A pupil who is promoted goes to the next grade, one who finished the last grade leaves.
PromotedToTheNext == \A m \in moved : m.fate = "NONE" =>
                        m.next = IF m.grade = LastGrade THEN 0 ELSE m.grade + 1
=============================================================================
