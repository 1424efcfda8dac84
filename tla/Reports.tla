------------------------------- MODULE Reports -------------------------------
(***************************************************************************)
(* What the manager, the parents and the student are shown of the progress *)
(* and the results of one student.  Each view is computed by queries of    *)
(* its own; here they are operators, and the actions are what changes the  *)
(* tables they read.  Percentages, labels, charts and paging are left out. *)
(***************************************************************************)
EXTENDS Naturals, Sequences, FiniteSets, Functions

CONSTANTS Subjects,    \* of the grade of the student
          Terms,       \* of the current year
          NoTerm,      \* no term is current
          Scores,      \* points of an attempt, in the least part of a point that is given
          MaxAttempts, \* bound: attempts submitted
          MaxTerms,    \* bound: times the current term is changed
          MaxPublished \* bound: lessons published

ASSUME ReportsAssumption == /\ IsFiniteSet(Subjects) /\ Scores \subseteq Nat /\ NoTerm \notin Terms
                            /\ {MaxAttempts, MaxTerms, MaxPublished} \subseteq Nat

Lessons == Subjects \X Terms

VARIABLES term,      \* the current term,
          changes,   \* how often it was changed
          published, \* lessons published to the section, the latest last
          deleted,   \* lessons taken back since
          active,    \* subjects not deactivated
          done,      \* lessons with a COMPLETED row of student_lesson_progress
          sending,   \* attempts whose calculatedAt is taken, to be inserted
          attempts,  \* student_lesson_results, in the order of createdAt
          crossed    \* lessons of which two attempts were sent at a time

reportVars == <<term, changes, published, deleted, active, done, sending, attempts, crossed>>

ReportsInit == /\ term \in Terms
               /\ changes = 0
               /\ published = << >>
               /\ deleted = {}
               /\ active \in SUBSET Subjects
               /\ done = {}
               /\ sending = {}
               /\ attempts = << >>
               /\ crossed = {}

SeqSet(s) == {s[n] : n \in DOMAIN s}
Attempted == Len(attempts) + Cardinality(sending)

-----------------------------------------------------------------------------
Publish == \E l \in Lessons \ SeqSet(published) :
    /\ term = l[2] /\ Len(published) < MaxPublished
    /\ published' = Append(published, l)
    /\ UNCHANGED <<term, changes, deleted, active, done, sending, attempts, crossed>>

TakeBack == \E l \in SeqSet(published) \ deleted :
    /\ deleted' = deleted \cup {l}
    /\ UNCHANGED <<term, changes, published, active, done, sending, attempts, crossed>>

ChangeTerm == \E t \in (Terms \cup {NoTerm}) \ {term} :
    /\ changes < MaxTerms
    /\ term' = t
    /\ changes' = changes + 1
    /\ UNCHANGED <<published, deleted, active, done, sending, attempts, crossed>>

CompleteLesson == \E l \in SeqSet(published) \ done :
    /\ done' = done \cup {l}
    /\ UNCHANGED <<term, changes, published, deleted, active, sending, attempts, crossed>>

\* calculatedAt is new Date() of the server before the insert, createdAt the
\* moment of the insert.
SendAttempt == \E l \in SeqSet(published), e \in Scores :
    /\ Attempted < MaxAttempts
    /\ sending' = sending \cup {[lesson |-> l, score |-> e, calculatedAt |-> Attempted]}
    /\ crossed' = IF \E x \in sending : x.lesson = l THEN crossed \cup {l} ELSE crossed
    /\ UNCHANGED <<term, changes, published, deleted, active, done, attempts>>

InsertResult == \E x \in sending :
    /\ sending' = sending \ {x}
    /\ attempts' = Append(attempts, x)
    /\ UNCHANGED <<term, changes, published, deleted, active, done, crossed>>

ReportsNext == Publish \/ TakeBack \/ ChangeTerm \/ CompleteLesson \/ SendAttempt \/ InsertResult
ReportsSpec == ReportsInit /\ [][ReportsNext]_reportVars

-----------------------------------------------------------------------------
(* The context: the manager is shown the current term, parents fall back on the *)
(* term of what was published last. *)

Visible == SeqSet(published) \ deleted
LatestOf(ls) == published[CHOOSE n \in DOMAIN published :
    published[n] \in ls /\ \A m \in DOMAIN published : published[m] \in ls => m <= n]

ReportContext == term
AcademicContext == IF term # NoTerm \/ Visible = {} THEN term ELSE LatestOf(Visible)[2]

\* The periods of a report; the week and the month are left out.  A lesson is
\* published on a day of its own, and the last day is that of the lessons asked for.
Periods == {"full_semester", "last_day"}
LastPublishedDay(ls) == IF ls = {} THEN {} ELSE {LatestOf(ls)}
During(ls, period) == IF period = "last_day" THEN LastPublishedDay(ls) ELSE ls

Targets(subjects, t) == {l \in Visible : l[1] \in subjects /\ l[2] = t}

-----------------------------------------------------------------------------
(* Results: the last attempt, by one of two times *)

ResultsOf(l) == {n \in DOMAIN attempts : attempts[n].lesson = l}
Evaluated(l) == ResultsOf(l) # {}

\* Seeded fault: the best attempt is taken.
LastResult_best(l) == CHOOSE n \in ResultsOf(l) :
    \A m \in ResultsOf(l) : attempts[m].score <= attempts[n].score

LastResult(l) == CHOOSE n \in ResultsOf(l) : \A m \in ResultsOf(l) : m <= n

LastAttempt(l) == CHOOSE n \in ResultsOf(l) :
    \A m \in ResultsOf(l) : attempts[m].calculatedAt <= attempts[n].calculatedAt

Points(last) == SumFunction([l \in DOMAIN last |-> attempts[last[l]].score])

-----------------------------------------------------------------------------
(* The reports of the manager *)

Count(ls, completed) == [total |-> Cardinality(ls), completed |-> Cardinality(ls \cap completed)]

\* Seeded fault: what has a result is completed.
CalculateStudentProgress_byResults(subjects, period) ==
    Count(During(Targets(subjects, ReportContext), period), {l \in Lessons : Evaluated(l)})

CalculateStudentProgress(subjects, period) ==
    Count(During(Targets(subjects, ReportContext), period), done)

CalculateStudentGrades(subjects, period) ==
    LET ls == During(Targets(subjects, ReportContext), period)
        evaluated == {l \in ls : Evaluated(l)}
    IN  [evaluated |-> Cardinality(evaluated), earned |-> Points([l \in evaluated |-> LastAttempt(l)])]

\* One row for each student, none without a term.
PerStudent(row) == IF term = NoTerm THEN {} ELSE {row}
StudentProgressReport(subjects, period) == PerStudent(CalculateStudentProgress(subjects, period))
StudentGradesReport(subjects, period) == PerStudent(CalculateStudentGrades(subjects, period))
ComprehensiveReport(subjects, period) == PerStudent([progress |-> CalculateStudentProgress(subjects, period),
                                               grades |-> CalculateStudentGrades(subjects, period)])

\* The summary is of every lesson, the rows are of the active subjects only.
StudentProgressDetail(period) ==
    [summary |-> CalculateStudentProgress(Subjects, period),
     subjects |-> [s \in active |-> CalculateStudentProgress({s}, period)]]
StudentGradesDetail(period) ==
    [summary |-> CalculateStudentGrades(Subjects, period),
     subjects |-> [s \in active |-> CalculateStudentGrades({s}, period)]]

\* Here the whole is the sum of the active subjects.
StudentComprehensiveDetail(period) ==
    LET of(s) == CalculateStudentProgress({s}, period)
    IN  [total |-> SumFunction([s \in active |-> of(s).total]),
         completed |-> SumFunction([s \in active |-> of(s).completed]),
         subjects |-> [s \in active |-> [progress |-> of(s), grades |-> CalculateStudentGrades({s}, period)]]]

\* The lists of a subject, where a lesson is completed by its progress or by a result;
\* without a term they are of the whole year.
SubjectLessons(s) == {l \in Visible : l[1] = s /\ (term # NoTerm => l[2] = term)}
StudentSubjectProgress(s) == [l \in SubjectLessons(s) |-> l \in done]
StudentSubjectComprehensive(s, period) == [l \in During(SubjectLessons(s), period) |-> Evaluated(l)]
StudentSubjectGrades(s, period) == [l \in During(SubjectLessons(s), period) |->
    [completed |-> Evaluated(l), score |-> IF Evaluated(l) THEN attempts[LastAttempt(l)].score ELSE 0]]

StudentLessonReview(l) == attempts[LastAttempt(l)]

-----------------------------------------------------------------------------
(* What the parents and the student are shown *)

StudentProgressSummary == Count(Targets(Subjects, AcademicContext), done)
ChildSubjects == [s \in active |-> Count(Targets({s}, AcademicContext), done)]

\* Completed with a result; the score is that of the best attempt.
ChildSubjectLessons(s) == [l \in Targets({s}, AcademicContext) |->
    [completed |-> Evaluated(l), tries |-> Cardinality(ResultsOf(l)),
     best |-> {attempts[n].score : n \in {m \in ResultsOf(l) :
                  \A k \in ResultsOf(l) : attempts[k].score <= attempts[m].score}}]]

\* Subjects without a result are not shown, those not active are.
AggregateChildResults ==
    LET attempted(s) == {l \in Targets({s}, AcademicContext) : Evaluated(l)}
    IN  [s \in {q \in Subjects : attempted(q) # {}} |->
            [results |-> Cardinality(attempted(s)), points |-> Points([l \in attempted(s) |-> LastResult(l)])]]

AggregateSubjectResults(s) == [l \in {k \in Targets({s}, AcademicContext) : Evaluated(k)} |->
    [score |-> attempts[LastResult(l)].score, tries |-> Cardinality(ResultsOf(l))]]

ChildLessonReview(l) == attempts[LastAttempt(l)]

\* The student is shown every term.
MySubjects == [s \in active |-> Count({l \in Visible : l[1] = s}, done)]

-----------------------------------------------------------------------------
(* Properties *)

ReportsTypeOK ==
    /\ term \in Terms \cup {NoTerm}
    /\ changes \in 0 .. MaxTerms
    /\ published \in Seq(Lessons) /\ Len(published) = Cardinality(SeqSet(published))
    /\ deleted \cup done \cup crossed \subseteq SeqSet(published)
    /\ active \subseteq Subjects
    /\ sending \subseteq [lesson : Lessons, score : Scores, calculatedAt : 0 .. MaxAttempts]
    /\ attempts \in Seq([lesson : Lessons, score : Scores, calculatedAt : 0 .. MaxAttempts])

Trues(f) == {x \in DOMAIN f : f[x]}
Whole == "full_semester"

\* While a term is current, a parent is shown the progress the manager is shown, in
\* all and of each subject (student-progress-summary.service.ts:55-123 and
\* parent-children.service.ts:126-285 against reports.service.ts:213-301 and
\* 634-691), the lessons listed of a subject are those that its summary counts, in
\* each period (307-432), and the whole of the comprehensive report (1009-1134) lacks
\* only the subjects that are not active.  The student is shown no less of a subject.
\* Without a term the reports are empty and the parents see the term before.
ProgressAgrees ==
    /\ term # NoTerm =>
        /\ StudentProgressDetail(Whole).summary = StudentProgressSummary
        /\ StudentProgressDetail(Whole).subjects = ChildSubjects
        /\ \A s \in active :
             LET listed == StudentSubjectProgress(s)
             IN  StudentProgressReport({s}, Whole) =
                     {[total |-> Cardinality(DOMAIN listed), completed |-> Cardinality(Trues(listed))]}
        /\ LET all == StudentComprehensiveDetail(Whole)
           IN  /\ \A s \in active : ComprehensiveReport({s}, Whole) = {all.subjects[s]}
               /\ all.total <= StudentProgressSummary.total
               /\ active = Subjects => all.total = StudentProgressSummary.total
                                       /\ all.completed = StudentProgressSummary.completed
    /\ \A s \in active : /\ ChildSubjects[s].total <= MySubjects[s].total
                         /\ ChildSubjects[s].completed <= MySubjects[s].completed

\* Unless two attempts at a lesson were under way at once, the last one calculated
\* is the last one created.
LastIsLast == \A l \in Lessons \ crossed : Evaluated(l) => LastResult(l) = LastAttempt(l)

\* The last attempt is the same one for the parents, who are shown the last created
\* (DEC-RESULTS-05, student-results-aggregation.service.ts:150), and for the reports,
\* the grades and the reviews, which take the last calculated (DEC-GRD-003,
\* reports.service.ts:1643), unless two attempts at a lesson were under way at once.
\* So the points of each subject are the same for both, from the same lessons, in the
\* list of its lessons too (1478-1634), and in the report of a day as in the list of it.
SameAttempt ==
    /\ LastIsLast
    /\ term # NoTerm => \A s \in active :
        LET grades == StudentGradesDetail(Whole).subjects[s]
            shown == StudentSubjectGrades(s, Whole)
            child == AggregateChildResults
        IN  /\ IF s \in DOMAIN child
               THEN /\ child[s].results = grades.evaluated
                    /\ (\A l \in crossed : l[1] # s) => child[s].points = grades.earned
               ELSE grades.evaluated = 0
            /\ DOMAIN AggregateSubjectResults(s) = {l \in DOMAIN shown : shown[l].completed}
            /\ \A l \in DOMAIN shown : LET listed == ChildSubjectLessons(s)[l] IN
                 /\ listed.completed = shown[l].completed
                 /\ \A score \in listed.best : score >= shown[l].score
            /\ \A l \in DOMAIN AggregateSubjectResults(s) \ crossed :
                 AggregateSubjectResults(s)[l].score = ChildLessonReview(l).score
            /\ \A period \in Periods : LET list == StudentSubjectGrades(s, period) IN
                 StudentGradesReport({s}, period) =
                     {[evaluated |-> Cardinality(Trues(StudentSubjectComprehensive(s, period))),
                       earned |-> SumFunction([l \in DOMAIN list |-> list[l].score])]}
=============================================================================
