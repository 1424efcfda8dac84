-------------------------------- MODULE Quiz --------------------------------
(***************************************************************************)
(* One student and the questions of one lesson.  The teacher edits them;   *)
(* the app of the student fetches them, submits an attempt when it is      *)
(* online, and otherwise pushes what it has collected: answers, a result,  *)
(* the lesson being read or completed.  Each change has a uuid and is      *)
(* pushed again until it is acknowledged.                                  *)
(*                                                                         *)
(* Only the edits are in a transaction: a request of the student is a row  *)
(* of statements, and fails or loses its server between any two.  Which    *)
(* answers are right is left out.                                          *)
(***************************************************************************)
EXTENDS Naturals, Sequences, FiniteSets

CONSTANTS Questions,  \* rows that may become questions of the lesson
          QJobs,      \* requests of the student in progress at one time
          Completing, \* changes in the outbox, by clientChangeUuid: COMPLETED
          Reading,    \* ... IN_PROGRESS
          Answering,  \* ... an answer
          Attempts,   \* ... a result
          MaxEdits,   \* bound: edits by the teacher
          MaxResults, \* bound: the rows of student_lesson_results
          NoChange    \* no change

Changes == Completing \cup Reading \cup Answering \cup Attempts

\* A change has one entityType.
ASSUME QuizAssumption == /\ NoChange \notin Changes /\ Completing \cap Answering = {}
                         /\ {MaxEdits, MaxResults} \subseteq Nat

VARIABLES asked,     \* the questions of the lesson that are not deleted
          text,      \* which edition of the questions this is
          rev,       \* questionsRevision of the template
          page,      \* the revision and the edition the app has fetched
          results,   \* the results, oldest first
          progress,  \* the row of student_lesson_progress
          processed, \* the table of processed changes
          doing      \* where each request is, and what it has read

teacherVars == <<asked, text, rev>>
qVars == <<asked, text, rev, page, results, progress, processed, doing>>

Resting == [pc |-> "idle", change |-> NoChange, rev |-> 0, text |-> 0]

QuizInit == /\ asked \in SUBSET Questions
            /\ text = 1
            /\ rev = 1
            /\ page = [rev |-> 0, text |-> 0]
            /\ results = << >>
            /\ progress = "NONE"
            /\ processed = {}
            /\ doing = [j \in QJobs |-> Resting]

Start(j, r) == doing[j] = Resting /\ doing' = [doing EXCEPT ![j] = r] /\ UNCHANGED teacherVars
Step(j, from, to) == /\ doing[j].pc = from
                     /\ doing' = [doing EXCEPT ![j].pc = to]
                     /\ UNCHANGED teacherVars
Rest(j, from) == /\ doing[j].pc = from
                 /\ doing' = [doing EXCEPT ![j] = Resting]
                 /\ UNCHANGED teacherVars

-----------------------------------------------------------------------------
(* The teacher *)

\* bumpQuestionsRevision, in the transaction of the edit.
Edit(questions) == /\ text <= MaxEdits
                   /\ asked' = questions
                   /\ text' = text + 1
                   /\ rev' = rev + 1
                   /\ UNCHANGED <<page, results, progress, processed, doing>>

CreateQuestion == \E q \in Questions \ asked : Edit(asked \cup {q})
UpdateQuestion == asked # {} /\ Edit(asked)
DeleteQuestion == \E q \in asked : Edit(asked \ {q})
ReorderQuestions == asked # {} /\ Edit(asked)

-----------------------------------------------------------------------------
(* getQuestions: the revision, the number of attempts, then the questions *)

ReadRevision(j) == /\ Start(j, [Resting EXCEPT !.pc = "questions", !.rev = rev])
                   /\ UNCHANGED <<page, results, progress, processed>>

\* Seeded fault: the questions are read first and the revision after them.
ReadQuestions_beforeRevision(j) == /\ Rest(j, "questions")
                                   /\ page' = [rev |-> rev, text |-> doing[j].rev]
                                   /\ UNCHANGED <<results, progress, processed>>

ReadQuestions(j) == /\ Rest(j, "questions")
                    /\ page' = [rev |-> doing[j].rev, text |-> text]
                    /\ UNCHANGED <<results, progress, processed>>

\* getReview shows the questions with the latest attempt if it knows no revision
\* (0) or the one the template has now.
ReviewAvailable(r) == r.rev = 0 \/ r.rev = rev

-----------------------------------------------------------------------------
(* submitQuiz and markLessonRead *)

\* Of an attempt without a revision nobody asks what its questions were.
Stored(id, r, e) == /\ Len(results) < MaxResults
                    /\ results' = Append(results, [id |-> id, rev |-> r,
                                                   text |-> IF r = 0 THEN 0 ELSE e])

CheckAttempt(j) == /\ page.rev # 0
                   /\ Start(j, [pc |-> "submit", change |-> NoChange, rev |-> page.rev,
                                text |-> page.text])
                   /\ UNCHANGED <<page, results, progress, processed>>

\* The answers are saved one by one between the result and the progress.
SubmitResult(j) == /\ Step(j, "submit", "finish")
                   /\ Stored(NoChange, doing[j].rev, doing[j].text)
                   /\ UNCHANGED <<page, progress, processed>>

FinishProgress(j) == /\ Rest(j, "finish")
                     /\ progress' = "COMPLETED"
                     /\ UNCHANGED <<page, results, processed>>

\* A lesson without questions is read: only if it has none, and no result.
CheckRead(j) == /\ Step(j, "idle", "read")
                /\ asked = {} /\ results = << >>
                /\ UNCHANGED <<page, results, progress, processed>>

MarkRead(j) == /\ Step(j, "read", "finish")
               /\ Stored(NoChange, 0, 0)
               /\ UNCHANGED <<page, progress, processed>>

-----------------------------------------------------------------------------
(* push: each change is looked up, processed and marked *)

Push(j) == \E c \in Changes \ processed :
    /\ Start(j, [Resting EXCEPT !.pc = "process", !.change = c])
    /\ UNCHANGED <<page, results, progress, processed>>

\* Seeded fault: a lesson that is completed already is not looked at again.
ProcessProgress_once(j) ==
    LET c == doing[j].change
        derive == c \in Completing /\ progress # "COMPLETED"
    IN  /\ c \in Completing \cup Reading
        /\ Step(j, "process", IF derive THEN "derive" ELSE "mark")
        /\ progress' = IF c \in Completing THEN "COMPLETED" ELSE "IN_PROGRESS"
        /\ UNCHANGED <<page, results, processed>>

ProcessProgress(j) ==
    LET c == doing[j].change
    IN  /\ c \in Completing \cup Reading
        /\ Step(j, "process", IF c \in Completing THEN "derive" ELSE "mark")
        /\ progress' = IF c \in Completing THEN "COMPLETED" ELSE "IN_PROGRESS"
        /\ UNCHANGED <<page, results, processed>>

\* A completed lesson that has a result keeps it ...
HasResult(j) == /\ Step(j, "derive", "mark")
                /\ results # << >>
                /\ UNCHANGED <<page, results, progress, processed>>

\* ... and else gets one, from the questions it has now and their answers.
FindQuestions(j) == /\ Step(j, "derive", IF asked = {} THEN "createRead" ELSE "create")
                    /\ results = << >>
                    /\ UNCHANGED <<page, results, progress, processed>>

\* A device that has pulled the questions knows no revision, one that has fetched
\* them from the quiz does.
KnownRevision == {0, page.rev}

DeriveResult(j) == /\ \/ /\ Step(j, "create", "mark")
                         /\ \E r \in KnownRevision : Stored(NoChange, r, page.text)
                      \/ Step(j, "createRead", "mark") /\ Stored(NoChange, 0, 0)
                   /\ UNCHANGED <<page, progress, processed>>

\* The question may be gone; then the change fails.
ProcessAnswer(j) == /\ doing[j].change \in Answering
                    /\ Step(j, "process", "mark")
                    /\ asked # {}
                    /\ UNCHANGED <<page, results, progress, processed>>

\* The uuid of a pushed result is the device's, and unique.
Unused(id) == \A n \in DOMAIN results : results[n].id # id

ProcessResult(j) == /\ doing[j].change \in Attempts
                    /\ Unused(doing[j].change)
                    /\ Step(j, "process", "mark")
                    /\ \E r \in KnownRevision : Stored(doing[j].change, r, page.text)
                    /\ UNCHANGED <<page, progress, processed>>

MarkProcessed(j) == /\ Rest(j, "mark")
                    /\ doing[j].change \notin processed
                    /\ processed' = processed \cup {doing[j].change}
                    /\ UNCHANGED <<page, results, progress>>

\* A statement fails, or the server stops: the change is answered ERROR or never.
Fail(j) == /\ doing[j] # Resting
           /\ Rest(j, doing[j].pc)
           /\ UNCHANGED <<page, results, progress, processed>>

-----------------------------------------------------------------------------
TeacherEdits == CreateQuestion \/ UpdateQuestion \/ DeleteQuestion \/ ReorderQuestions
Quizzes(j) == \/ ReadRevision(j)
              \/ ReadQuestions(j)
              \/ CheckAttempt(j)
              \/ SubmitResult(j)
              \/ FinishProgress(j)
              \/ CheckRead(j)
              \/ MarkRead(j)
Pushes(j) == \/ Push(j)
             \/ ProcessProgress(j)
             \/ HasResult(j)
             \/ FindQuestions(j)
             \/ DeriveResult(j)
             \/ ProcessAnswer(j)
             \/ ProcessResult(j)
             \/ MarkProcessed(j)

QuizNext == TeacherEdits \/ \E j \in QJobs : Quizzes(j) \/ Pushes(j) \/ Fail(j)
QuizSpec == QuizInit /\ [][QuizNext]_qVars

-----------------------------------------------------------------------------
(* Properties *)

QuizTypeOK ==
    /\ asked \subseteq Questions
    /\ {text, rev} \subseteq 1 .. MaxEdits + 1
    /\ page \in [rev : 0 .. rev, text : 0 .. text]
    /\ results \in Seq([id : Attempts \cup {NoChange}, rev : 0 .. rev, text : 0 .. text])
    /\ progress \in {"NONE", "IN_PROGRESS", "COMPLETED"}
    /\ processed \subseteq Changes
    /\ doing \in [QJobs -> [pc : {"idle", "questions", "submit", "finish", "read", "process",
                                  "derive", "create", "createRead", "mark"},
                            change : Changes \cup {NoChange}, rev : 0 .. rev,
                            text : 0 .. text]]

\* When the review of an attempt is shown, the questions it shows are those the
\* student was asked (student-quiz.service.ts:436-470; the revision and the
\* questions are read by separate statements while the teacher edits).  An
\* attempt with no revision is shown whatever has changed.
ReviewShowsAnswered == \A n \in DOMAIN results :
    ReviewAvailable(results[n]) /\ results[n].rev # 0 => results[n].text = text

\* A lesson whose completion was acknowledged has a result, whatever failed on the
\* way and however often the change was pushed (student-sync.service.ts:650-827):
\* the device does not send it again.
CompletedHasResult == processed \cap Completing # {} => results # << >>
=============================================================================
