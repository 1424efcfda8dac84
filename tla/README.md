# A TLA+ verification of asas_backend

The repository is the NestJS backend of a school platform: one PostgreSQL
database behind Prisma, several kinds of clients (managers, teachers, students,
parents, the platform's staff and its owner), and a backup system that dumps and
replaces that database.  The code runs in one Node.js process per server, so it
has no data races in memory.  What is hard in it happens *between* requests, and
between a request and what it has started in the background: statements of two
transactions interleave at READ COMMITTED, clients repeat requests, transactions
time out, acknowledgements are lost, and a restore replaces the tables that say
which jobs are running.

Paths below are relative to the repository root, where the code is under
`src/`; in `PROJECT.json` and in the comments of the modules line numbers are of
the same commit.

## 1. Inventory

| Component | State it keeps | Operations | Hard behaviour | What makes it correct |
|---|---|---|---|---|
| Idempotency of critical operations (`school/common/subscription/idempotency.service.ts`) | `IdempotencyRecord`: key, context, status, lease, stored response | `acquireOrReturn`, `markCompletedTx`, `markFailedBusiness`, `markFailedTransient` | retries, expired leases, lost COMMIT acknowledgements, crashes, row locks | the operation happens at most once, answers are truthful, everyone is answered |
| Subscription of a school (`school/manager/subscription`, `school/student/subscription`, `school/common`) | settings row, access periods, activation codes | enable, update settings, order a batch of codes, redeem a code, guard, status | statement interleavings under four kinds of lock, time taken before locks | a code buys one year once, paid periods are disjoint, every student gets one trial |
| Users of a school (manager, import, registration, owner) | `users`, `School.nextUserCode`, enrolments | create a student, a teacher, a manager; transfer, drop, re-enrol | read-then-write of the next number; the trial of a student added while the subscription is enabled | numbers are unique; nobody is left without a trial |
| Backups (`owner/backup/services/backup-orchestrator`, `preflight-validator`) | `BackupJob`, `BackupInstance`, archives on disk | start, preflight, dump, pack, register | detached pipelines that see each other only through job rows | no two dumps at once, none while the database is replaced |
| Restores (`owner/backup/services/restore-orchestrator`) | `RestoreJob`; the whole database, the media, the configuration | start, safety backup, replace, rebuild rows, media, configuration, rollback | the rows of the running jobs are replaced by those of the dump; failures after the point of no return; crashes | a restore ends as a whole or goes back; nothing blocks the next one |
| Retention (`owner/backup/services/retention.service.ts`), pins, deletion (`backup.controller.ts`) | `BackupInstance` | mark old backups deleted, purge files, pin, delete | read, count, then update by id; a disk that fails between file and row | a pinned archive stays, and so does the minimum |
| One-time passwords (`shared/otp`) | `OtpVerification` | request, resend, verify (own code, or the provider's), consume | provider calls outside the transaction, updates rolled back by the error they come with | one valid code per phone, requests are limited, a code is verified once |
| Registration (`public/student-registration`) | users, enrolments, OTP | check phone, complete with and without OTP | duplicates and account limits under a lock others do not take | one student per completed registration |
| Sessions (`school/sessions`, `platform/sessions`, the two `auth`) | `AuthSession`, refresh token hashes | login, refresh (rotate), logout, revoke, new password | read, check, then rotate, without a transaction; requests delivered again; a password that changes under a login | an app that asks one thing at a time stays in; an old password is out |
| Quizzes (`school/student/quiz`), pushes of a device (`school/student/sync`) | results, answers, progress, processed changes, the revision of the questions | get, submit, review, mark read, push | separate statements beside the teacher's edits; replays, failures, crashes | the review shows what was asked; a completed lesson has a result |
| Pulls of a device (`school/student/sync`) | cursors into tables ordered by `updatedAt` and `uuid` | pull | pages that break inside a moment; rows stamped before a pull and committed after it | what was changed arrives |
| Lesson delivery (`school/teacher/lesson-targeting`, the cron, `timetable.deleteSlot`) | templates, lessons, targets, lesson hours | target, publish, schedule, cancel, publish what is due, back to draft | derived status; checks long before their writes; the cron between | what reads READY is seen by nobody; what is due is published |
| Ordered lists (units, lessons, blocks, items, questions, subjects of school and platform; payment methods) | `orderIndex`, `sortOrder` | create, change, move, delete, reorder | no index keeps two rows apart; places are chosen in three different ways | no two rows in one place, none in a deleted parent |
| Years, terms, enrolments (`school/manager/academic-years`, `students`), rollover (`school/manager/rollover`) | years, terms, enrolments | create a year, next term, transfer, drop, re-enrol, roll over | eligibility read before the transaction; grades one after the other | a year is rolled over once; each pupil moves one grade |
| Structure of a grade (`school/manager/grades`, `subjects`, `timetable`) | `subject_sections`, assignments, hours | create, delete, link, assign, save | a subject and a section made at once; several statements that may be cut short | every subject in every section, one teacher for each |
| Imports (`owner/imports`) | `ImportSession`, accounts | preview, execute | one transaction per row; two executions; crash in the middle | one account for a parent |
| Distribution and copies (`platform/distribution`, `school/shared/platform-content`) | distributions, batches, copies, versions | edit, distribute, copy | a version read before the copy and raised after the edit | what is said to be current is current |
| Reports (`school/reports`), parents (`school/parent`), the student's own view | none: they read | queries of each view | each view has its own queries for the same numbers | they show the same |
| Scheduler, releases, media, codes, setup, statistics | rows of their own | CRUD and read-only views | little; see `PROJECT.json` | |

How they interact:

* The three critical operations (enable the subscription, order a batch, redeem
  a code) call the idempotency service first, mark its record inside their own
  transaction, and record a failure after it.
* Everything that adds a student writes the school's row (for the number) and
  then asks `SubscriptionTrialService` for a trial; enabling the subscription
  locks that row and gives a trial to everyone committed by then.  An import takes
  the same row first, which is what keeps its look-ups of parents apart.
* `SubscriptionGuard` stands before the student's lesson, book and quiz
  controllers and reads the periods.
* A restore of the database starts a backup of category `SYSTEM_SAFETY`, polls
  its job row, and then replaces the tables in which that row, its own row and
  those of all other pipelines are.
* The scheduler and the owner's controller call `startBackup`; retention runs
  every night on the instances, beside the owner's console.
* A question that a teacher edits raises `questionsRevision`, which an attempt
  carries and a review compares; it stamps the row of the lesson too, which is
  what a device's pull of lessons asks by.
* Lesson targets connect three writers: the teacher's requests, the cron, and the
  manager who deletes an hour of the timetable.
* A copy of the platform's lesson is a row in `content_distributions`; the platform's
  edits raise a version that the schools compare with.

## 2. Modules

| Module | What it is | Checked in |
|---|---|---|
| `AtMostOnce` | abstract specification: what the idempotency service promises its clients | `idempotency` |
| `Idempotency` | the service and the transaction of its caller, statement by statement | `idempotency`, `lease_lost_within_lease` |
| `IdempotencyProofs` | the inductive invariant of `Idempotency`, and its refinement of `AtMostOnce`, proved | |
| `Subscription` | the subscription of one school, statement by statement | `school`, `user_numbers` |
| `SubscriptionProofs` | all that is checked of the subscription, proved | |
| `Imports` | files of people, executed row by row | `school` |
| `SchoolStructure` | sections, subjects, teachers and timetable of one grade | `school` |
| `ImportsProofs` | the accounts of parents, and the structure of a grade, proved | |
| `BackupPipeline` | one backup from `startBackup` to its instance row | `backups_and_content` |
| `BackupRestore` | restores, composed with the backups they run beside | `backups_and_content`, `restore_race`, `safety_backup_unlisted` |
| `BackupProofs` | what is checked of backups and restores, proved for both together | |
| `Retention` | nightly retention and purge, pins, deletion | `backups_and_content` |
| `Quiz` | attempts, reviews and pushes of one student beside the edits of the teacher | `backups_and_content` |
| `SyncPull` | a device that pulls, page by page, beside commits | `backups_and_content`, `sync_misses` |
| `Reports` | what manager, parents and student are shown, as operators over the same tables | `backups_and_content` |
| `OrderedContent` | the twelve kinds of ordered list | `backups_and_content` |
| `Distribution` | a platform lesson on its way to the schools | `backups_and_content` |
| `PartsProofs` | an inductive invariant for each of the six above, and what follows from it | |
| `ProvenPhones` | abstract specification: what the one-time passwords and the registration promise together | `registration_sessions_years` |
| `Otp` | one-time passwords: requests, sending, verification in both ways | `registration_sessions_years`, `wrong_code_counted` |
| `Registration` | the registration of students, composed with `Otp` | the same |
| `RegistrationProofs` | the codes, the limits and the accounts of a phone, and the refinement of `ProvenPhones`, proved | |
| `Sessions` | the sessions of one user, of a school or the platform | `registration_sessions_years` |
| `AcademicYears` | years, terms, enrolments, rollover | `registration_sessions_years`, `rollover_cascades` |
| `SessionsProofs` | the sessions of a user, and the years of a school, proved | |
| `LessonDelivery` | a lesson on its way to the sections | `delivery` |
| `DeliveryProofs` | what READY means of a lesson, proved | |
| `MC...` | small instances | |

"The six above" `PartsProofs` are `Retention`, `Quiz`, `SyncPull`, `Reports`, `OrderedContent`
and `Distribution`.

`Otp`/`Registration` and `BackupPipeline`/`BackupRestore` are compositions of
components that share state.  `MCSchool`, `MCParts` and `MCPeople` are *sums*: their
components share none.  A variable `part` says which component a behaviour is of;
the others rest in one of their initial states (`Begins`, `OthersRest`), and every
property is evaluated in each state.  A sum has the states of its parts added, not
multiplied, and each part behaves in it as it does alone.

### Idempotency

`record[k]` is the row of key `k` as last committed.  `creator` stands for the
context columns, `by` for the stored response, `expiresAt` for the lease.  A
request's place in the code is `pc[r]`; `lease`, `seen`, `asOf` and `deadline`
are the local values that outlive a statement.  Each action is one statement, or
one statement with the decision the handler takes on what it read:

| Action | Code |
|---|---|
| `Arrive`, `InsertRecord`, `InsertRefused` | `acquireOrReturn`: compute the lease, `create`, P2002 |
| `FindExisting`, `RefuseNow`, `ReplayCompleted`, `ReplayBusinessFailure`, `WantReclaim`, `WantRetake` | `handleExistingRecord`: `findUnique` and the cascade of conditions |
| `Reclaim`, `ReclaimMissed`, `Retake`, `RetakeMissed` | the two conditional `updateMany` and their counts |
| `BeginTx`, `MarkCompleted`, `LeaseLost`, `BodyThrows`, `Commit`, `RollBack`, `AnswerCommitted`, `CommitAckLost` | the caller's `$transaction` with `markCompletedTx` as its last statement, its timeout, and the ways it can end |
| `MarkFailedBusiness`, `MarkFailedTransient`, `FailureUnrecorded`, `AnswerFailed` | the `catch` of the caller, `safeUpdateFromProcessing` |
| `StatementFails`, `Crash`, `Tick` | errors outside the business transaction, death of the process, time |

READ COMMITTED appears in two places.  A conditional update that matches the
committed row waits while another open transaction has updated it (`Matches`),
and is then tested on what that transaction left.  An update that does not match
the committed row changes nothing and does not wait.

`BodyThrows` and `LeaseLost` may be filed under either kind of failure: the
three callers differ in which exceptions they call business failures, and
`IDEMPOTENCY_LEASE_LOST` is itself a `ConflictException`.

### Subscription

One school; a *job* is a request in progress.  What a transaction has written is
in the tables from its COMMIT only, so a job's writes before it are its local
variables, and the COMMIT is the last action of each operation.  Who holds a
lock is told by where the jobs are: the `School` row (`SchoolFree`), the settings
row (`SettingsFree`), the advisory lock of a student (`StudentFree`), the row of
a code (`CodeFree`).

| Actions | Code |
|---|---|
| `RequestEnable` ... `CommitEnable` | `activateSubscription`, `createBulkTrialsTx` |
| `UpdateSettings` | `updateSettings` |
| `ReadNumber`, `WriteNumber` | `createStudent`, `createTeacher`: read `nextUserCode`, write it plus one |
| `IncrementNumber` | registration, imports and the owner's console: `{ increment: 1 }` |
| `DecideTrial`, `CommitUser` | `createTrialForNewStudentTx` and the COMMIT of the addition |
| `LockSettings`, `CommitBatch` | `createBatch` |
| `RequestCode` ... `CommitActivation` | `activateCode`; `CodeIsFresh` is the unique index on `activation_code_id` |
| `Abort` | any error, timeout or crash: nothing is left |
| `GuardLetsIn`, `Reference` | `SubscriptionGuard.canActivate`, `getMyStatus` (read-only) |

The CHECK constraints of the migration are guards where a statement could break
them (`EndTrials`) and part of `TypeOK`.

### Backups and restores

`db` is the database as far as the pipelines can tell one from another: the
status of each job row, the numeric id of each backup's instance row and the
sequence it comes from, and whether the content is of one time (`whole`).  A
dump is a copy of `db`, inside `archive[j]`; psql assigns it back.  `media` is
whether the media files are of one time.  A restore is identified with the uuid
of its own safety backup, so `Jobs` is `Backups \cup Restores`.

| Actions | Code |
|---|---|
| `StartBackup`, `Enqueue`, `BeginBackup`, `LoseBackup` | `startBackup`, and the beginning of its `runPipeline` |
| `CheckBackups`, `CheckRestores` | the two last checks of the preflight, which are two queries |
| `Dump`, `Pack`, `Register`, `CleanUp`, `FailBackup` | the steps of the pipeline, `failJob` |
| `StartRestore` ... `Extract`, `FailEarly` | `startRestore`, and the pipeline up to the point of no return, `waitForBackupCompletion` |
| `PsqlDone`, `PsqlFails`, `Clean`, `Reregister`, `Recreate` | the replacement of the database and the rebuilding of its job rows |
| `CopyMedia`, `RestoreConfig`, `Complete`, `FailLate` | the rest of the pipeline |
| `RollbackDatabase`, `RollbackClean`, `RollbackMedia`, `RecordRollback`, `RollbackFails` | `attemptRollback` |
| `Crash` | the server dies with every pipeline and every psql |

A write by the numeric id of a row that a restore has taken away fails
(`LoseBackup`, `Mark`); collisions of old ids with other rows are modelled where
the code looks a row up by its old id on purpose (`Reregister`).

### One-time passwords and registration

`otps[o]` is a row of `otp_verifications`, `students` the sequence of the students of
the public school, in the order they were added.  A job is a request in progress.  `delegated` and `otpEnabled`
are the configuration of the server: who makes and verifies the codes, and
whether students may register without one.

| Actions | Code |
|---|---|
| `CheckLimits`, `CreateOtp`, `Sent`, `SendFails` | `requestOtp`: cooldown and hourly limit behind the lock of the phone, the row, the provider's answer outside the transaction |
| `Ask`, `Verify`, `Reject`, `ThrowInvalidCode` | `verifyOtp`: if `delegated`, in two transactions around the provider's answer (`StillPending` is the second look at the row), else in one that holds the row lock |
| `ValidateToken`, `WithoutOtp` | `validateRegistrationToken`, or the direct path; both then resolve the school and the district |
| `Check`, `CommitRegistration` | `executeRegistrationTransaction`: duplicate and limit behind the lock of school and phone, the insertions, the consumption of the code |
| `ManagerAdds` | `createStudent`, which knows neither lock nor limit |
| `Abort` | any refusal, error, timeout or death of the request |

An update followed by a throw inside `prisma.$transaction` is no update: that is
why a refusal of `Ask` leaves nothing (the stored EXPIRED and BLOCKED are taken
back) and why `ThrowInvalidCode` leaves the attempts as they were.  A name stands
for a name in a grade; transfers and drops of students are not in this module.

`ProvenPhones` is what a phone is promised, without requests, locks, providers or clocks.
A row maps to a code that is open (PENDING), proved (VERIFIED), spent (CONSUMED) or void
(EXPIRED, FAILED, BLOCKED).  Of a phone only the latest code can be proved.  `Spend` opens
an account: in that step the code is spent, the name is found free and the accounts of the
phone are counted.  It takes a code that is spent already too: requests that were given
the same token while its row read VERIFIED may each open an account, since the update to
CONSUMED (`student-registration.service.ts:374`) does not look at how many rows it has
changed; the limit of the phone is what stops them.  `Direct` is the way without a code,
open only if the server asks for none, and `Enrol` what the managers do.

### Sessions

`sessions[s]` is a row of `auth_sessions`, its token a number; `held[s]` is what the app
keeps.  `platform` tells which of the two services it is.  `CheckPassword` and
`CreateSession` are `login`; `ReadSession`, `RotateRefresh` and `AnswerRefresh` are
`validateAndRotateRefresh` and the look-up of the user after it; `ReadLogout`,
`RevokeSession` and `RevokeAllUserSessions` the ways out; `ChangePassword`, with the
revocation that follows on the platform, `changePassword` and `resetPassword`;
`ToggleStatus` switches the account off.  `LoseRefresh` and `Drop` are lost answers and
failed statements.  An old request may be delivered again (`t < held[s]`).  The clock is
left out: an expired session is one that nobody can refresh, as a revoked one.

### Years, enrolments and the rollover

`years` is the sequence of years with their terms, `enrolled[p]` the enrolments of a
pupil by year, `office[c]` what a request has read before it writes.  `CreateYear`,
`AddTerm`, `AdvanceToNextTerm` and `TermDates` are one step each; `BeginTerm` with
`DeleteTerm`, `StartTerm` or `EndCurrentTerm`, and `BeginEnrolment` with `TransferGrade`,
`DropEnrollment` or `ReEnroll`, are the two halves of the others.  `BeginRollover` is
`checkEligibility`; `Rollover` is the transaction of `execute`, with its loop over the
grades as the recursive function `MoveAll`.  `CurrentIsFree` stands for the two partial
unique indexes.  Sections and timetables are left out.

### Structure of a grade

`linkIs` is `subject_sections`, `assigned` and `everAssigned` the assignments of teachers
that are not deleted, and all of them; `hour[s]` the one lesson hour of section `s`.
`InsertSubject`, `ReadSections`, `LinkNext` and `SubjectCreated` are `createSubject`,
which has no transaction; `importFromDictionary` and `createSection` have one, so a begin
and a COMMIT each.  `ReadAssignment`, `DropPrevious` and `AssignTeacher` are
`assignTeacherToSection`; `PreviewAssignment` and `ExecuteAssignment` what an import of
teachers does; `CheckTimetable` and `SaveTimetable` are `saveTimetable`; `Stops` is the
end of a request anywhere.  The views (`SectionTimetable`, `TeacherTimetable`,
`TeacherSubjects`, `AvailableSections`, `SlotsForSection`, `SectionSubjects`,
`Assignment`, `TeacherConflicts`) are operators, one for each query.  One grade, one
hour, teachers of role PRIMARY.

### Imports

`imported[i]` is an import session with the verdict on each row, `accounts` what was
made.  An execution goes `ReadImport`, `MarkExecuting`, then row by row
`IncrementUserCode` (which takes the row of the school), `FindParent`, and `CommitRow` or
`RollBackRow`; `AssignExisting` is a teacher the school has; `CompleteImport` writes the
outcome, and `ImportDies` leaves the session EXECUTING.

### Retention

`copies[c]` is a row of `backup_instances` and its number the order of `createdAt`.
`ReadCandidates` and `DeleteCandidates` are `applyRetentionForPlan`, which reads and
counts before it updates by id; `ReadPurge` and `PurgeOne` are
`purgeDeletedInstances`, where the file or the row may fail; `ReadPin` and `TogglePin`,
`ReadDelete` and `DeleteInstance` are the console's.  Requests of the day end before the
next night (`NightFalls`).  One plan; no backup is added.

### Quizzes and synchronisation

In `Quiz`, `asked` are the questions of one lesson, `text` the edition of their content and
`rev` the `questionsRevision` of the template.  `ReadRevision` and `ReadQuestions` are
`getQuestions`; `CheckAttempt`, `SubmitResult` and `FinishProgress` are `submitQuiz`;
`CheckRead` and `MarkRead` are `markLessonRead`; `ReviewAvailable` is the condition of
`getReview`.  A pushed change goes `Push`, `ProcessProgress` (then `HasResult`, or
`FindQuestions` and `DeriveResult`), `ProcessAnswer` or `ProcessResult`, and
`MarkProcessed`; `Fail` ends it anywhere and the device sends it again.

In `SyncPull`, a teacher's transaction takes its stamp when it writes (`Begin`) and shows
its rows at `Commit`; `Pull` is one page of one feed: the rows after the cursor by
(`updatedAt`, `uuid`), the cursor of the last of them.

### Lesson delivery

`lessons[l].targets[s]` is the target of a lesson for a section; `at[j]` holds what a
request has checked, `due` what the running cron has found.  `CheckTargeting` and
`SaveTargeting`, `CheckPublish` and `DeliverOpen` or `DeliverScheduled`, `CheckCancel` and
`CancelSchedule`, `CheckDraft` and `BackToDraft`, `CheckDelete` and `DeleteTemplate` are
the two halves of `saveTargeting`, `publishLesson`, `cancelSchedule`, `updateStatus` and
`deleteLesson`.  `FindDue` and `PublishDue` are the cron; `DeleteSlot` is the manager's
deletion of a lesson hour, with the foreign key that takes it back.  `StatusOf` is
`recalculateLessonStatus`.  `archiveLessons` and `handleScheduleInvalidated` have no
caller, so ARCHIVED does not occur.  The delivery log is left out.

### Ordered content

`kind` says which of the twelve lists a behaviour is of; `rows` has their rows in two
lists, which stand for two parents.  The common shapes are `CreateIfFree` (a place in use
is refused), `CreateAnyway` (it is replaced by the next one), `Change`, `Delete`, `Reorder`
and the moves; each handler is one of these with its own kind, and each of them reads in
one step and writes in another.  Payment methods work under the row lock of the settings:
one step each.

### Distribution

`source` is a lesson template of the platform, with an edition number for its blocks and
one for its questions.  `EditBlocks` and `BumpVersion` are an edit and the statement that
raises the version after it; `ReadDistributions`, `CreateBatch` and `CreateDistributions`
are `distribute`; `ReadSource`, `CopyBlocksAndItems` and `CopyQuestions` are `forkLesson`
and `forkForPublish`; `StateOf` is what a teacher is told.

### Reports

The actions are what changes the tables (`Publish`, `TakeBack`, `ChangeTerm`,
`CompleteLesson`, `SendAttempt`, `InsertResult`); the views are operators named as their
handlers: `StudentProgressReport`, `StudentGradesDetail` and the others for the manager,
`ChildSubjects`, `AggregateChildResults` and the others for parents, `MySubjects` for the
student.  `LastResult` is the attempt created last, `LastAttempt` the one calculated last.
One student; of the periods the whole term and the last day; a lesson is published on a
day of its own.

## 3. What is checked

| Run | Instance | Question |
|---|---|---|
| `idempotency` | 3 retries of one operation, or one of them and a stranger with the same key; lease 1, transaction timeout 0, clock to 1, with fairness | does it happen at most once; is a refusal final; is every reported success real and the client's own; is everyone answered; does the service implement `AtMostOnce` |
| `lease_lost_within_lease` | 2 retries | *violated*: a record is lost to another request within its lease |
| `school` | subscription: 2 requests at a time, 2 students, 2 codes, a year of 2, a trial of 1, clock to 2. Imports: 2 sessions, 2 executions, 1 name, 1 family, 4 accounts. Structure: 2 requests at a time, 1 subject, imported or not, 2 sections, 2 teachers, 4 requests | codes, paid periods, trials, what the student is shown; parents; links, teachers and timetables |
| `user_numbers` | 2 requests, one student, one teacher | *violated*: two users get the same number |
| `backups_and_content` | 2 backups and 1 restore of each kind; 2 copies, 2 console requests, 3 nights; 1 question, 2 requests, 1 edit, 4 pushed changes, 2 results; 2 lessons in pages of 1, 2 commits, clock to 2; 2 subjects, 2 terms, 2 attempts; 3 rows in 2 lists, 2 requests; 1 school, 2 requests, 2 copies | dumps and the replacement of the database; what retention leaves; reviews and results; what reaches a device; whether the views agree; places in lists; copies |
| `restore_race` | 1 backup, 2 restores | *violated*: two restores run at once |
| `safety_backup_unlisted` | 2 backups, 2 restores, one thing at a time and no failure | *violated*: a restore goes on without its safety backup in the restored database |
| `registration_sessions_years` | registration: 2 requests, one phone, 3 names, 2 OTPs, 2 accounts, 3 students, limit 1 within an hour of one instant, clock to 2, all four configurations. Sessions: 2 sessions, 2 requests, 4 tokens, 2 passwords. Years: 1 pupil, 2 requests, 2 grades, 3 years of 2 terms | the limits of a phone, who is registered and with which code, and whether codes and registrations implement `ProvenPhones`; who stays in and who is out; how often a year is rolled over |
| `wrong_code_counted` | 1 request, 1 OTP | *violated*: a wrong code costs no attempt |
| `delivery` | 1 lesson, 2 sections, 2 requests, lesson hours on days 1 and 2, clock to 3, with fairness | may a lesson that reads READY be seen; is what falls due published |
| `rollover_cascades` | 1 pupil, 3 grades, 2 years | *violated*: a promoted pupil goes to the next grade |
| `sync_misses` | 2 lessons, pages of 1, 2 commits | *violated*: a pull brings every change |

The properties, and why each could fail:

* `EffectOnceAndRecorded`, `RefusalIsFinal`: a handler past its lease and the
  one that reclaimed its record may both reach their COMMIT; a COMMIT whose
  acknowledgement is lost is followed by an attempt to record a failure.
* `KeepsPromise`: refinement of `AtMostOnce`.  A record maps to *applied* when
  COMPLETED, to *refused* when FAILED_BUSINESS, and to *open* otherwise, so
  leases, reclaims, retakes and row locks must all be stutters.
* `SuccessIsReal`: the record was read in a statement of its own, before the
  decision, and may belong to another context.
* `EveryRequestAnswered`: liveness; updates wait for a row lock.
* `CodeSpentOnce`: both students of a race find the code UNUSED and both may
  update it; the unique index decides.
* `PaidDisjoint`, `OneRunningPeriod`, `PurchasesStand`: the time of a purchase is
  taken before the locks are waited for; serial numbers are read under a lock
  that `updateSettings` respects.
* `TrialForEveryStudent`: the bulk insert sees committed students only; the row
  of the school serialises it with additions.
* `StatusTellsAccess`: two pieces of code compute access at the same instant.
* `OneParentAccount`: rows of several files look up a parent and then make one; the
  row of the school, taken for the number, is what keeps the second from looking
  before the first has committed.
* `StructureKept`: links are made by whoever comes later, the subject or the section,
  in statements that may stop half-way; teachers are given, taken, brought back with a
  link and imported from an old preview.  The views read it by queries of their own.
  Links whose two ends were made at one time, or whose subject's creation was cut short
  (`apart`), and links of which two assignments overlapped (`contested`) are excepted:
  the code does leave those incomplete, or with two teachers.
* `OneDump`: `startBackup` lets two jobs wait together, the preflight keeps
  them apart although it is two queries after the row says RUNNING.  It goes by the job
  rows, so this is stated until a restore has put others in their place (`Replaced`).
  The instance of the run would keep it after that too, but only because it has two
  backups: with three, one dumps while a restore takes its row away, and the other two
  find nothing that runs.  The proof, which has no bound, is what found it.
* `NoDumpAtTheReplace`: a backup and a restore look for each other's rows at
  different moments.  Until rows have been replaced, for the same reason; the safety
  backup of another restore does not wait for this one.
* `RunningIsAlive`: a dump brings back rows that say RUNNING.  It is stated as long as one
  restore was asked for (`First`): a second one may bring back the row of the first.
* `EndsWhole`: what COMPLETED and ROLLBACK_COMPLETED say of the data, for a restore with
  no other at the tables or the media (`Alone`).
* `CopiesKept`: the nightly retention and the owner both act on what they have read,
  by id.  A pin that comes too late does not undo the mark, but the archive stays, as
  the purge asks for the pin another night.  That the minimum stays is stated for
  deletions that do not overlap (`racing`): each counts before it deletes.
* `ReviewShowsAnswered`: a revision and the questions it belongs to are read by separate
  statements while the teacher edits; the wrong order would show other questions than
  those that were asked.
* `CompletedHasResult`: the device stops sending a change once it is acknowledged, so the
  result must be there by then, whichever statement failed in whichever attempt.
* `LessonsArrive`: rows that share a moment may be parted by a page; only rows stamped
  before a pull and committed after it (`late`) may be missed, and they are.
* `ProgressAgrees`, `SameAttempt`: the manager, the parents and the student are shown the
  same numbers by different queries: over a term or a fall-back term, active subjects or
  all, a completion by its row or by a result, the last attempt by one of two times.
  Lessons of which two attempts were under way at once (`crossed`) are excepted from the
  second.
* `ListsInOrder`: places are chosen as the maximum plus one, or as asked for if free, or
  by renumbering; a count instead of a maximum breaks it after a deletion.  It is stated
  while requests do not overlap and reorderings are whole (`tidy`), as no index keeps
  rows apart and nothing in the code promises more; payment methods are
  written under a row lock, so theirs is stated without the exception.
* `CopyIsCurrent`: a version read before the copy, raised after the edit: in this order a
  copy may look old without being so, never current without being so.
* `OnePending`, `LimitsKept`: two requests of one phone would each read the
  limits before the other creates its row; the lock of the phone decides.
* `OnlyNewestVerified`: the provider answers after a resend, or twice.
* `RegisteredOnce`: a request sent twice runs twice at once, beside a manager who adds
  the same student; a lock of school and phone serialises the registrations only.
* `ConsumedIsRegistered`: the token is checked long before the transaction, and the
  update that consumes it may find nothing to consume.
* `PhonesAreProven`: refinement of `ProvenPhones`.  The token is checked outside the
  transaction that opens the account, the name and the limit in statements before the
  insertions, and all of it must come to one step although codes are sent, verified and
  made void, and students added, in between.  `AccountsLimit`, which is proved, is the
  part of it that a count of the students of a phone shows.
* `CalmAppStaysIn`: tokens are read and rotated without a lock, and requests of the past
  are delivered again; an app that sends one refresh at a time and gets its answers
  (`calm`) must not lose its session.  An app that sends two does.
* `OldPasswordIsOut`: on the platform the sessions are revoked in a statement after the
  new password, beside refreshes that write by id.  A login that had compared the old
  password before (`slipped`) does get in.
* `RolledOverOnce`: eligibility is read before the transaction; only the unique index on
  the current year stops a second execution.
* `ReadyIsUntouched`: the status is derived from the targets after each write, and every
  write acts on an old check; a READY lesson is one that may be targeted again.
* `DueIsPublished`: liveness of the cron, beside requests that move, cancel and delete
  what it has found.  A run that passes over a lesson with one target published would
  leave the others for ever.

`TypeOK` and its like (`SchoolTypes`, `PartTypes`, `PeopleTypes` are the conjunctions for the
parts of a run) also hold what the database's CHECK constraints and enums say: the
periods of a subscription, for one, may not end before they begin.

**Bounds.**  Three retries are the fewest in which two find a record FAILED_TRANSIENT
and one of them comes too late; a stranger, whose context differs, needs one client to
meet.  The lease ends within the clock, and the one taken at a reclaim after it.  More
retries, other leases and more keys are covered by the proofs, which have no bounds.
Two students and two requests at a time are what each lock of the subscription keeps
apart, and two codes are enough to buy twice; the clock lets a trial end, a period end,
and a request be older than either.  Two backups are needed for one to be queued while
another runs; a single restore, because the run `restore_race` shows that two are not
kept apart, after which no property of one of them means anything.  Two copies and
`MinSafe` 1 let retention and console meet at the minimum, with nights enough for a
deletion, the wait and the purge.  One question is enough for a lesson to gain its first
and lose its last one; the two results are one of an attempt and one derived.  Two
commits and a page of one row let a page end inside a moment and a transaction commit
behind the cursor.  Two attempts are the fewest that can cross.  Three rows in two lists
let a row be moved among others, and a place in the middle be freed and taken.  One phone
is enough, as every lock, limit and query is of one phone; three names meet a
limit of two accounts.  The window of the limit is the one instant that the comparison of
times includes, and the clock goes past it while the first OTP can still be verified, so a
second one meets an answer to the first; both, and a token, may run out. Four tokens are
two logins and two rotations. Three years are two rollovers of which both could be from
the first. One lesson has two sections, of which one can be published before the other;
the last day comes after the last lesson hour, as the deletion of an hour moves a target
to the day after another one. Four requests on a grade let a subject and a section be
made while a teacher is replaced. `OneByOne` in the run `safety_backup_unlisted`
restricts the search to an owner who does one thing at a time: the counterexample needs
no concurrency and no failure. `Tidy` in `backups_and_content` stops a behaviour of the
lists once two requests have overlapped, as nothing is claimed of it any more, except
for the payment methods, whose requests are never apart.

**Symmetry** is used where no property is about liveness: for requests, students, names
and backups, in a sum for those of all its parts at once.

**Fairness.**  `FairSpec` has weak fairness of each request's own steps: once a
request has arrived, Node.js and PostgreSQL go on serving it.  Arrivals,
crashes, failures of statements and lost acknowledgements have none.  No strong
fairness is needed: the row lock of a record is released for good by the end of
the transaction that holds it, and at most one transaction per request takes it.
`DeliverySpec` has weak fairness of the cron, which NestJS starts every five minutes and
which catches the errors of each target, and of the clock.  Teachers and managers have
none: what falls due is published even if nobody makes a request again, or never
finishes one.

**Deadlock** is not checked as such: all systems here may stop (clients stop
asking, bounds end).  That nobody waits for ever is `EveryRequestAnswered`.

## 4. What is proved

The theorems are proved with TLAPS for every value of the constants: for any number of
requests, users, rows, backups, lessons and so on, finite or infinite where a set need not
be finite, and for every bound.  They rest on the `ASSUME` of each module alone, which
TLC evaluates in each run: types of the constants, the distinctness of the values that
stand for "none" (`NoOne`, `None`, `NoSession`, `NoRow`, `NoChange`, `NoArchive`,
`NoFamily`, `NoTerm`), disjointness of sets that are different kinds of thing (students
and staff, backups and restores, the two kinds of pushed change), a year and a trial
longer than nothing, a transaction timeout shorter than the lease, and, for copies of
backups, lessons of a pull and the subjects of the reports, that there are
finitely many.  The scores of the reports are natural numbers, of the smallest part of a
point that is given: the database keeps floats, and the rounding of their sums, which may
depend on the order of the rows, is not modelled.

None of the properties is inductive as it stands.  Each proof has an inductive invariant
with the types it needs, what each request knows at each place of its code, and who
cannot be where at the same time; one lemma per action shows that the action keeps it;
and a theorem combines them.

| Module | Theorem | Property |
|---|---|---|
| `IdempotencyProofs` | `Invariance` | the inductive invariant |
| | `TypeCorrect` | `TypeOK` |
| | `EffectOnce` | `EffectOnceAndRecorded` |
| | `SuccessTheorem` | `SuccessIsReal` |
| | `RefusalTheorem` | `RefusalIsFinal` |
| | `Refinement` | `KeepsPromise`: the service implements `AtMostOnce` |
| `SubscriptionProofs` | `SubscriptionTypes` | its types |
| | `CodeTheorem` | `CodeSpentOnce` |
| | `PaidTheorem` | `PaidDisjoint` |
| | `RunningTheorem` | `OneRunningPeriod` |
| | `TrialTheorem` | `TrialForEveryStudent` |
| | `StatusTheorem` | `StatusTellsAccess` |
| | `PurchaseTheorem` | `PurchasesStand` (an action property) |
| `BackupProofs` | `BackupTypes` | its types |
| | `OneDumpTheorem` | `OneDump` |
| | `ReplaceTheorem` | `NoDumpAtTheReplace` |
| | `RunningTheorem` | `RunningIsAlive` |
| | `WholeTheorem` | `EndsWhole` (an action property) |
| `RegistrationProofs` | `OnePendingTheorem` | `OnePending` |
| | `OnlyNewestTheorem` | `OnlyNewestVerified` (an action property) |
| | `LimitsTheorem` | `LimitsKept` |
| | `OnceTheorem` | `RegisteredOnce` |
| | `AccountsTheorem` | `AccountsLimit` |
| | `ConsumedTheorem` | `ConsumedIsRegistered` |
| | `Refinement` | `PhonesAreProven`: codes and registrations implement `ProvenPhones` |
| `SessionsProofs` | `CalmTheorem` | `CalmAppStaysIn` |
| | `OldPasswordTheorem` | `OldPasswordIsOut` |
| | `RolledOverTheorem` | `RolledOverOnce` |
| `ImportsProofs` | `ImportsTypes` | its types |
| | `OneParentTheorem` | `OneParentAccount` |
| | `StructureTheorem` | `StructureKept` |
| `DeliveryProofs` | `ReadyTheorem` | `ReadyIsUntouched` |
| `PartsProofs` | `CopiesTheorem` | `CopiesKept` |
| | `ReviewTheorem` | `ReviewShowsAnswered` |
| | `CompletedTheorem` | `CompletedHasResult` |
| | `LessonsTheorem` | `LessonsArrive` |
| | `ListsTheorem` | `ListsInOrder` |
| | `CopyTheorem` | `CopyIsCurrent` |
| | `ProgressTheorem` | `ProgressAgrees` |
| | `SameAttemptTheorem` | `SameAttempt` |

### The idempotency service

`EffectOnceAndRecorded` is not inductive.  A COMMIT is safe because the record
still reads PROCESSING, which the transaction knew when it *marked* it, not when
it commits; so the invariant needs

* `LockInv`: the row lock is held exactly by the request that has marked the
  record, and the record reads PROCESSING while it is held;
* `ContextInv`: a request that may still write a record has the context that
  record was made with, and so has the request whose success it stores;
* `SeenInv`: what a handler has read of a *verdict* (COMPLETED or
  FAILED_BUSINESS) is still so when it acts on it, as verdicts are final;
* `HandlerInv`: a handler past its COMMIT has its effect in the database, and one
  that has not ended has told its client nothing;
* `ReplyInv`: what clients have been told is on record.

The refinement maps each action to a step of `AtMostOnce` or a stutter
(`PromiseStep`).  Neither the clock nor the length of the lease is used: leases
decide who may try, the row lock and the status test of `markCompletedTx` decide
who succeeds.  So even a lease shorter than the transactions it covers would
cost retries, never a second effect.

### The subscription

`Tables` says of the rows what the properties say and what they rest on: serials at or
above `nextCodeSerial` are absent, a code is used when it has a consumer, a paid period
is never ended and a trial never later than now.  `Knows` says of each job what it has
read and may still rely on: one past `FindCode` has seen no paid period of its student
that runs at the time of its request, and one about to commit ends exactly the trials
that do (`Found`, `Ended`); one that adds a student has decided on a trial that is still
right (`Decided`).  `Locks` makes this last: two jobs that hold the row of the school, or
the settings, or one student, are one job.  So no period can be added behind the back of
a job that has looked for one.

### Backups and restores

The first layer (`IInv`) says that what is relied on is there: a row that is registered
or completed, in the database or in any archive, belongs to a backup whose file is on
disk (`Sound`), so a restore finds its target and its safety backup, and no write by id
goes wrong.  Three more layers stand on it, each with its own lemma per step:

* `Kept`: until rows are replaced, a pipeline that works has a RUNNING row, only one is
  past its preflight, and a restore between its preflight and psql has no other backup
  beside it that dumps;
* `Wholes`: of a restore with no other at the tables, what it has put in place is whole
  if the archive was;
* `Alive`: a row that says RUNNING has a pipeline, where the restore has settled.

### One-time passwords and registration

The invariant of the codes says more than `OnePending`: a pending OTP is the *newest* of
its phone (`PendingIsNewest`), which every step keeps that only lets rows age and which
`CreateOtp` keeps as it ends the older ones.  In the way of verification with one
transaction the row is still as it was read because its lock is held (`RowLocks`); in the
way with two it is read again.

For the limits, `Spaced` says of every OTP that has not failed what `LimitsKept` says,
seen from that OTP backwards, and `Allowed` that a request behind the lock of its phone
still has the room it has found, as no other is there and rows only age.  For accounts,
`Checked` says the same of names and places: what managers and imports add meanwhile is
not counted.  That an OTP is consumed exactly when somebody is registered with it
(`ConsumedIsRegistered`) is itself inductive, given that a row behind a token is VERIFIED
or CONSUMED (`Desk`) and that a code being sent has not been verified (`Sending`).

The refinement of `ProvenPhones` adds what a registration has shown at its start (`Shown`):
the row it was let in by is of its phone, and it has none only if the server asks for
none.  Then each step is one of the promise or changes nothing in it: `CreateOtp` voids
the open codes of its phone and adds one (`IssueStep`), a late `SendFails` voids a code or
finds it void (`VoidStep`), `Verify` proves the newest (`ProveStep`, by `PendingIsNewest`),
and the COMMIT of a registration is `Spend` or `Direct` (`RegisterStep`), where `Checked`
says that what was read before holds still.

### Sessions and years

`Calm(s)`: a session whose app sends one refresh at a time has at most one refresh in
progress, and until that has rotated the token the app holds the token of the session.
`OldSessions`: after a new password on the platform, a live session is of this password,
or had compared the old one before, or the revocation is yet to come.

A year is made from the current one, or from none.  `LastIsCurrent` says that the last
year is the current one and the only one, which the index guards, and `FromEarlier` that
years are made from earlier ones; so the current year is nobody's `from` yet, and the
year made from it takes its place.

### Imports and the structure of a grade

`OneInside`: one execution at most is in the transaction of a row, as it holds the row of
the school.  `LookupStands`: so whoever has looked for a parent and found none is right
until it makes one.

`LinksToCome` says of each request that makes a subject or a section which links will be
missing if it goes on: none but those it has still to do and those in `apart`; of two
requests that make the ends of a link, the link is in `apart`.  `Reach` is then about
everything that is live: a link is there, or in `apart`, or its subject is in the making.
`OneTeacher`: a link that nobody contests is given by one request, which finds it free or
frees it.  The agreement of the six views follows from there being one teacher.

### Lesson delivery

The status of a lesson is that of its targets whenever it reads READY (`Untouched`), and
what the cron has found is still a target (`DueStands`).

### The other parts

* Retention (`RInv`): what a request or the retention holds was not deleted before
  tonight (`Held`), so a file that goes is of a copy that nobody can still pin;
  `Spares` counts what is left after each deletion that is about to be made.
* Quizzes (`QInv`): a revision is of no later edition than the questions it was read
  with (`RevisionsInTime`), so an equal revision means equal questions; what is about
  to be acknowledged is done (`MarkedIsDone`).
* Pulls (`SInv`): what the device lacks is ahead of its cursor, or late (`AheadOrLate`);
  that a page is the first rows of an order needs that a finite set of rows has a last.
* Lists (`OInv`): what a request has read is so as long as none has overlapped it
  (`ByTurns`, `HasRead`); a list may have two rows in one place only while it is being
  put in order (`Placing`).
* Copies (`LInv`): every edit has raised the version, is about to, or has failed to
  (`VersionsCount`), so a copy is of no earlier edition than its version says
  (`CopiesFollow`).
* Reports: of a lesson whose attempts did not cross, rows are in the order of both
  times, and what is being sent comes after them (`InOrder`), so the last attempt is one
  for all.  The views then agree lesson by lesson, and what is left is that equal rows
  have equal sums.  The sums of the community modules are recursive, and the theorems of
  the library on induction over finite sets take an operator as a parameter; so a set
  that a claim holds for is made first, of the subsets of a finite set with the claim, and
  the induction is done on membership of it (`RowByRow`).  That gives what the proofs
  use: a sum over a finite set is its element and the sum of the rest (`SumsOf`), zeros do
  not count (`SumWithoutZeros`), and the sizes of the parts of a set add up
  (`SumOfSizes`).

### What is only model-checked

* `EveryRequestAnswered` and `DueIsPublished`: liveness, out of the prover's reach.
* `SchoolTypes`, `PartTypes` and `PeopleTypes`, the conjunctions of the type invariants of
  a run.  Those of the subscription, of the imports and of backups are proved; the other
  proofs use the types they need, which leave out what no step relies on.
* The properties of the runs that expect a violation.

Two definitions are written with the prover in mind: `students` is a sequence, in place
of a bag, so that a student has a place to be told by; and `Update` in `OrderedContent`
writes the two fields of a row by two paths of one `EXCEPT`.

## 5. Where code and comments part

1. `lease_lost_within_lease`.  The comment on `markCompletedTx` says that a record
   cannot be lost within its lease.  A record has no owner, and the late
   `markFailedTransient` of a request whose lease had expired takes the record of
   the one that reclaimed it.  The cost is a lost transaction and an error, not a
   second effect.
2. `user_numbers`.  Numbers are said to be unique, and protected from a race.
   `createStudent` reads the next number outside its transaction, `createTeacher`
   inside it but without a lock; nothing in the schema keeps two users of a school
   from having the same number.
3. `restore_race`.  `startRestore` is said to be protected from a race; it looks for
   RUNNING rows and creates a PENDING one.
4. `safety_backup_unlisted`.  A look-up by the old numeric id, kept for test mocks,
   takes another backup for the safety backup once an earlier restore has rewound
   the id sequence.
5. `wrong_code_counted`.  A wrong code is said to cost an attempt.  The update of the
   attempts is in the transaction that the exception reporting the wrong code rolls
   back, so attempts, BLOCKED and EXPIRED are never stored.

6. `rollover_cascades`.  A pupil who passed is said to move to the next grade.  The loop
   takes the grades in order and asks for the current enrolments of each when its turn
   comes; those just created for the pupils promoted into it are among them.  A pupil of
   the first grade goes through all of them and leaves as a graduate, in one execution.
7. `sync_misses`.  A cursor is said to bring the changes since.  It never brings options of
   a question that were replaced alone, as the row of the question is not written, nor the
   questions of a lesson that is published after the cursor has passed them.

Seen while modelling, with no line that promises otherwise:

* one verified code may register several students of different names, as the consumption
  of the code (an `updateMany` on VERIFIED rows) is not tested for having found one;
* a rollback leaves the RUNNING row of another backup that the safety dump brought back
  (`RunningIsAlive` has an exception for it), no row says RUNNING while a rollback
  replaces the database, and nothing at startup cleans the rows of jobs that died with
  the server;
* `deleteSlot` logs the loss of a target's last hour for user 0, whom the foreign key does
  not know: such an hour cannot be deleted;
* two `saveTargeting` at once make two lessons of one template;
* edits of a platform question never raise the version, so a copy with old questions is
  shown as current (`CopyIsCurrent` is about the blocks);
* an import executed twice makes its students twice;
* the unit of a school is deleted with its lessons in it, that of the platform is not.

## 6. Not modelled, and the plan

Not modelled at all, with the reason, in the components of `PROJECT.json`: the
scheduler and the storage of backups, releases and update checks, media files,
cryptography and the formats of codes, setup and statistics.  Of the modelled components
these parts are left out:

* the calendar: a year of a subscription has a constant length, so 29 February is not
  looked at; the dates of a term are whether it has begun;
* the copying of timetables, and the sections a rollover creates;
* the delivery log, and the audit trail of subscriptions;
* the feeds of subjects, progress and timetable, which use the paginator of the two that
  are modelled;
* whether an answer is right, and the points of a question;
* weeks and months of the reports, rankings and charts;
* switches of `isActive`, names, covers and other fields that nothing decides on.

Of the properties the passing runs check, those without a theorem are named at the end of
section 4 with the reason.  What could be proved next: the type invariants that the runs
check of the parts whose proofs need fewer types than the model declares, and the
refinement of an abstract specification of an activation code (unused, then spent by one
student for good), whose content `CodeTheorem` and `PurchaseTheorem` state today.
