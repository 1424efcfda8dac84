---------------------------- MODULE Subscription ----------------------------
(***************************************************************************)
(* The subscription of one school: the manager enables it (everyone then   *)
(* there gets a trial), users are added, the manager orders batches of     *)
(* activation codes, students redeem them, the guard of the lessons reads  *)
(* the periods they bought.                                                *)
(*                                                                         *)
(* A job is one request in progress.  Each of its steps is a statement of  *)
(* its transaction, or the last statement with the COMMIT; what it has     *)
(* written is in the tables only from then on (READ COMMITTED).  A lock is *)
(* held from the statement that takes it to the end of the transaction, so *)
(* who holds a lock is told by where the jobs are.                         *)
(***************************************************************************)
EXTENDS Naturals, FiniteSets

CONSTANTS Jobs,      \* requests in progress at one time
          Students,  \* users who may become students of the school
          Staff,     \* users who may become its teachers
          Serials,   \* serial numbers of activation codes: 1 .. a bound
          Year,      \* the length of a paid period
          TrialDays, \* the length of a trial
          MaxTime,   \* bound: the clock stops here
          MaxBatch,  \* bound: the codes of one batch
          NoOne      \* null: not a user, a serial number or a moment

ASSUME SubscriptionAssumption ==
    /\ Year \in Nat \ {0} /\ TrialDays \in Nat \ {0}
    /\ MaxTime \in Nat /\ MaxBatch \in Nat
    /\ Serials \subseteq Nat \ {0}
    /\ Students \cap Staff = {}
    /\ NoOne \notin Students \cup Staff \cup Nat

Users == Students \cup Staff

VARIABLES settings,   \* the school's SchoolSubscriptionSettings row
          periods,    \* the StudentAccessPeriod table
          codeState,  \* the ActivationCode table: by serial number, its status ...
          consumer,   \* ... and who redeemed it
          number,     \* the code (school number) of each user, 0 if there is no user
          nextNumber, \* School.nextUserCode
          pc, who, serial, at, mine, trials,  \* a job's place and local variables
          offered,    \* history: since it was enabled, every new student got a trial
          now         \* the clock

tables == <<settings, periods, codeState, consumer, number, nextNumber, offered>>
locals == <<who, serial, at, mine, trials>>
vars == <<tables, locals, pc, now>>

\* ended is endedEarlyAt, or NoOne; `via` tells apart trials of different origin.
Period(s, type, start, length, code, via) ==
    [student |-> s, type |-> type, start |-> start, expires |-> start + length,
     ended |-> NoOne, code |-> code, via |-> via]

Init == /\ settings = [isActivated |-> FALSE, isTrialEnabled |-> FALSE,
                       nextCodeSerial |-> 1]
        /\ periods = {}
        /\ codeState = [c \in Serials |-> "ABSENT"]
        /\ consumer = [c \in Serials |-> NoOne]
        /\ number = [u \in Users |-> 0]
        /\ nextNumber = 1
        /\ pc = [j \in Jobs |-> "idle"]
        /\ who = [j \in Jobs |-> NoOne]
        /\ serial = [j \in Jobs |-> 0]
        /\ at = [j \in Jobs |-> 0]
        /\ mine = [j \in Jobs |-> 0]
        /\ trials = [j \in Jobs |-> {}]
        /\ offered = TRUE
        /\ now = 0

-----------------------------------------------------------------------------
(* Locks *)

\* SELECT ... FROM "School" FOR UPDATE, or an UPDATE of that row.
SchoolFree == \A j \in Jobs : pc[j] \notin {"enabling", "added", "decided"}

\* Seeded fault: the settings row is read without FOR UPDATE.
SettingsFree_noLock == TRUE

\* SELECT ... FROM "school_subscription_settings" FOR UPDATE.
SettingsFree == \A j \in Jobs : pc[j] # "batching"

\* pg_advisory_xact_lock(school, student)
StudentFree(s) == \A j \in Jobs : pc[j] \in {"inside", "found", "spent", "ended"} => who[j] # s

\* The row of an activation code, once updated.
CodeFree(c) == \A j \in Jobs : pc[j] \in {"spent", "ended"} => serial[j] # c

Goto(j, from, to) == pc[j] = from /\ pc' = [pc EXCEPT ![j] = to]

\* A request that has ended keeps nothing.
Leave(j, from) == /\ Goto(j, from, "idle")
                  /\ who' = [who EXCEPT ![j] = NoOne]
                  /\ serial' = [serial EXCEPT ![j] = 0]
                  /\ at' = [at EXCEPT ![j] = 0]
                  /\ mine' = [mine EXCEPT ![j] = 0]
                  /\ trials' = [trials EXCEPT ![j] = {}]
                  /\ UNCHANGED now

-----------------------------------------------------------------------------
(* activateSubscription *)

RequestEnable(j) == /\ Goto(j, "idle", "enable")
                    /\ at' = [at EXCEPT ![j] = now]
                    /\ UNCHANGED <<tables, who, serial, mine, trials, now>>

\* Seeded fault: the manager's transaction does not lock the school.
LockSchool_noLock(j) == Goto(j, "enable", "enabling") /\ UNCHANGED <<tables, locals, now>>

LockSchool(j) == /\ Goto(j, "enable", "enabling")
                 /\ SchoolFree
                 /\ UNCHANGED <<tables, locals, now>>

\* SUBSCRIPTION_ALREADY_ACTIVATED
RefuseEnable(j) == /\ Leave(j, "enabling")
                   /\ settings.isActivated
                   /\ UNCHANGED tables

\* createBulkTrialsTx: one trial per student committed when the INSERT reads.
BulkTrials(j) == {Period(s, "TRIAL", at[j], TrialDays, NoOne, "bulk") :
                     s \in {s \in Students : number[s] # 0}}

CommitEnable(j, trial) ==
    /\ Leave(j, "enabling")
    /\ ~settings.isActivated
    /\ settings' = [settings EXCEPT !.isActivated = TRUE, !.isTrialEnabled = trial]
    /\ periods' = periods \cup (IF trial THEN BulkTrials(j) ELSE {})
    /\ offered' = trial
    /\ UNCHANGED <<codeState, consumer, number, nextNumber>>

(* updateSettings: a single UPDATE, which waits for the row. *)
UpdateSettings(trial) ==
    /\ settings.isActivated
    /\ SettingsFree
    /\ settings' = [settings EXCEPT !.isTrialEnabled = trial]
    /\ offered' = (offered /\ trial)
    /\ UNCHANGED <<periods, codeState, consumer, number, nextNumber, locals, pc, now>>

-----------------------------------------------------------------------------
(* Adding a user *)

\* createStudent and createTeacher read nextUserCode, which locks nothing, ...
ReadNumber(j, u) == /\ Goto(j, "idle", "numbered")
                    /\ number[u] = 0 /\ \A i \in Jobs : who[i] # u
                    /\ who' = [who EXCEPT ![j] = u]
                    /\ mine' = [mine EXCEPT ![j] = nextNumber]
                    /\ UNCHANGED <<tables, serial, at, trials, now>>

\* ... and then write the number they read, plus one.
WriteNumber(j) == /\ Goto(j, "numbered", "added")
                  /\ SchoolFree
                  /\ UNCHANGED <<tables, locals, now>>

\* Registration, import and the owner's console: { increment: 1 }.
IncrementNumber(j, u) == /\ Goto(j, "idle", "added")
                         /\ SchoolFree
                         /\ number[u] = 0 /\ \A i \in Jobs : who[i] # u
                         /\ who' = [who EXCEPT ![j] = u]
                         /\ mine' = [mine EXCEPT ![j] = nextNumber]
                         /\ UNCHANGED <<tables, serial, at, trials, now>>

\* createTrialForNewStudentTx, after the INSERT of the user; nobody else can ask
\* for the advisory lock of a student who is not committed yet.
DecideTrial(j) ==
    /\ Goto(j, "added", "decided")
    /\ trials' = [trials EXCEPT ![j] =
          IF who[j] \in Students /\ settings.isActivated /\ settings.isTrialEnabled
          THEN {Period(who[j], "TRIAL", now, TrialDays, NoOne, "intake")}
          ELSE {}]
    /\ UNCHANGED <<tables, who, serial, at, mine, now>>

CommitUser(j) == /\ Leave(j, "decided")
                 /\ number' = [number EXCEPT ![who[j]] = mine[j]]
                 /\ nextNumber' = mine[j] + 1
                 /\ periods' = periods \cup trials[j]
                 /\ UNCHANGED <<settings, codeState, consumer, offered>>

-----------------------------------------------------------------------------
(* createBatch *)

LockSettings(j) == /\ Goto(j, "idle", "batching")
                   /\ SettingsFree
                   /\ settings.isActivated
                   /\ serial' = [serial EXCEPT ![j] = settings.nextCodeSerial]
                   /\ UNCHANGED <<tables, who, at, mine, trials, now>>

CommitBatch(j, n) ==
    LET batch == serial[j] .. serial[j] + n - 1 IN
    /\ Leave(j, "batching")
    /\ batch \subseteq Serials
    /\ settings' = [settings EXCEPT !.nextCodeSerial = serial[j] + n]
    /\ codeState' = [c \in Serials |-> IF c \in batch THEN "UNUSED" ELSE codeState[c]]
    /\ UNCHANGED <<periods, consumer, number, nextNumber, offered>>

-----------------------------------------------------------------------------
(* activateCode *)

\* A student types a code; `at` is taken before the first statement.
RequestCode(j, s, c) == /\ Goto(j, "idle", "activate")
                        /\ number[s] # 0
                        /\ who' = [who EXCEPT ![j] = s]
                        /\ serial' = [serial EXCEPT ![j] = c]
                        /\ at' = [at EXCEPT ![j] = now]
                        /\ UNCHANGED <<tables, mine, trials, now>>

\* Seeded fault: no advisory lock.
LockStudent_noLock(j) == Goto(j, "activate", "inside") /\ UNCHANGED <<tables, locals, now>>

LockStudent(j) == /\ Goto(j, "activate", "inside")
                  /\ StudentFree(who[j])
                  /\ UNCHANGED <<tables, locals, now>>

Running(p, t) == p.ended = NoOne /\ p.expires > t

OwnPeriods(j, type) == {p \in periods : p.student = who[j] /\ p.type = type /\ Running(p, at[j])}

\* ACTIVE_PAID_SUBSCRIPTION_EXISTS or INVALID_OR_USED_CODE
RefuseCode(j) == /\ Leave(j, "inside")
                 /\ \/ OwnPeriods(j, "PAID") # {}
                    \/ codeState[serial[j]] # "UNUSED"
                 /\ UNCHANGED tables

FindCode(j) == /\ Goto(j, "inside", "found")
               /\ OwnPeriods(j, "PAID") = {}
               /\ codeState[serial[j]] = "UNUSED"
               /\ UNCHANGED <<tables, locals, now>>

\* The update is by id: it waits for the row, then takes it whatever its status.
SpendCode(j) == /\ Goto(j, "found", "spent")
                /\ CodeFree(serial[j])
                /\ UNCHANGED <<tables, locals, now>>

\* Seeded faults: the trial is left running; the table has no such CHECK.
EndTrials_forgotten(j) == Goto(j, "spent", "ended") /\ UNCHANGED <<tables, locals, now>>

EndTrials_unchecked(j) ==
    /\ Goto(j, "spent", "ended")
    /\ trials' = [trials EXCEPT ![j] = OwnPeriods(j, "TRIAL")]
    /\ UNCHANGED <<tables, who, serial, at, mine, now>>

\* CHECK (ended_early_at >= started_at) refuses to end a trial that began after `at`.
EndTrials(j) == /\ Goto(j, "spent", "ended")
                /\ \A p \in OwnPeriods(j, "TRIAL") : p.start <= at[j]
                /\ trials' = [trials EXCEPT ![j] = OwnPeriods(j, "TRIAL")]
                /\ UNCHANGED <<tables, who, serial, at, mine, now>>

\* Seeded fault: the index is not unique.
CodeIsFresh_notUnique(c) == TRUE

\* UNIQUE (activation_code_id) on the periods.
CodeIsFresh(c) == \A p \in periods : p.code # c

CommitActivation(j) ==
    /\ Leave(j, "ended")
    /\ CodeIsFresh(serial[j])
    /\ codeState' = [codeState EXCEPT ![serial[j]] = "USED"]
    /\ consumer' = [consumer EXCEPT ![serial[j]] = who[j]]
    /\ periods' = (periods \ trials[j]) \cup {[p EXCEPT !.ended = at[j]] : p \in trials[j]}
                     \cup {Period(who[j], "PAID", at[j], Year, serial[j], "code")}
    /\ UNCHANGED <<settings, number, nextNumber, offered>>

-----------------------------------------------------------------------------
\* Any error, timeout or crash before the COMMIT: the transaction leaves no trace.
Abort(j) == /\ \E from \in {"enable", "enabling", "numbered", "added", "decided",
                            "batching", "activate", "inside", "found", "spent", "ended"} :
                   Leave(j, from)
            /\ UNCHANGED tables

Tick == /\ now < MaxTime
        /\ now' = now + 1
        /\ UNCHANGED <<tables, locals, pc>>

Enable(j) == \/ RequestEnable(j) \/ LockSchool(j) \/ RefuseEnable(j)
             \/ \E trial \in BOOLEAN : CommitEnable(j, trial)

AddUser(j) == \/ \E u \in Users : ReadNumber(j, u) \/ IncrementNumber(j, u)
              \/ WriteNumber(j) \/ DecideTrial(j) \/ CommitUser(j)

OrderCodes(j) == LockSettings(j) \/ \E n \in 1 .. MaxBatch : CommitBatch(j, n)

Redeem(j) == \/ \E s \in Students, c \in Serials : RequestCode(j, s, c)
             \/ LockStudent(j) \/ RefuseCode(j) \/ FindCode(j) \/ SpendCode(j)
             \/ EndTrials(j) \/ CommitActivation(j)

Next == \/ \E j \in Jobs : Enable(j) \/ AddUser(j) \/ OrderCodes(j) \/ Redeem(j) \/ Abort(j)
        \/ \E trial \in BOOLEAN : UpdateSettings(trial)
        \/ Tick

Spec == Init /\ [][Next]_vars

-----------------------------------------------------------------------------
(* What a student sees of the periods *)

PeriodsOf(s) == {p \in periods : p.student = s}

\* Seeded fault: the guard takes the last instant for a part of the period.
GuardLetsIn_inclusive(s) ==
    settings.isActivated => \E p \in PeriodsOf(s) : p.ended = NoOne /\ p.expires >= now

\* SubscriptionGuard.canActivate, for a student.
GuardLetsIn(s) == settings.isActivated => \E p \in PeriodsOf(s) : Running(p, now)

EffectiveEnd(p) == IF p.ended = NoOne THEN p.expires ELSE p.ended

LatestOf(S) == {p \in S : \A q \in S : EffectiveEnd(q) <= EffectiveEnd(p)}

RunningOf(s, type) == {p \in PeriodsOf(s) : p.type = type /\ Running(p, now)}

\* The periods getMyStatus may take its answer from.
Reference(s) == LatestOf(IF RunningOf(s, "PAID") # {} THEN RunningOf(s, "PAID")
                         ELSE IF RunningOf(s, "TRIAL") # {} THEN RunningOf(s, "TRIAL")
                         ELSE PeriodsOf(s))

-----------------------------------------------------------------------------
Places == {"idle", "enable", "enabling", "numbered", "added", "decided", "batching",
           "activate", "inside", "found", "spent", "ended"}

Periods == [student : Students, type : {"TRIAL", "PAID"}, start : Nat, expires : Nat,
            ended : Nat \cup {NoOne}, code : Serials \cup {NoOne},
            via : {"bulk", "intake", "code"}]

\* The types of the variables, and the CHECKs of the tables.
TypeOK == /\ settings \in [isActivated : BOOLEAN, isTrialEnabled : BOOLEAN,
                           nextCodeSerial : Nat \ {0}]
          /\ periods \subseteq Periods
          /\ codeState \in [Serials -> {"ABSENT", "UNUSED", "USED"}]
          /\ consumer \in [Serials -> Students \cup {NoOne}]
          /\ number \in [Users -> Nat]
          /\ nextNumber \in Nat
          /\ pc \in [Jobs -> Places]
          /\ who \in [Jobs -> Users \cup {NoOne}]
          /\ serial \in [Jobs -> Nat]
          /\ at \in [Jobs -> Nat]
          /\ mine \in [Jobs -> Nat]
          /\ trials \in [Jobs -> SUBSET Periods]
          /\ offered \in BOOLEAN
          /\ now \in Nat
          /\ \A p \in periods : /\ p.start < p.expires
                               /\ p.ended # NoOne => p.start <= p.ended
                               /\ p.type = "TRIAL" <=> p.code = NoOne
          /\ \A c \in Serials : codeState[c] = "USED" <=> consumer[c] # NoOne

\* A code is worth one paid period, of the student recorded as its consumer: two
\* students who race for one code cannot both get a year, and none is lost.
CodeSpentOnce ==
    \A c \in Serials :
        LET bought == {p \in periods : p.code = c} IN
        IF codeState[c] = "USED"
        THEN \E p \in bought : bought = {p} /\ p.student = consumer[c] /\ p.type = "PAID"
        ELSE bought = {}

\* The paid periods of one student do not overlap: no day is paid for twice.
PaidDisjoint ==
    \A p, q \in periods :
        p # q /\ p.student = q.student /\ p.type = "PAID" /\ q.type = "PAID" =>
            p.expires <= q.start \/ q.expires <= p.start

\* A student has one running period at most: buying ends the trial.
OneRunningPeriod ==
    \A p, q \in periods :
        p.student = q.student /\ Running(p, now) /\ Running(q, now) => p = q

\* However additions of users interleave with the manager enabling the
\* subscription, no student gets two trials and, while trials are offered,
\* no student is left without one.
TrialForEveryStudent ==
    /\ \A p, q \in periods :
          p.student = q.student /\ p.type = "TRIAL" /\ q.type = "TRIAL" => p = q
    /\ settings.isActivated /\ offered =>
          \A s \in Students : number[s] # 0 => \E p \in PeriodsOf(s) : p.type = "TRIAL"

\* The end that getMyStatus shows a student is in the future exactly when the
\* guard lets the student in.
StatusTellsAccess ==
    settings.isActivated =>
        \A s \in Students :
            /\ GuardLetsIn(s) => Reference(s) # {}
            /\ \A p \in Reference(s) : GuardLetsIn(s) <=> EffectiveEnd(p) > now

\* A code, once redeemed, keeps its consumer, and a period that has begun is only
\* ever ended, at a moment after its start: nobody's purchase is taken back.
PurchasesStand ==
    [][/\ \A c \in Serials : codeState[c] = "USED" =>
            codeState'[c] = "USED" /\ consumer'[c] = consumer[c]
       /\ \A p \in periods : p.type = "PAID" => p \in periods']_vars

\* MANAGER_README, "Auto Code Generation": every user gets a unique number.
UniqueNumbers ==
    \A u, v \in Users : u # v /\ number[u] # 0 => number[u] # number[v]
=============================================================================
