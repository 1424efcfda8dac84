-------------------------- MODULE SubscriptionProofs --------------------------
(***************************************************************************)
(* The subscription of a school, proved for any number of requests, users  *)
(* and codes, and any length of a year and of a trial: what a code is      *)
(* worth, what a student has paid for and what the guard lets in.          *)
(*                                                                         *)
(* Every property rests on a lock taken by one statement and relied on by  *)
(* a later one, so the invariant says what a job knows at each place, and  *)
(* which jobs cannot be at two places at once.                             *)
(***************************************************************************)
EXTENDS Subscription, TLAPS

Settings == [isActivated : BOOLEAN, isTrialEnabled : BOOLEAN, nextCodeSerial : Nat \ {0}]

Types == /\ settings \in Settings
         /\ periods \subseteq Periods
         /\ codeState \in [Serials -> {"ABSENT", "UNUSED", "USED"}]
         /\ consumer \in [Serials -> Students \cup {NoOne}]
         /\ number \in [Users -> Nat]
         /\ nextNumber \in Nat \ {0}
         /\ pc \in [Jobs -> Places]
         /\ who \in [Jobs -> Users \cup {NoOne}]
         /\ serial \in [Jobs -> Nat]
         /\ at \in [Jobs -> Nat]
         /\ mine \in [Jobs -> Nat]
         /\ trials \in [Jobs -> SUBSET Periods]
         /\ offered \in BOOLEAN
         /\ now \in Nat

-----------------------------------------------------------------------------
(* The tables *)

\* A period of the table: what is paid for is never ended, and nothing is ended later
\* than now.
Sound(p) == /\ p.start < p.expires
            /\ p.type = "TRIAL" <=> p.code = NoOne
            /\ p.type = "PAID" => p.ended = NoOne
            /\ p.ended # NoOne => p.start <= p.ended /\ p.ended <= now
            /\ number[p.student] # 0

SoundPeriods == \A p \in periods : Sound(p)

\* Serial numbers are given out in their order.
Codes == /\ \A c \in Serials : c >= settings.nextCodeSerial => codeState[c] = "ABSENT"
         /\ \A c \in Serials : codeState[c] = "USED" <=> consumer[c] # NoOne

BeforeEnabling == ~settings.isActivated => /\ periods = {}
                                           /\ \A c \in Serials : codeState[c] = "ABSENT"

OneTrial == \A p, q \in periods :
    p.student = q.student /\ p.type = "TRIAL" /\ q.type = "TRIAL" => p = q

Offer == settings.isActivated /\ offered =>
    /\ settings.isTrialEnabled
    /\ \A s \in Students : number[s] # 0 => \E p \in PeriodsOf(s) : p.type = "TRIAL"

Tables == /\ SoundPeriods /\ Codes /\ BeforeEnabling /\ OneTrial /\ Offer
          /\ CodeSpentOnce /\ PaidDisjoint /\ OneRunningPeriod

-----------------------------------------------------------------------------
(* What a job knows *)

Adding == {"numbered", "added", "decided"}
Redeeming == {"activate", "inside", "found", "spent", "ended"}

IntakeTrial(u, t) == Period(u, "TRIAL", t, TrialDays, NoOne, "intake")

Adds(j) == pc[j] \in Adding => who[j] \in Users /\ number[who[j]] = 0 /\ mine[j] # 0

Decided(j) == pc[j] = "decided" =>
    /\ trials[j] # {} => /\ who[j] \in Students /\ settings.isActivated
                         /\ \E t \in 0 .. now : trials[j] = {IntakeTrial(who[j], t)}
    /\ who[j] \in Students /\ settings.isActivated /\ offered => trials[j] # {}

Batches(j) == pc[j] = "batching" => settings.isActivated /\ serial[j] = settings.nextCodeSerial

Redeems(j) == pc[j] \in Redeeming =>
    who[j] \in Students /\ number[who[j]] # 0 /\ serial[j] \in Serials

\* There is such a code, and no period is paid for that runs at the time of the request ...
Found(j) == pc[j] \in {"found", "spent", "ended"} =>
    /\ settings.isActivated
    /\ codeState[serial[j]] # "ABSENT"
    /\ OwnPeriods(j, "PAID") = {}

\* ... and the trials that do are the ones that will be ended.
Ended(j) == pc[j] = "ended" =>
    trials[j] = OwnPeriods(j, "TRIAL") /\ \A p \in trials[j] : p.start <= at[j]

Knows(j) == /\ at[j] <= now
            /\ Adds(j) /\ Decided(j) /\ Batches(j) /\ Redeems(j) /\ Found(j) /\ Ended(j)

-----------------------------------------------------------------------------
(* Who cannot be where at once *)

InSchool(j) == pc[j] \in {"enabling", "added", "decided"}
InStudent(j) == pc[j] \in {"inside", "found", "spent", "ended"}

Locks == /\ \A j, k \in Jobs : InSchool(j) /\ InSchool(k) => j = k
         /\ \A j, k \in Jobs : pc[j] = "batching" /\ pc[k] = "batching" => j = k
         /\ \A j, k \in Jobs : InStudent(j) /\ InStudent(k) /\ who[j] = who[k] => j = k
         /\ \A j, k \in Jobs : pc[j] \in Adding /\ who[j] = who[k] => j = k

IInv == Types /\ Tables /\ (\A j \in Jobs : Knows(j)) /\ Locks

-----------------------------------------------------------------------------
(* What the steps have in common *)

LocalTypes == /\ pc \in [Jobs -> Places]
              /\ who \in [Jobs -> Users \cup {NoOne}]
              /\ serial \in [Jobs -> Nat]
              /\ at \in [Jobs -> Nat]
              /\ mine \in [Jobs -> Nat]
              /\ trials \in [Jobs -> SUBSET Periods]

\* A job that takes no part in a step.
Same(k) == /\ pc'[k] = pc[k] /\ who'[k] = who[k] /\ serial'[k] = serial[k]
           /\ at'[k] = at[k] /\ mine'[k] = mine[k] /\ trials'[k] = trials[k]

LEMMA SameTables == ASSUME Tables, UNCHANGED <<tables, now>> PROVE Tables'
  BY DEF tables, Tables, SoundPeriods, Sound, Codes, BeforeEnabling, OneTrial, Offer, PeriodsOf,
         CodeSpentOnce, PaidDisjoint, OneRunningPeriod, Running

LEMMA SameKnows == ASSUME NEW k \in Jobs, Knows(k), Same(k), UNCHANGED <<tables, now>>
                   PROVE  Knows(k)'
  BY DEF tables, Knows, Adds, Decided, Batches, Redeems, Found, Ended, OwnPeriods, Running, Same

\* A step of one job that writes nothing.
LEMMA QuietStep ==
    ASSUME IInv, UNCHANGED <<tables, now>>, NEW j \in Jobs, \A k \in Jobs \ {j} : Same(k),
           LocalTypes', Knows(j)', Locks'
    PROVE  IInv'
<1>1. Types'
  BY DEF IInv, Types, LocalTypes, tables
<1>2. Tables'
  BY SameTables DEF IInv
<1>3. \A k \in Jobs : Knows(k)'
  BY SameKnows DEF IInv
<1>. QED
  BY <1>1, <1>2, <1>3 DEF IInv

\* A job that has ended knows nothing, and holds no lock.
LEMMA LeaveStep ==
    ASSUME IInv, NEW j \in Jobs, NEW from \in Places, Leave(j, from)
    PROVE  /\ LocalTypes' /\ Locks'
           /\ \A k \in Jobs \ {j} : Same(k)
           /\ Knows(j)'
           /\ pc[j] = from /\ pc'[j] = "idle" /\ UNCHANGED now
<1>1. /\ pc[j] = from /\ UNCHANGED now /\ LocalTypes'
      /\ pc'[j] = "idle" /\ at'[j] = 0 /\ who'[j] = NoOne
      /\ \A k \in Jobs \ {j} : Same(k)
  BY DEF Leave, Goto, IInv, Types, LocalTypes, Places, Same
<1>2. Knows(j)'
  BY <1>1 DEF IInv, Types, Knows, Adds, Decided, Batches, Redeems, Found, Ended, Adding, Redeeming
<1>3. Locks'
  <2>1. ASSUME NEW k \in Jobs
        PROVE  /\ InSchool(k)' => k # j /\ InSchool(k)
               /\ InStudent(k)' => k # j /\ InStudent(k)
               /\ pc'[k] = "batching" => k # j /\ pc[k] = "batching"
               /\ pc'[k] \in Adding => k # j /\ pc[k] \in Adding /\ who[k] \in Users
    BY <1>1 DEF Same, InSchool, InStudent, Adding, IInv, Knows, Adds
  <2>2. NoOne \notin Users
    BY SubscriptionAssumption DEF Users
  <2>3. ASSUME NEW i \in Jobs, NEW k \in Jobs
        PROVE  /\ InSchool(i)' /\ InSchool(k)' => i = k
               /\ pc'[i] = "batching" /\ pc'[k] = "batching" => i = k
               /\ InStudent(i)' /\ InStudent(k)' /\ who'[i] = who'[k] => i = k
               /\ pc'[i] \in Adding /\ who'[i] = who'[k] => i = k
    BY <1>1, <2>1, <2>2 DEF IInv, Locks, Same
  <2>. QED
    BY <2>3 DEF Locks
<1>. QED
  BY <1>1, <1>2, <1>3

\* A request that is refused or lost.
LEMMA QuietLeave ==
    ASSUME IInv, NEW j \in Jobs, NEW from \in Places, Leave(j, from), UNCHANGED tables
    PROVE  IInv'
  BY LeaveStep, QuietStep

\* A job goes on, with the values it had.
LEMMA QuietGoto ==
    ASSUME IInv, NEW j \in Jobs, NEW from \in Places, NEW to \in Places, Goto(j, from, to),
           UNCHANGED <<locals, now>>
    PROVE  /\ LocalTypes' /\ UNCHANGED <<who, serial, at, mine, trials>>
           /\ pc[j] = from /\ pc'[j] = to
           /\ \A k \in Jobs \ {j} : Same(k)
  BY DEF Goto, locals, IInv, Types, LocalTypes, Same

-----------------------------------------------------------------------------
LEMMA InitInv == Init => IInv
<1> SUFFICES ASSUME Init PROVE IInv
  OBVIOUS
<1>1. Types
  BY DEF Init, Types, Settings, Places, Users
<1>2. Tables
  BY SubscriptionAssumption DEF Init, Tables, SoundPeriods, Codes, BeforeEnabling, OneTrial, Offer,
     CodeSpentOnce, PaidDisjoint, OneRunningPeriod
<1>3. \A j \in Jobs : Knows(j)
  BY DEF Init, Knows, Adds, Decided, Batches, Redeems, Found, Ended, Adding, Redeeming
<1>4. Locks
  BY DEF Init, Locks, InSchool, InStudent, Adding
<1>. QED
  BY <1>1, <1>2, <1>3, <1>4 DEF IInv

-----------------------------------------------------------------------------
(* Enabling the subscription *)

LEMMA RequestEnableInv == ASSUME IInv, NEW j \in Jobs, RequestEnable(j) PROVE IInv'
<1> USE DEF RequestEnable, Goto
<1>1. /\ LocalTypes' /\ \A k \in Jobs \ {j} : Same(k)
      /\ pc[j] = "idle" /\ pc'[j] = "enable" /\ at'[j] = now /\ UNCHANGED <<tables, who, now>>
  BY DEF IInv, Types, LocalTypes, Places, Same
<1>2. Knows(j)'
  BY <1>1 DEF IInv, Types, Knows, Adds, Decided, Batches, Redeems, Found, Ended, Adding, Redeeming
<1>3. Locks'
  BY <1>1 DEF IInv, Locks, Same, InSchool, InStudent, Adding
<1>. QED
  BY <1>1, <1>2, <1>3, QuietStep

LEMMA LockSchoolInv == ASSUME IInv, NEW j \in Jobs, LockSchool(j) PROVE IInv'
<1>1. /\ LocalTypes' /\ \A k \in Jobs \ {j} : Same(k)
      /\ pc[j] = "enable" /\ pc'[j] = "enabling" /\ UNCHANGED <<tables, who, at, now>>
      /\ SchoolFree
  BY QuietGoto DEF LockSchool, Places
<1>2. Knows(j)'
  BY <1>1 DEF IInv, Types, Knows, Adds, Decided, Batches, Redeems, Found, Ended, Adding, Redeeming
<1>3. Locks'
  BY <1>1 DEF IInv, Locks, Same, InSchool, InStudent, Adding, SchoolFree
<1>. QED
  BY <1>1, <1>2, <1>3, QuietStep

LEMMA RefuseEnableInv == ASSUME IInv, NEW j \in Jobs, RefuseEnable(j) PROVE IInv'
  BY QuietLeave DEF RefuseEnable, Places

\* A period has the fields it is made with.
LEMMA PeriodFields ==
    ASSUME NEW s \in Students, NEW type \in {"TRIAL", "PAID"}, NEW start \in Nat,
           NEW length \in Nat \ {0}, NEW code \in Serials \cup {NoOne},
           NEW via \in {"bulk", "intake", "code"},
           NEW p, p = Period(s, type, start, length, code, via)
    PROVE  /\ p \in Periods
           /\ p.student = s /\ p.type = type /\ p.start = start /\ p.expires = start + length
           /\ p.ended = NoOne /\ p.code = code
           /\ p.start < p.expires
  BY DEF Period, Periods

\* Nobody has a period before, so a trial for everybody is one for each.
LEMMA CommitEnableInv == ASSUME IInv, NEW j \in Jobs, NEW trial \in BOOLEAN, CommitEnable(j, trial)
                         PROVE  IInv'
<1> DEFINE trialOf(s) == Period(s, "TRIAL", at[j], TrialDays, NoOne, "bulk")
<1>1. /\ LocalTypes' /\ Locks' /\ Knows(j)' /\ (\A k \in Jobs \ {j} : Same(k))
      /\ pc[j] = "enabling" /\ UNCHANGED now
  BY LeaveStep DEF CommitEnable, Places
<1>2. /\ ~settings.isActivated /\ settings' \in Settings
      /\ settings'.isActivated = TRUE /\ settings'.isTrialEnabled = trial
      /\ settings'.nextCodeSerial = settings.nextCodeSerial
      /\ offered' = trial /\ UNCHANGED <<codeState, consumer, number, nextNumber>>
  BY DEF CommitEnable, IInv, Types, Settings
<1>3. periods = {} /\ \A c \in Serials : codeState[c] = "ABSENT"
  BY <1>2 DEF IInv, Tables, BeforeEnabling
<1>4. /\ \A p \in periods' : \E s \in Students : number[s] # 0 /\ p = trialOf(s)
      /\ trial => \A s \in Students : number[s] # 0 => trialOf(s) \in periods'
  BY <1>3 DEF CommitEnable, BulkTrials
<1>5. \A s \in Students : /\ trialOf(s) \in Periods /\ trialOf(s).student = s
                          /\ trialOf(s).type = "TRIAL" /\ trialOf(s).code = NoOne
                          /\ trialOf(s).ended = NoOne /\ trialOf(s).start < trialOf(s).expires
  <2>1. at[j] \in Nat /\ TrialDays \in Nat \ {0}
    BY SubscriptionAssumption DEF IInv, Types
  <2>. QED
    BY <2>1, PeriodFields
<1> HIDE DEF trialOf
<1>6. Types'
  BY <1>1, <1>2, <1>4, <1>5 DEF IInv, Types, LocalTypes
<1>7. Tables'
  <2>1. SoundPeriods'
    BY <1>2, <1>4, <1>5 DEF SoundPeriods, Sound
  <2>2. Codes' /\ BeforeEnabling'
    BY <1>2, <1>3 DEF IInv, Tables, Codes, BeforeEnabling
  <2>3. OneTrial' /\ OneRunningPeriod' /\ PaidDisjoint'
    BY <1>4, <1>5 DEF OneTrial, OneRunningPeriod, PaidDisjoint
  <2>4. Offer'
    BY <1>2, <1>4, <1>5 DEF Offer, PeriodsOf
  <2>5. CodeSpentOnce'
    BY <1>2, <1>3, <1>4, <1>5, SubscriptionAssumption DEF CodeSpentOnce
  <2>. QED
    BY <2>1, <2>2, <2>3, <2>4, <2>5 DEF Tables
<1>8. \A k \in Jobs \ {j} : Knows(k)'
  <2> SUFFICES ASSUME NEW k \in Jobs \ {j} PROVE Knows(k)'
    OBVIOUS
  <2>1. Knows(k) /\ Same(k) /\ pc[k] # "decided" /\ pc[k] \notin {"batching", "found", "spent", "ended"}
    BY <1>1, <1>2 DEF IInv, Locks, InSchool, Knows, Batches, Found
  <2>. QED
    BY <1>1, <1>2, <2>1 DEF Knows, Adds, Decided, Batches, Redeems, Found, Ended, Same
<1>. QED
  BY <1>1, <1>6, <1>7, <1>8 DEF IInv

LEMMA UpdateSettingsInv == ASSUME IInv, NEW trial \in BOOLEAN, UpdateSettings(trial) PROVE IInv'
<1>1. /\ settings.isActivated /\ settings' \in Settings
      /\ settings'.isActivated = settings.isActivated /\ settings'.isTrialEnabled = trial
      /\ settings'.nextCodeSerial = settings.nextCodeSerial
      /\ offered' = (offered /\ trial)
      /\ UNCHANGED <<periods, codeState, consumer, number, nextNumber,
                     who, serial, at, mine, trials, pc, now>>
  BY DEF UpdateSettings, locals, IInv, Types, Settings
<1>2. Types'
  BY <1>1 DEF IInv, Types
<1>3. Tables'
  <2>1. SoundPeriods' /\ Codes' /\ BeforeEnabling' /\ OneTrial' /\ CodeSpentOnce'
    BY <1>1 DEF IInv, Tables, SoundPeriods, Sound, Codes, BeforeEnabling, OneTrial, CodeSpentOnce
  <2>2. PaidDisjoint' /\ OneRunningPeriod'
    BY <1>1 DEF IInv, Tables, PaidDisjoint, OneRunningPeriod, Running
  <2>3. Offer'
    BY <1>1 DEF IInv, Tables, Offer, PeriodsOf
  <2>. QED
    BY <2>1, <2>2, <2>3 DEF Tables
<1>4. \A k \in Jobs : Knows(k)'
  BY <1>1 DEF IInv, Knows, Adds, Decided, Batches, Redeems, Found, Ended, OwnPeriods, Running
<1>5. Locks'
  BY <1>1 DEF IInv, Locks, InSchool, InStudent
<1>. QED
  BY <1>2, <1>3, <1>4, <1>5 DEF IInv

-----------------------------------------------------------------------------
(* Adding a user *)

LEMMA IntakeFields ==
    ASSUME NEW s \in Students, NEW t \in Nat
    PROVE  /\ IntakeTrial(s, t) \in Periods
           /\ IntakeTrial(s, t).student = s /\ IntakeTrial(s, t).type = "TRIAL"
           /\ IntakeTrial(s, t).code = NoOne /\ IntakeTrial(s, t).ended = NoOne
           /\ IntakeTrial(s, t).start < IntakeTrial(s, t).expires
<1>1. TrialDays \in Nat \ {0}
  BY SubscriptionAssumption
<1>. QED
  BY <1>1, PeriodFields DEF IntakeTrial

LEMMA ReadNumberInv == ASSUME IInv, NEW j \in Jobs, NEW u \in Users, ReadNumber(j, u) PROVE IInv'
<1>1. /\ LocalTypes' /\ \A k \in Jobs \ {j} : Same(k)
      /\ pc[j] = "idle" /\ pc'[j] = "numbered" /\ who'[j] = u /\ mine'[j] = nextNumber
      /\ number[u] = 0 /\ (\A k \in Jobs : who[k] # u) /\ UNCHANGED <<tables, at, now>>
  BY DEF ReadNumber, Goto, IInv, Types, LocalTypes, Places, Same
<1>2. Knows(j)'
  BY <1>1 DEF IInv, Types, Knows, Adds, Decided, Batches, Redeems, Found, Ended, Adding, Redeeming,
              tables
<1>3. Locks'
  BY <1>1 DEF IInv, Locks, Same, InSchool, InStudent, Adding
<1>. QED
  BY <1>1, <1>2, <1>3, QuietStep

LEMMA WriteNumberInv == ASSUME IInv, NEW j \in Jobs, WriteNumber(j) PROVE IInv'
<1>1. /\ LocalTypes' /\ \A k \in Jobs \ {j} : Same(k)
      /\ pc[j] = "numbered" /\ pc'[j] = "added" /\ UNCHANGED <<tables, who, at, mine, now>>
      /\ SchoolFree
  BY QuietGoto DEF WriteNumber, Places
<1>2. Knows(j)'
  BY <1>1 DEF IInv, Knows, Adds, Decided, Batches, Redeems, Found, Ended, Adding, Redeeming, tables
<1>3. Locks'
  BY <1>1 DEF IInv, Locks, Same, InSchool, InStudent, Adding, SchoolFree
<1>. QED
  BY <1>1, <1>2, <1>3, QuietStep

LEMMA IncrementNumberInv ==
    ASSUME IInv, NEW j \in Jobs, NEW u \in Users, IncrementNumber(j, u) PROVE IInv'
<1>1. /\ LocalTypes' /\ \A k \in Jobs \ {j} : Same(k)
      /\ pc[j] = "idle" /\ pc'[j] = "added" /\ who'[j] = u /\ mine'[j] = nextNumber
      /\ number[u] = 0 /\ (\A k \in Jobs : who[k] # u) /\ UNCHANGED <<tables, at, now>>
      /\ SchoolFree
  BY DEF IncrementNumber, Goto, IInv, Types, LocalTypes, Places, Same
<1>2. Knows(j)'
  BY <1>1 DEF IInv, Types, Knows, Adds, Decided, Batches, Redeems, Found, Ended, Adding, Redeeming,
              tables
<1>3. Locks'
  BY <1>1 DEF IInv, Locks, Same, InSchool, InStudent, Adding, SchoolFree
<1>. QED
  BY <1>1, <1>2, <1>3, QuietStep

LEMMA DecideTrialInv == ASSUME IInv, NEW j \in Jobs, DecideTrial(j) PROVE IInv'
<1> DEFINE new == IF who[j] \in Students /\ settings.isActivated /\ settings.isTrialEnabled
                  THEN {IntakeTrial(who[j], now)} ELSE {}
<1>1. /\ pc[j] = "added" /\ pc' = [pc EXCEPT ![j] = "decided"] /\ trials' = [trials EXCEPT ![j] = new]
      /\ UNCHANGED <<tables, who, serial, at, mine, now>>
  BY DEF DecideTrial, Goto, IntakeTrial
<1>2. new \subseteq Periods
  BY IntakeFields DEF IInv, Types
<1> HIDE DEF new
<1>3. /\ LocalTypes' /\ \A k \in Jobs \ {j} : Same(k)
      /\ pc'[j] = "decided" /\ trials'[j] = new
  BY <1>1, <1>2 DEF IInv, Types, LocalTypes, Places, Same
<1>4. Decided(j)'
  <2>1. /\ new # {} => /\ who[j] \in Students /\ settings.isActivated
                       /\ now \in 0 .. now /\ new = {IntakeTrial(who[j], now)}
        /\ who[j] \in Students /\ settings.isActivated /\ offered => new # {}
    BY DEF new, IInv, Types, Tables, Offer
  <2>. QED
    BY <1>1, <1>3, <2>1 DEF Decided, tables, IntakeTrial
<1>5. Knows(j)'
  BY <1>1, <1>3, <1>4 DEF IInv, Knows, Adds, Batches, Redeems, Found, Ended, Adding, Redeeming,
                          tables
<1>6. Locks'
  BY <1>1, <1>3 DEF IInv, Locks, Same, InSchool, InStudent, Adding
<1>. QED
  BY <1>1, <1>3, <1>5, <1>6, QuietStep

\* The student is new: no period of the table and no other request is the student's.
LEMMA CommitUserInv == ASSUME IInv, NEW j \in Jobs, CommitUser(j) PROVE IInv'
<1> DEFINE u == who[j]
<1>1. /\ LocalTypes' /\ Locks' /\ Knows(j)' /\ (\A k \in Jobs \ {j} : Same(k))
      /\ pc[j] = "decided" /\ UNCHANGED now
  BY LeaveStep DEF CommitUser, Places
<1>2. /\ number' = [number EXCEPT ![u] = mine[j]]
      /\ nextNumber' = mine[j] + 1
      /\ periods' = periods \cup trials[j]
      /\ UNCHANGED <<settings, codeState, consumer, offered>>
  BY DEF CommitUser
<1>3. /\ u \in Users /\ number[u] = 0 /\ mine[j] \in Nat \ {0} /\ trials[j] \subseteq Periods
      /\ \A k \in Jobs \ {j} : who[k] # u /\ ~InSchool(k)
  BY <1>1 DEF IInv, Types, Knows, Adds, Locks, Adding, InSchool
<1>4. \A v \in Users : number'[v] = IF v = u THEN mine[j] ELSE number[v]
  BY <1>2, <1>3 DEF IInv, Types
<1>5. \A p \in periods : p \in Periods /\ p.student # u /\ p.student \in Users
  BY <1>3 DEF IInv, Types, Tables, SoundPeriods, Sound, Periods, Users
<1>6. \A p \in trials[j] : /\ trials[j] = {p} /\ p.student = u /\ p.type = "TRIAL" /\ p.code = NoOne
                           /\ p.ended = NoOne /\ p.start < p.expires
                           /\ settings.isActivated
  <2> SUFFICES ASSUME NEW p \in trials[j]
               PROVE  /\ trials[j] = {p} /\ p.student = u /\ p.type = "TRIAL" /\ p.code = NoOne
                      /\ p.ended = NoOne /\ p.start < p.expires
                      /\ settings.isActivated
    OBVIOUS
  <2>1. PICK t \in 0 .. now : trials[j] = {IntakeTrial(u, t)}
    BY <1>1 DEF IInv, Knows, Decided
  <2>2. u \in Students /\ settings.isActivated /\ t \in Nat
    BY <1>1 DEF IInv, Knows, Decided, Types
  <2>. QED
    BY <2>1, <2>2, IntakeFields
<1>7. u \in Students /\ settings.isActivated /\ offered => \E p \in trials[j] : p.student = u
  BY <1>1, <1>6 DEF IInv, Knows, Decided
<1> HIDE DEF u
<1>8. Types'
  BY <1>1, <1>2, <1>3 DEF IInv, Types, LocalTypes
<1>9. Tables'
  <2>1. SoundPeriods'
    BY <1>1, <1>2, <1>3, <1>4, <1>5, <1>6 DEF IInv, Tables, SoundPeriods, Sound
  <2>2. Codes' /\ BeforeEnabling'
    BY <1>2, <1>6 DEF IInv, Tables, Codes, BeforeEnabling
  <2>3. OneTrial'
    BY <1>2, <1>5, <1>6 DEF IInv, Tables, OneTrial
  <2>4. OneRunningPeriod'
    BY <1>1, <1>2, <1>5, <1>6 DEF IInv, Tables, OneRunningPeriod, Running
  <2>5. PaidDisjoint'
    BY <1>2, <1>6 DEF IInv, Tables, PaidDisjoint
  <2>6. CodeSpentOnce'
    <3>1. \A c \in Serials : {p \in periods' : p.code = c} = {p \in periods : p.code = c}
      BY <1>2, <1>6, SubscriptionAssumption
    <3>. QED
      BY <1>2, <3>1 DEF IInv, Tables, CodeSpentOnce
  <2>7. Offer'
    BY <1>2, <1>3, <1>4, <1>6, <1>7 DEF IInv, Tables, Offer, PeriodsOf, Users
  <2>. QED
    BY <2>1, <2>2, <2>3, <2>4, <2>5, <2>6, <2>7 DEF Tables
<1>10. ASSUME NEW k \in Jobs \ {j} PROVE Knows(k)'
  <2>1. Knows(k) /\ Same(k) /\ who[k] # u /\ pc[k] # "decided"
    BY <1>1, <1>3 DEF IInv, InSchool
  <2>2. \A type : OwnPeriods(k, type)' = OwnPeriods(k, type)
    BY <1>2, <1>6, <2>1 DEF OwnPeriods, Running, Same
  <2>3. who[k] \in Users => number'[who[k]] = number[who[k]]
    BY <1>4, <2>1
  <2>. QED
    BY <1>1, <1>2, <2>1, <2>2, <2>3
    DEF Knows, Adds, Decided, Batches, Redeems, Found, Ended, Same, Users
<1>. QED
  BY <1>1, <1>8, <1>9, <1>10 DEF IInv

-----------------------------------------------------------------------------
(* Ordering codes *)

LEMMA LockSettingsInv == ASSUME IInv, NEW j \in Jobs, LockSettings(j) PROVE IInv'
<1>1. /\ LocalTypes' /\ \A k \in Jobs \ {j} : Same(k)
      /\ pc[j] = "idle" /\ pc'[j] = "batching" /\ serial'[j] = settings.nextCodeSerial
      /\ settings.isActivated /\ SettingsFree /\ UNCHANGED <<tables, who, at, now>>
  BY DEF LockSettings, Goto, IInv, Types, LocalTypes, Places, Same, Settings
<1>2. Knows(j)'
  BY <1>1 DEF IInv, Knows, Adds, Decided, Batches, Redeems, Found, Ended, Adding, Redeeming, tables
<1>3. Locks'
  BY <1>1 DEF IInv, Locks, Same, InSchool, InStudent, Adding, SettingsFree
<1>. QED
  BY <1>1, <1>2, <1>3, QuietStep

\* The codes of a batch are new: their numbers have not been given out.
LEMMA CommitBatchInv == ASSUME IInv, NEW j \in Jobs, NEW n \in 1 .. MaxBatch, CommitBatch(j, n)
                        PROVE  IInv'
<1> DEFINE batch == serial[j] .. serial[j] + n - 1
<1>1. /\ LocalTypes' /\ Locks' /\ Knows(j)' /\ (\A k \in Jobs \ {j} : Same(k))
      /\ pc[j] = "batching" /\ UNCHANGED now
  BY LeaveStep DEF CommitBatch, Places
<1>2. /\ serial[j] = settings.nextCodeSerial /\ serial[j] \in Nat \ {0} /\ n \in Nat /\ n # 0
      /\ settings.isActivated
  BY <1>1, SubscriptionAssumption DEF IInv, Types, Settings, Knows, Batches
<1>3. /\ settings' \in Settings
      /\ settings'.isActivated = settings.isActivated
      /\ settings'.isTrialEnabled = settings.isTrialEnabled
      /\ settings'.nextCodeSerial = serial[j] + n
      /\ UNCHANGED <<periods, consumer, number, nextNumber, offered>>
  <2>1. /\ settings \in Settings /\ serial[j] + n \in Nat \ {0}
        /\ settings' = [settings EXCEPT !.nextCodeSerial = serial[j] + n]
        /\ UNCHANGED <<periods, consumer, number, nextNumber, offered>>
    BY <1>2 DEF CommitBatch, IInv, Types
  <2>. QED
    BY <2>1 DEF Settings
<1>4. /\ codeState' = [c \in Serials |-> IF c \in batch THEN "UNUSED" ELSE codeState[c]]
      /\ \A c \in batch : c \in Serials /\ codeState[c] = "ABSENT"
  BY <1>2, SubscriptionAssumption DEF CommitBatch, IInv, Types, Tables, Codes
<1>5. \A c \in Serials : c >= serial[j] + n => c >= serial[j] /\ c \notin batch
  BY <1>2, SubscriptionAssumption
<1> HIDE DEF batch
<1>6. Types'
  BY <1>1, <1>3, <1>4 DEF IInv, Types, LocalTypes
<1>7. Tables'
  <2>1. SoundPeriods' /\ OneTrial' /\ PaidDisjoint' /\ OneRunningPeriod'
    BY <1>1, <1>3 DEF IInv, Tables, SoundPeriods, Sound, OneTrial, PaidDisjoint, OneRunningPeriod,
                  Running
  <2>2. Codes' /\ BeforeEnabling'
    BY <1>2, <1>3, <1>4, <1>5 DEF IInv, Tables, Codes, BeforeEnabling
  <2>3. Offer'
    BY <1>3 DEF IInv, Tables, Offer, PeriodsOf
  <2>4. CodeSpentOnce'
    BY <1>3, <1>4 DEF IInv, Tables, CodeSpentOnce
  <2>. QED
    BY <2>1, <2>2, <2>3, <2>4 DEF Tables
<1>8. ASSUME NEW k \in Jobs \ {j} PROVE Knows(k)'
  <2>1. Knows(k) /\ Same(k) /\ pc[k] # "batching"
    BY <1>1 DEF IInv, Locks
  <2>2. serial[k] \in Serials /\ codeState[serial[k]] # "ABSENT" => codeState'[serial[k]] # "ABSENT"
    BY <1>4
  <2>3. \A type : OwnPeriods(k, type)' = OwnPeriods(k, type)
    BY <1>3, <2>1 DEF OwnPeriods, Running, Same
  <2>. QED
    BY <1>1, <1>3, <2>1, <2>2, <2>3
    DEF Knows, Adds, Decided, Batches, Redeems, Found, Ended, Same, Redeeming
<1>. QED
  BY <1>1, <1>6, <1>7, <1>8 DEF IInv

-----------------------------------------------------------------------------
(* Redeeming a code *)

LEMMA RequestCodeInv ==
    ASSUME IInv, NEW j \in Jobs, NEW s \in Students, NEW c \in Serials, RequestCode(j, s, c)
    PROVE  IInv'
<1>1. /\ LocalTypes' /\ \A k \in Jobs \ {j} : Same(k)
      /\ pc[j] = "idle" /\ pc'[j] = "activate" /\ who'[j] = s /\ serial'[j] = c /\ at'[j] = now
      /\ number[s] # 0 /\ UNCHANGED <<tables, now>>
  BY SubscriptionAssumption
  DEF RequestCode, Goto, IInv, Types, LocalTypes, Places, Same, Users
<1>2. Knows(j)'
  BY <1>1 DEF IInv, Types, Knows, Adds, Decided, Batches, Redeems, Found, Ended, Adding, Redeeming,
              tables
<1>3. Locks'
  BY <1>1 DEF IInv, Locks, Same, InSchool, InStudent, Adding, Knows, Adds
<1>. QED
  BY <1>1, <1>2, <1>3, QuietStep

LEMMA LockStudentInv == ASSUME IInv, NEW j \in Jobs, LockStudent(j) PROVE IInv'
<1>1. /\ LocalTypes' /\ \A k \in Jobs \ {j} : Same(k)
      /\ pc[j] = "activate" /\ pc'[j] = "inside" /\ StudentFree(who[j])
      /\ UNCHANGED <<tables, who, serial, at, now>>
  BY QuietGoto DEF LockStudent, Places
<1>2. Knows(j)'
  BY <1>1 DEF IInv, Knows, Adds, Decided, Batches, Redeems, Found, Ended, Adding, Redeeming, tables
<1>3. Locks'
  BY <1>1 DEF IInv, Locks, Same, InSchool, InStudent, Adding, StudentFree
<1>. QED
  BY <1>1, <1>2, <1>3, QuietStep

LEMMA RefuseCodeInv == ASSUME IInv, NEW j \in Jobs, RefuseCode(j) PROVE IInv'
  BY QuietLeave DEF RefuseCode, Places

LEMMA FindCodeInv == ASSUME IInv, NEW j \in Jobs, FindCode(j) PROVE IInv'
<1>1. /\ LocalTypes' /\ \A k \in Jobs \ {j} : Same(k)
      /\ pc[j] = "inside" /\ pc'[j] = "found"
      /\ UNCHANGED <<tables, who, serial, at, now>>
  BY QuietGoto DEF FindCode, Places
<1>2. /\ serial[j] \in Serials /\ codeState[serial[j]] = "UNUSED" /\ OwnPeriods(j, "PAID") = {}
      /\ settings.isActivated
  BY <1>1 DEF FindCode, IInv, Tables, BeforeEnabling, Knows, Redeems, Redeeming
<1>3. Knows(j)'
  BY <1>1, <1>2 DEF IInv, Knows, Adds, Decided, Batches, Redeems, Found, Ended, Adding, Redeeming,
                    OwnPeriods, Running, tables
<1>4. Locks'
  BY <1>1 DEF IInv, Locks, Same, InSchool, InStudent, Adding
<1>. QED
  BY <1>1, <1>3, <1>4, QuietStep

LEMMA SpendCodeInv == ASSUME IInv, NEW j \in Jobs, SpendCode(j) PROVE IInv'
<1>1. /\ LocalTypes' /\ \A k \in Jobs \ {j} : Same(k)
      /\ pc[j] = "found" /\ pc'[j] = "spent"
      /\ UNCHANGED <<tables, who, serial, at, now>>
  BY QuietGoto DEF SpendCode, Places
<1>2. Knows(j)'
  BY <1>1 DEF IInv, Knows, Adds, Decided, Batches, Redeems, Found, Ended, Adding, Redeeming,
              OwnPeriods, Running, tables
<1>3. Locks'
  BY <1>1 DEF IInv, Locks, Same, InSchool, InStudent, Adding
<1>. QED
  BY <1>1, <1>2, <1>3, QuietStep

LEMMA EndTrialsInv == ASSUME IInv, NEW j \in Jobs, EndTrials(j) PROVE IInv'
<1>1. OwnPeriods(j, "TRIAL") \subseteq Periods
  BY DEF OwnPeriods, IInv, Types
<1>2. /\ pc[j] = "spent" /\ pc' = [pc EXCEPT ![j] = "ended"]
      /\ trials' = [trials EXCEPT ![j] = OwnPeriods(j, "TRIAL")]
      /\ UNCHANGED <<tables, who, serial, at, mine, now>>
  BY DEF EndTrials, Goto
<1>3. /\ LocalTypes' /\ \A k \in Jobs \ {j} : Same(k)
      /\ pc'[j] = "ended" /\ trials'[j] = OwnPeriods(j, "TRIAL")
  BY <1>1, <1>2 DEF IInv, Types, LocalTypes, Places, Same
<1>4. \A type : OwnPeriods(j, type)' = OwnPeriods(j, type)
  BY <1>2 DEF tables, OwnPeriods, Running
<1>5. \A p \in OwnPeriods(j, "TRIAL") : p.start <= at[j]
  BY DEF EndTrials
<1>6. Knows(j)'
  BY <1>2, <1>3, <1>4, <1>5 DEF IInv, Knows, Adds, Decided, Batches, Redeems, Found, Ended, Adding,
                                Redeeming, tables
<1>7. Locks'
  BY <1>2, <1>3 DEF IInv, Locks, Same, InSchool, InStudent, Adding
<1>. QED
  BY <1>2, <1>3, <1>6, <1>7, QuietStep

\* What the student has afterwards: the periods that are not ended, those that are, and
\* the one that was bought.
LEMMA CommitActivationInv == ASSUME IInv, NEW j \in Jobs, CommitActivation(j) PROVE IInv'
<1> DEFINE s == who[j]
           c == serial[j]
           t == at[j]
           T == trials[j]
           cut(p) == [p EXCEPT !.ended = t]
           bought == Period(s, "PAID", t, Year, c, "code")
<1>1. /\ LocalTypes' /\ Locks' /\ Knows(j)' /\ (\A k \in Jobs \ {j} : Same(k))
      /\ pc[j] = "ended" /\ UNCHANGED now
  BY LeaveStep DEF CommitActivation, Places
<1>2. /\ codeState' = [codeState EXCEPT ![c] = "USED"]
      /\ consumer' = [consumer EXCEPT ![c] = s]
      /\ periods' = (periods \ T) \cup {cut(p) : p \in T} \cup {bought}
      /\ UNCHANGED <<settings, number, nextNumber, offered>>
      /\ \A p \in periods : p.code # c
  BY DEF CommitActivation, CodeIsFresh
<1>3. /\ s \in Students /\ number[s] # 0 /\ c \in Serials /\ t \in Nat /\ t <= now /\ now \in Nat
      /\ settings.isActivated /\ codeState[c] # "ABSENT"
      /\ s # NoOne /\ c # NoOne /\ t # NoOne
  BY <1>1, SubscriptionAssumption DEF IInv, Types, Knows, Redeems, Found, Redeeming
<1>4. /\ OwnPeriods(j, "PAID") = {} /\ T = OwnPeriods(j, "TRIAL")
      /\ \A p \in T : p.start <= t
  BY <1>1 DEF IInv, Knows, Found, Ended
<1>5. \A p \in periods : p \in Periods /\ Sound(p)
  BY DEF IInv, Types, Tables, SoundPeriods
<1>6. \A p \in T : /\ p \in periods /\ p.student = s /\ p.type = "TRIAL" /\ p.code = NoOne
                   /\ p.start <= t
  BY <1>4, <1>5 DEF OwnPeriods, Sound
<1>7. \A p \in T : /\ cut(p) \in Periods /\ cut(p).student = s /\ cut(p).type = "TRIAL"
                   /\ cut(p).code = NoOne /\ cut(p).ended = t
                   /\ cut(p).start = p.start /\ cut(p).expires = p.expires
  <2> SUFFICES ASSUME NEW p \in T
               PROVE  /\ cut(p) \in Periods /\ cut(p).student = s /\ cut(p).type = "TRIAL"
                      /\ cut(p).code = NoOne /\ cut(p).ended = t
                      /\ cut(p).start = p.start /\ cut(p).expires = p.expires
    OBVIOUS
  <2>1. p \in Periods /\ p.student = s /\ p.type = "TRIAL" /\ p.code = NoOne
    BY <1>5, <1>6
  <2>. QED
    BY <1>3, <2>1 DEF Periods
<1>8. /\ bought \in Periods /\ bought.student = s /\ bought.type = "PAID" /\ bought.start = t
      /\ bought.expires = t + Year /\ bought.ended = NoOne /\ bought.code = c
      /\ bought.start < bought.expires
  <2>1. Year \in Nat \ {0} /\ c \in Serials \cup {NoOne}
    BY <1>3, SubscriptionAssumption
  <2>. QED
    BY <1>3, <2>1 DEF Period, Periods
<1> HIDE DEF s, c, T, t, cut, bought
\* Whoever else had a running period of the student would have been found.
<1>9. ASSUME NEW p \in periods, p \notin T, p.student = s
      PROVE  /\ ~Running(p, t) /\ ~Running(p, now)
             /\ p.type = "PAID" => p.expires <= t
  <2>1. ~Running(p, t)
    BY <1>4, <1>5, <1>9 DEF OwnPeriods, Periods, s, t
  <2>2. p.expires \in Nat /\ (p.type = "PAID" => p.ended = NoOne)
    BY <1>5 DEF Periods, Sound
  <2>. QED
    BY <1>3, <2>1, <2>2 DEF Running
<1>10. /\ \A p \in periods' : \/ p \in periods /\ p \notin T
                              \/ \E q \in T : p = cut(q)
                              \/ p = bought
       /\ \A p \in periods : p \notin T => p \in periods'
       /\ \A q \in T : cut(q) \in periods'
       /\ bought \in periods'
  BY <1>2
<1>11. Types'
  <2>1. periods' \subseteq Periods
    BY <1>5, <1>7, <1>8, <1>10
  <2>2. codeState' \in [Serials -> {"ABSENT", "UNUSED", "USED"}]
        /\ consumer' \in [Serials -> Students \cup {NoOne}]
    BY <1>2, <1>3 DEF IInv, Types
  <2>. QED
    BY <1>1, <1>2, <2>1, <2>2 DEF IInv, Types, LocalTypes
<1>12. Tables'
  <2>1. SoundPeriods'
    <3> SUFFICES ASSUME NEW p \in periods' PROVE Sound(p)'
      BY DEF SoundPeriods
    <3>1. CASE p \in periods
      BY <1>1, <1>2, <1>5, <3>1 DEF Sound
    <3>2. ASSUME NEW q \in T, p = cut(q) PROVE Sound(p)'
      BY <1>1, <1>2, <1>3, <1>5, <1>6, <1>7, <3>2 DEF Sound
    <3>3. CASE p = bought
      BY <1>1, <1>2, <1>3, <1>8, <3>3 DEF Sound
    <3>. QED
      BY <1>10, <3>1, <3>2, <3>3
  <2>2. Codes'
    BY <1>2, <1>3 DEF IInv, Types, Tables, Codes
  <2>3. BeforeEnabling'
    BY <1>2, <1>3 DEF BeforeEnabling
  <2>4. OneTrial'
    BY <1>6, <1>7, <1>8, <1>10 DEF IInv, Tables, OneTrial
  <2>5. Offer'
    <3>1. \A v \in Students : (\E p \in periods : p.student = v /\ p.type = "TRIAL") =>
                              \E p \in periods' : p.student = v /\ p.type = "TRIAL"
      BY <1>6, <1>7, <1>10
    <3>. QED
      BY <1>2, <3>1 DEF IInv, Tables, Offer, PeriodsOf
  <2>6. PaidDisjoint'
    <3> SUFFICES ASSUME NEW p \in periods', NEW q \in periods', p # q, p.student = q.student,
                        p.type = "PAID", q.type = "PAID"
                 PROVE  p.expires <= q.start \/ q.expires <= p.start
      BY DEF PaidDisjoint
    <3>1. \A r \in {p, q} : (r \in periods /\ r \notin T) \/ r = bought
      BY <1>7, <1>10
    <3>2. CASE p \in periods /\ q \in periods
      BY <3>2 DEF IInv, Tables, PaidDisjoint
    <3>. QED
      BY <1>8, <1>9, <3>1, <3>2
  <2>7. OneRunningPeriod'
    <3> SUFFICES ASSUME NEW p \in periods', NEW q \in periods', p.student = q.student,
                        Running(p, now), Running(q, now)
                 PROVE  p = q
      BY <1>1 DEF OneRunningPeriod, Running
    <3>1. \A r \in {p, q} : (r \in periods /\ r \notin T) \/ r = bought
      BY <1>3, <1>7, <1>10 DEF Running
    <3>2. CASE p \in periods /\ q \in periods
      BY <3>2 DEF IInv, Tables, OneRunningPeriod
    <3>. QED
      BY <1>8, <1>9, <3>1, <3>2
  <2>8. CodeSpentOnce'
    <3> SUFFICES ASSUME NEW d \in Serials
                 PROVE  LET b == {p \in periods' : p.code = d} IN
                        IF codeState'[d] = "USED"
                        THEN \E p \in b : b = {p} /\ p.student = consumer'[d] /\ p.type = "PAID"
                        ELSE b = {}
      BY DEF CodeSpentOnce
    <3>1. CASE d = c
      <4>1. {p \in periods' : p.code = d} = {bought}
        BY <1>2, <1>3, <1>7, <1>8, <1>10, <3>1
      <4>2. codeState'[d] = "USED" /\ consumer'[d] = s
        BY <1>2, <1>3, <3>1 DEF IInv, Types
      <4>. QED
        BY <1>8, <4>1, <4>2
    <3>2. CASE d # c
      <4>1. {p \in periods' : p.code = d} = {p \in periods : p.code = d}
        BY <1>6, <1>7, <1>8, <1>10, <3>2, SubscriptionAssumption
      <4>2. codeState'[d] = codeState[d] /\ consumer'[d] = consumer[d]
        BY <1>2, <3>2 DEF IInv, Types
      <4>. QED
        BY <4>1, <4>2 DEF IInv, Tables, CodeSpentOnce
    <3>. QED
      BY <3>1, <3>2
  <2>. QED
    BY <2>1, <2>2, <2>3, <2>4, <2>5, <2>6, <2>7, <2>8 DEF Tables
<1>13. ASSUME NEW k \in Jobs \ {j} PROVE Knows(k)'
  <2>1. Knows(k) /\ Same(k)
    BY <1>1 DEF IInv
  <2>2. pc[k] \in {"found", "spent", "ended"} => who[k] # s
    BY <1>1 DEF IInv, Locks, InStudent, s
  <2>3. \A type : who[k] # s => OwnPeriods(k, type)' = OwnPeriods(k, type)
    BY <1>6, <1>7, <1>8, <1>10, <2>1 DEF OwnPeriods, Running, Same
  <2>4. serial[k] \in Serials /\ codeState[serial[k]] # "ABSENT" => codeState'[serial[k]] # "ABSENT"
    BY <1>2, <1>3 DEF IInv, Types
  <2>. QED
    BY <1>1, <1>2, <2>1, <2>2, <2>3, <2>4
    DEF Knows, Adds, Decided, Batches, Redeems, Found, Ended, Same, Redeeming
<1>. QED
  BY <1>1, <1>11, <1>12, <1>13 DEF IInv

-----------------------------------------------------------------------------
(* Any step *)

LEMMA AbortInv == ASSUME IInv, NEW j \in Jobs, Abort(j) PROVE IInv'
  BY QuietLeave DEF Abort, Places

\* What runs later runs now.
LEMMA TickInv == ASSUME IInv, Tick PROVE IInv'
<1>1. /\ now \in Nat /\ now' = now + 1 /\ UNCHANGED <<pc, who, serial, at, mine, trials>>
      /\ UNCHANGED <<settings, periods, codeState, consumer, number, nextNumber, offered>>
  BY DEF Tick, tables, locals, IInv, Types
<1>2. Types'
  BY <1>1 DEF IInv, Types
<1>3. \A p \in periods : p.expires \in Nat /\ (p.ended # NoOne => p.ended \in Nat)
  BY DEF IInv, Types, Periods
<1>4. Tables'
  <2>1. SoundPeriods'
    BY <1>1, <1>3 DEF IInv, Tables, SoundPeriods, Sound
  <2>2. OneRunningPeriod'
    BY <1>1, <1>3 DEF IInv, Tables, OneRunningPeriod, Running
  <2>3. Codes' /\ BeforeEnabling' /\ OneTrial' /\ CodeSpentOnce' /\ PaidDisjoint'
    BY <1>1 DEF IInv, Tables, Codes, BeforeEnabling, OneTrial, CodeSpentOnce, PaidDisjoint
  <2>4. Offer'
    BY <1>1 DEF IInv, Tables, Offer, PeriodsOf
  <2>. QED
    BY <2>1, <2>2, <2>3, <2>4 DEF Tables
<1>5. ASSUME NEW k \in Jobs PROVE Knows(k)'
  <2>1. Knows(k) /\ at[k] \in Nat
    BY DEF IInv, Types
  <2>2. at'[k] <= now'
    BY <1>1, <2>1 DEF Knows
  <2>3. 0 .. now \subseteq 0 .. now'
    BY <1>1
  <2>4. Decided(k)'
    BY <1>1, <2>1, <2>3 DEF Knows, Decided
  <2>. QED
    BY <1>1, <2>1, <2>2, <2>4
    DEF Knows, Adds, Batches, Redeems, Found, Ended, OwnPeriods, Running
<1>6. Locks'
  BY <1>1 DEF IInv, Locks, InSchool, InStudent
<1>. QED
  BY <1>2, <1>4, <1>5, <1>6 DEF IInv

LEMMA NextInv == IInv /\ [Next]_vars => IInv'
<1> SUFFICES ASSUME IInv, [Next]_vars PROVE IInv'
  OBVIOUS
<1>1. CASE UNCHANGED vars
  <2>1. LocalTypes' /\ (\A k \in Jobs : Same(k)) /\ UNCHANGED <<tables, now>>
    BY <1>1 DEF vars, locals, IInv, Types, LocalTypes, Same
  <2>2. Types' /\ Locks'
    BY <1>1 DEF vars, tables, locals, IInv, Types, Locks, InSchool, InStudent
  <2>. QED
    BY <2>1, <2>2, SameTables, SameKnows DEF IInv
<1>2. ASSUME NEW j \in Jobs, Enable(j) PROVE IInv'
  BY <1>2, RequestEnableInv, LockSchoolInv, RefuseEnableInv, CommitEnableInv DEF Enable
<1>3. ASSUME NEW j \in Jobs, AddUser(j) PROVE IInv'
  BY <1>3, ReadNumberInv, IncrementNumberInv, WriteNumberInv, DecideTrialInv, CommitUserInv
  DEF AddUser
<1>4. ASSUME NEW j \in Jobs, OrderCodes(j) PROVE IInv'
  BY <1>4, LockSettingsInv, CommitBatchInv DEF OrderCodes
<1>5. ASSUME NEW j \in Jobs, Redeem(j) PROVE IInv'
  BY <1>5, RequestCodeInv, LockStudentInv, RefuseCodeInv, FindCodeInv, SpendCodeInv, EndTrialsInv,
     CommitActivationInv DEF Redeem
<1>. QED
  BY <1>1, <1>2, <1>3, <1>4, <1>5, AbortInv, UpdateSettingsInv, TickInv DEF Next

THEOREM Invariance == Spec => []IInv
<1>. QED
  BY InitInv, NextInv, PTL DEF Spec

-----------------------------------------------------------------------------
(* The properties *)

\* The variables have their types, and the CHECKs of the tables are never violated.
THEOREM SubscriptionTypes == Spec => []TypeOK
<1>1. IInv => TypeOK
  BY DEF IInv, Types, Settings, Tables, SoundPeriods, Sound, Codes, TypeOK
<1>. QED
  BY <1>1, Invariance, PTL

\* A code is worth one paid period, of the student recorded as its consumer
\* (activation-code.service.ts, activateCode).
THEOREM CodeTheorem == Spec => []CodeSpentOnce
<1>1. IInv => CodeSpentOnce
  BY DEF IInv, Tables
<1>. QED
  BY <1>1, Invariance, PTL

\* The paid periods of one student do not overlap: no day is paid for twice.
THEOREM PaidTheorem == Spec => []PaidDisjoint
<1>1. IInv => PaidDisjoint
  BY DEF IInv, Tables
<1>. QED
  BY <1>1, Invariance, PTL

\* A student has one running period at most: buying ends the trial.
THEOREM RunningTheorem == Spec => []OneRunningPeriod
<1>1. IInv => OneRunningPeriod
  BY DEF IInv, Tables
<1>. QED
  BY <1>1, Invariance, PTL

\* Nobody gets two trials; while they are offered every student has one.
THEOREM TrialTheorem == Spec => []TrialForEveryStudent
<1>1. IInv => TrialForEveryStudent
  BY DEF IInv, Tables, OneTrial, Offer, TrialForEveryStudent
<1>. QED
  BY <1>1, Invariance, PTL

\* The status a student is shown and the guard of the lessons agree: as one period runs
\* at most, the one that is shown is the one that lets in, if there is one.
THEOREM StatusTheorem == Spec => []StatusTellsAccess
<1>1. IInv => StatusTellsAccess
  <2> SUFFICES ASSUME IInv, settings.isActivated, NEW s \in Students
               PROVE  /\ GuardLetsIn(s) => Reference(s) # {}
                      /\ \A p \in Reference(s) : GuardLetsIn(s) <=> EffectiveEnd(p) > now
    BY DEF StatusTellsAccess
  <2>1. \A p \in PeriodsOf(s) : /\ p \in periods /\ p \in Periods /\ Sound(p)
                                /\ EffectiveEnd(p) \in Nat
                                /\ Running(p, now) <=> EffectiveEnd(p) > now
    BY SubscriptionAssumption
    DEF IInv, Types, Tables, SoundPeriods, Sound, PeriodsOf, Periods, EffectiveEnd, Running
  <2>2. \A p, q \in PeriodsOf(s) : Running(p, now) /\ Running(q, now) => p = q
    BY DEF IInv, Tables, OneRunningPeriod, PeriodsOf
  <2>3. ASSUME NEW p \in PeriodsOf(s), Running(p, now)
        PROVE  Reference(s) = {p}
    <3>1. \A type : RunningOf(s, type) = IF p.type = type THEN {p} ELSE {}
      BY <2>2, <2>3 DEF RunningOf
    <3>2. p.type \in {"PAID", "TRIAL"}
      BY <2>1 DEF Periods
    <3>3. LatestOf({p}) = {p}
      BY <2>1 DEF LatestOf
    <3>. QED
      BY <3>1, <3>2, <3>3 DEF Reference
  <2>4. CASE GuardLetsIn(s)
    BY <2>1, <2>3, <2>4 DEF GuardLetsIn
  <2>5. CASE ~GuardLetsIn(s)
    <3>1. \A p \in PeriodsOf(s) : ~Running(p, now)
      BY <2>5 DEF GuardLetsIn
    <3>2. Reference(s) \subseteq PeriodsOf(s)
      BY DEF Reference, LatestOf, RunningOf
    <3>. QED
      BY <2>1, <2>5, <3>1, <3>2
  <2>. QED
    BY <2>4, <2>5
<1>. QED
  BY <1>1, Invariance, PTL

\* No step takes a purchase back: a code that is redeemed keeps its consumer, and a period
\* that is paid for stays as it is.
THEOREM PurchaseTheorem == Spec => PurchasesStand
<1> DEFINE Stands == /\ \A c \in Serials : codeState[c] = "USED" =>
                          codeState'[c] = "USED" /\ consumer'[c] = consumer[c]
                     /\ \A p \in periods : p.type = "PAID" => p \in periods'
<1>1. IInv /\ [Next]_vars => Stands
  <2> SUFFICES ASSUME IInv, [Next]_vars PROVE Stands
    OBVIOUS
  <2>1. CASE UNCHANGED <<periods, codeState, consumer>>
    BY <2>1
  <2>2. ASSUME NEW j \in Jobs, NEW trial \in BOOLEAN, CommitEnable(j, trial) PROVE Stands
    BY <2>2 DEF CommitEnable
  <2>3. ASSUME NEW j \in Jobs, CommitUser(j) PROVE Stands
    BY <2>3 DEF CommitUser
  <2>4. ASSUME NEW j \in Jobs, NEW n \in 1 .. MaxBatch, CommitBatch(j, n) PROVE Stands
    <3>1. /\ UNCHANGED <<periods, consumer>>
          /\ codeState' = [c \in Serials |-> IF c \in serial[j] .. serial[j] + n - 1
                                             THEN "UNUSED" ELSE codeState[c]]
          /\ serial[j] = settings.nextCodeSerial
      BY <2>4 DEF CommitBatch, Leave, Goto, IInv, Knows, Batches
    <3>2. \A c \in Serials : codeState[c] = "USED" => c \notin serial[j] .. serial[j] + n - 1
      BY <3>1, SubscriptionAssumption DEF IInv, Tables, Codes
    <3>. QED
      BY <3>1, <3>2
  <2>5. ASSUME NEW j \in Jobs, CommitActivation(j) PROVE Stands
    <3>1. pc[j] = "ended" /\ serial[j] \in Serials
      BY <2>5 DEF CommitActivation, Leave, Goto, IInv, Knows, Redeems, Redeeming
    <3>2. \A p \in trials[j] : p.type = "TRIAL"
      BY <3>1 DEF IInv, Knows, Ended, OwnPeriods
    <3>3. codeState[serial[j]] # "USED"
      BY <2>5, <3>1 DEF CommitActivation, CodeIsFresh, IInv, Tables, CodeSpentOnce
    <3>. QED
      BY <2>5, <3>2, <3>3 DEF CommitActivation, IInv, Types
  <2>6. CASE Tick \/ UNCHANGED vars \/ \E trial \in BOOLEAN : UpdateSettings(trial)
    BY <2>6 DEF Tick, UpdateSettings, vars, tables
  <2>7. CASE \E j \in Jobs : Abort(j)
    BY <2>7 DEF Abort, tables
  <2>8. ASSUME NEW j \in Jobs, Enable(j) \/ AddUser(j) \/ OrderCodes(j) \/ Redeem(j)
        PROVE  \/ UNCHANGED tables
               \/ \E trial \in BOOLEAN : CommitEnable(j, trial)
               \/ CommitUser(j)
               \/ \E n \in 1 .. MaxBatch : CommitBatch(j, n)
               \/ CommitActivation(j)
    BY <2>8 DEF Enable, AddUser, OrderCodes, Redeem, RequestEnable, LockSchool, RefuseEnable,
       ReadNumber, WriteNumber, IncrementNumber, DecideTrial, LockSettings, RequestCode,
       LockStudent, RefuseCode, FindCode, SpendCode, EndTrials
  <2>. QED
    BY <2>1, <2>2, <2>3, <2>4, <2>5, <2>6, <2>7, <2>8 DEF Next, tables
<1>. QED
  BY <1>1, Invariance, PTL DEF Spec, PurchasesStand
=============================================================================
