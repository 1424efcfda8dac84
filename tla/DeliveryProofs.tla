---------------------------- MODULE DeliveryProofs ----------------------------
(***************************************************************************)
(* A lesson that says READY is untouched: proved for any number of         *)
(* requests, sections, lesson hours and lessons.  What a request checked   *)
(* may be old when it writes; the status is right because every write of   *)
(* the targets either derives it from them or makes them anew.             *)
(***************************************************************************)
EXTENDS LessonDelivery, WellFoundedInduction, TLAPS

Target == [sched : Nat, pub : BOOLEAN, slots : SUBSET Days]
Targets == [Sections -> Target \cup {NoTarget}]
Lesson == [status : {"READY", "SCHEDULED", "PUBLISHED"}, link : Links, live : BOOLEAN,
           targets : Targets]
Place == [pc : {"idle", "draft", "delete", "target", "open", "schedule", "cancel"}, lesson : Nat]

Types == /\ template \in {"DRAFT", "READY", "GONE"}
         /\ lessons \in Seq(Lesson)
         /\ cancelled \subseteq Sections \X Days
         /\ due \subseteq (DOMAIN lessons) \X Sections
         /\ at \in [DJobs -> Place]
         /\ day \in Nat

\* What the cron is to publish is still a target.
DueStands == \A l \in DOMAIN lessons, s \in Sections :
                 <<l, s>> \in due => lessons[l].targets[s] \in Target

\* What a request has checked is a lesson, or none yet.
Checks(j) == /\ at[j].pc \in {"open", "schedule", "cancel"} => at[j].lesson \in DOMAIN lessons
             /\ at[j].pc = "target" => at[j].lesson \in {0} \cup DOMAIN lessons

Untouched(l) == lessons[l].status = "READY" => \A t \in Targeted(l) : ~t.pub /\ ~Waiting(t)

IInv == /\ Types /\ DueStands
        /\ \A j \in DJobs : Checks(j)
        /\ \A l \in DOMAIN lessons : Untouched(l)

LEMMA InitInv == DeliveryInit => IInv
  BY DEF DeliveryInit, IInv, Types, DueStands, Checks, Untouched, Idle, Place

-----------------------------------------------------------------------------
(* The operators *)

\* A set of naturals has a least element.
LEMMA Least == ASSUME NEW S \in SUBSET Nat, S # {}
               PROVE  \E x \in S : \A y \in S : x <= y
<1>1. PICK x \in S : \A y \in S : ~(<<y, x>> \in OpToRel(<, Nat))
  BY WFMin, NatLessThanWellFounded
<1>2. \A y \in S : ~(y < x)
  BY <1>1 DEF OpToRel
<1>. QED
  BY <1>2

LEMMA StatusIsDerived ==
    ASSUME NEW ts
    PROVE  /\ StatusOf(ts) \in {"READY", "SCHEDULED", "PUBLISHED"}
           /\ StatusOf(ts) = "READY" => \A t \in TargetsOf(ts) : ~t.pub /\ ~Waiting(t)
  BY DEF StatusOf

LEMMA IsASeq == ASSUME NEW S, NEW n \in Nat, NEW f \in [1 .. n -> S] PROVE f \in Seq(S) /\ DOMAIN f = 1 .. n
  OBVIOUS

LEMMA DaysAreNat == Days \subseteq Nat
<1>1. LastDay \in Nat /\ Days \subseteq 1 .. LastDay
  BY DeliveryAssumption
<1>. QED
  BY <1>1

LEMMA EarliestIsNat == ASSUME NEW t \in Target PROVE Earliest(t) \in Nat
<1>1. t.slots \subseteq Nat
  BY DaysAreNat DEF Target
<1>2. CASE t.slots = {}
  BY <1>2 DEF Earliest
<1>3. CASE t.slots # {}
  <2>1. \E d \in t.slots : \A e \in t.slots : d <= e
    BY <1>1, <1>3, Least
  <2>. QED
    BY <1>1, <1>3, <2>1 DEF Earliest
<1>. QED
  BY <1>2, <1>3

LEMMA NextHourIsNat ==
    ASSUME NEW t \in Target, NEW s \in Sections, day \in Nat
    PROVE  NextHour(t, s) \in Nat
<1> DEFINE left == {d + 1 : d \in {e \in t.slots : <<s, e>> \notin cancelled'}}
           future == {d \in left : d > day}
<1>1. t.slots \subseteq Nat
  BY DaysAreNat DEF Target
<1>2. future \subseteq Nat
  <2> SUFFICES ASSUME NEW x \in left PROVE x \in Nat
    OBVIOUS
  <2>1. PICK d \in t.slots : x = d + 1
    OBVIOUS
  <2>. QED
    BY <1>1, <2>1
<1>3. NextHour(t, s) = IF future = {} THEN 0 ELSE CHOOSE d \in future : \A e \in future : d <= e
  BY DEF NextHour
<1> HIDE DEF future
<1>4. CASE future = {}
  BY <1>3, <1>4
<1>5. CASE future # {}
  <2>1. \E d \in future : \A e \in future : d <= e
    BY <1>2, <1>5, Least
  <2>. QED
    BY <1>2, <1>3, <1>5, <2>1
<1>. QED
  BY <1>4, <1>5

LEMMA TargetWrites ==
    ASSUME NEW t \in Target, day \in Nat
    PROVE  PublishTarget(t) \in Target /\ ScheduleTarget(t) \in Target /\ Unscheduled(t) \in Target
  BY EarliestIsNat DEF Target, PublishTarget, ScheduleTarget, Unscheduled

\* To write every target of a lesson keeps them targets.
LEMMA OnTargetsType ==
    ASSUME Types, NEW l \in DOMAIN lessons, NEW new \in [Targeted(l) -> Target]
    PROVE  /\ OnTargets(l, new) \in Targets
           /\ \A s \in Sections : lessons[l].targets[s] \in Target => OnTargets(l, new)[s] \in Target
<1>1. lessons[l] \in Lesson
  BY DEF Types
<1>2. lessons[l].targets \in Targets
  BY <1>1 DEF Lesson
<1>3. \A s \in Sections : lessons[l].targets[s] # NoTarget =>
          lessons[l].targets[s] \in Targeted(l) /\ new[lessons[l].targets[s]] \in Target
  BY <1>2 DEF Targeted, TargetsOf, Targets
<1>. QED
  BY <1>2, <1>3 DEF OnTargets, Targets

LEMMA TargetedType == ASSUME Types, NEW l \in DOMAIN lessons PROVE Targeted(l) \subseteq Target
<1>1. lessons[l] \in Lesson
  BY DEF Types
<1>. QED
  BY <1>1 DEF Lesson, Targets, Targeted, TargetsOf

-----------------------------------------------------------------------------
(* What the steps have in common *)

\* One lesson has its targets written and its status derived from them.
LEMMA RetargetStep ==
    ASSUME IInv, NEW l \in DOMAIN lessons, NEW ts \in Targets, Retarget(l, ts),
           \A s \in Sections : lessons[l].targets[s] \in Target => ts[s] \in Target
    PROVE  /\ lessons' \in Seq(Lesson) /\ DOMAIN lessons' = DOMAIN lessons
           /\ \A k \in DOMAIN lessons, s \in Sections :
                 lessons[k].targets[s] \in Target => lessons'[k].targets[s] \in Target
           /\ \A k \in DOMAIN lessons : Untouched(k)'
<1> DEFINE new == [lessons[l] EXCEPT !.targets = ts, !.status = StatusOf(ts)]
<1>1. lessons[l] \in Lesson /\ lessons \in Seq(Lesson)
  BY DEF IInv, Types
<1>2. new \in Lesson /\ new.targets = ts /\ new.status = StatusOf(ts)
  BY <1>1, StatusIsDerived DEF Lesson
<1>3. lessons' = [lessons EXCEPT ![l] = new]
  BY <1>1 DEF Retarget, Lesson
<1> HIDE DEF new
<1>4. /\ lessons' \in Seq(Lesson) /\ DOMAIN lessons' = DOMAIN lessons
      /\ \A k \in DOMAIN lessons : lessons'[k] = IF k = l THEN new ELSE lessons[k]
  BY <1>1, <1>2, <1>3
<1>5. \A k \in DOMAIN lessons : Untouched(k)'
  <2> SUFFICES ASSUME NEW k \in DOMAIN lessons PROVE Untouched(k)'
    OBVIOUS
  <2>1. CASE k = l
    BY <1>2, <1>4, <2>1, StatusIsDerived DEF Untouched, Targeted
  <2>2. CASE k # l
    BY <1>4, <2>2 DEF IInv, Untouched, Targeted
  <2>. QED
    BY <2>1, <2>2
<1>. QED
  BY <1>2, <1>4, <1>5

\* A job goes on; what it and the cron hold stays what it is.
LEMMA Conclude ==
    ASSUME IInv, lessons' \in Seq(Lesson), DOMAIN lessons \subseteq DOMAIN lessons',
           template' \in {"DRAFT", "READY", "GONE"}, cancelled' \subseteq Sections \X Days,
           day' \in Nat, due' \subseteq due,
           \A l \in DOMAIN lessons, s \in Sections :
              <<l, s>> \in due' /\ lessons[l].targets[s] \in Target
                 => lessons'[l].targets[s] \in Target,
           \A l \in DOMAIN lessons' : Untouched(l)',
           at' = at \/ \E j \in DJobs : at' = [at EXCEPT ![j] = Idle]
    PROVE  IInv'
<1>1. at' \in [DJobs -> Place] /\ \A k \in DJobs : at'[k] = at[k] \/ at'[k] = Idle
  <2>1. at \in [DJobs -> Place] /\ Idle \in Place
    BY DEF IInv, Types, Place, Idle
  <2>2. CASE at' = at
    BY <2>1, <2>2
  <2>3. ASSUME NEW j \in DJobs, at' = [at EXCEPT ![j] = Idle]
        PROVE  at' \in [DJobs -> Place] /\ \A k \in DJobs : at'[k] = at[k] \/ at'[k] = Idle
    BY <2>1, <2>3
  <2>. QED
    BY <2>2, <2>3
<1>2. due' \subseteq (DOMAIN lessons') \X Sections
  BY DEF IInv, Types
<1>3. Types'
  BY <1>1, <1>2 DEF IInv, Types
<1>4. DueStands'
  <2> SUFFICES ASSUME NEW l \in DOMAIN lessons', NEW s \in Sections, <<l, s>> \in due'
               PROVE  lessons'[l].targets[s] \in Target
    BY DEF DueStands
  <2>1. l \in DOMAIN lessons
    BY DEF IInv, Types
  <2>. QED
    BY <2>1 DEF IInv, DueStands
<1>5. \A k \in DJobs : Checks(k)'
  BY <1>1 DEF IInv, Checks, Idle
<1>. QED
  BY <1>3, <1>4, <1>5 DEF IInv

\* A request has checked, and writes later.
LEMMA CheckedStep ==
    ASSUME IInv, NEW j \in DJobs, NEW pc, NEW l, Checked(j, pc, l),
           [pc |-> pc, lesson |-> l] \in Place,
           pc \in {"open", "schedule", "cancel"} => l \in DOMAIN lessons,
           pc = "target" => l \in {0} \cup DOMAIN lessons
    PROVE  IInv'
<1>1. at' = [at EXCEPT ![j] = [pc |-> pc, lesson |-> l]]
      /\ UNCHANGED <<template, lessons, cancelled, due, day>>
  BY DEF Checked
<1>2. \A k \in DJobs : at'[k] = IF k = j THEN [pc |-> pc, lesson |-> l] ELSE at[k]
  BY <1>1 DEF IInv, Types
<1>3. Types'
  BY <1>1 DEF IInv, Types
<1>4. \A k \in DJobs : Checks(k)'
  BY <1>1, <1>2 DEF IInv, Checks
<1>. QED
  BY <1>1, <1>3, <1>4 DEF IInv, DueStands, Untouched, Targeted

LEMMA CheckInv == ASSUME IInv, NEW j \in DJobs, Check(j) PROVE IInv'
<1>1. \A l \in Live : l \in Nat /\ l \in DOMAIN lessons
  BY DEF Live, IInv, Types
<1>2. CASE CheckDraft(j)
  BY <1>2, CheckedStep DEF CheckDraft, Place
<1>3. CASE CheckDelete(j)
  BY <1>3, CheckedStep DEF CheckDelete, Place
<1>4. CASE CheckTargeting(j)
  BY <1>1, <1>4, CheckedStep DEF CheckTargeting, Place
<1>5. CASE CheckPublish(j)
  BY <1>1, <1>5, CheckedStep DEF CheckPublish, Place
<1>6. CASE CheckCancel(j)
  BY <1>1, <1>6, CheckedStep DEF CheckCancel, Place
<1>. QED
  BY <1>2, <1>3, <1>4, <1>5, <1>6 DEF Check

-----------------------------------------------------------------------------
(* What the requests write *)

LEMMA DropStep ==
    ASSUME IInv, DropLessons
    PROVE  /\ lessons' \in Seq(Lesson) /\ DOMAIN lessons' = DOMAIN lessons
           /\ \A l \in DOMAIN lessons : lessons'[l].targets = lessons[l].targets
           /\ \A l \in DOMAIN lessons' : Untouched(l)'
<1>1. \A l \in DOMAIN lessons : lessons[l] \in Lesson
  BY DEF IInv, Types
<1>2. \A l \in DOMAIN lessons : /\ [lessons[l] EXCEPT !.live = FALSE] \in Lesson
                                /\ [lessons[l] EXCEPT !.live = FALSE].targets = lessons[l].targets
                                /\ [lessons[l] EXCEPT !.live = FALSE].status = lessons[l].status
  BY <1>1 DEF Lesson
<1>3. lessons' \in Seq(Lesson) /\ DOMAIN lessons' = DOMAIN lessons
  BY <1>2 DEF DropLessons, IInv, Types
<1>4. \A l \in DOMAIN lessons : /\ lessons'[l].targets = lessons[l].targets
                                /\ lessons'[l].status = lessons[l].status
  BY <1>2 DEF DropLessons
<1>. QED
  BY <1>3, <1>4 DEF IInv, Untouched, Targeted

LEMMA BackToDraftInv == ASSUME IInv, NEW j \in DJobs, BackToDraft(j) \/ DeleteTemplate(j) PROVE IInv'
<1>1. /\ DropLessons /\ at' = [at EXCEPT ![j] = Idle]
      /\ template' \in {"DRAFT", "READY", "GONE"}
      /\ UNCHANGED <<cancelled, due, day>>
  BY DEF BackToDraft, DeleteTemplate, Written
<1>. QED
  BY <1>1, DropStep, Conclude DEF IInv, Types

LEMMA NewTargetsType ==
    ASSUME NEW secs \in SUBSET Sections, NEW wanted \in SUBSET Days
    PROVE  /\ NewTargets(secs, wanted) \in Targets
           /\ \A t \in TargetsOf(NewTargets(secs, wanted)) : ~t.pub /\ ~Waiting(t)
  BY DEF NewTargets, Targets, Target, TargetsOf, Waiting

\* The targets are made anew: whatever the status says, none is published or waits.
LEMMA SaveTargetingInv == ASSUME IInv, NEW j \in DJobs, SaveTargeting(j) PROVE IInv'
<1> DEFINE l == at[j].lesson
<1>1. PICK secs \in SUBSET Sections, link \in Links, wanted \in SUBSET Days :
        LET ts == NewTargets(secs, IF link = "SLOT_COVERAGE" THEN wanted ELSE {})
        IN  /\ Written(j, "target")
            /\ IF l = 0
               THEN /\ lessons' = Append(lessons, [status |-> "READY", link |-> link,
                                                   live |-> TRUE, targets |-> ts])
                    /\ UNCHANGED due
               ELSE /\ lessons' = [lessons EXCEPT ![l].targets = ts]
                    /\ due' = {p \in due : p[1] # l}
            /\ UNCHANGED <<template, cancelled>>
  BY DEF SaveTargeting
<1> DEFINE ts == NewTargets(secs, IF link = "SLOT_COVERAGE" THEN wanted ELSE {})
           made == [status |-> "READY", link |-> link, live |-> TRUE, targets |-> ts]
<1>2. ts \in Targets /\ \A t \in TargetsOf(ts) : ~t.pub /\ ~Waiting(t)
  BY NewTargetsType
<1>3. /\ at' = [at EXCEPT ![j] = Idle] /\ UNCHANGED <<template, cancelled, day>>
      /\ l \in {0} \cup DOMAIN lessons
      /\ lessons \in Seq(Lesson)
  BY <1>1 DEF Written, IInv, Types, Checks
<1>4. CASE l = 0
  <2>1. lessons' = Append(lessons, made) /\ UNCHANGED due
    BY <1>1, <1>4
  <2>2. made \in Lesson /\ made.targets = ts
    BY <1>2 DEF Lesson
  <2> HIDE DEF made, ts
  <2>3. /\ lessons' \in Seq(Lesson) /\ DOMAIN lessons \subseteq DOMAIN lessons'
        /\ \A k \in DOMAIN lessons : lessons'[k] = lessons[k]
        /\ \A k \in DOMAIN lessons' : k \in DOMAIN lessons \/ lessons'[k] = made
    BY <1>3, <2>1, <2>2
  <2>4. \A k \in DOMAIN lessons' : Untouched(k)'
    BY <1>2, <2>2, <2>3 DEF IInv, Untouched, Targeted
  <2>. QED
    BY <1>3, <2>1, <2>3, <2>4, Conclude DEF IInv, Types
<1>5. CASE l # 0
  <2> DEFINE new == [lessons[l] EXCEPT !.targets = ts]
  <2>1. l \in DOMAIN lessons /\ lessons[l] \in Lesson
    BY <1>3, <1>5
  <2>2. new \in Lesson /\ new.targets = ts
    BY <1>2, <2>1 DEF Lesson
  <2>3. lessons' = [lessons EXCEPT ![l] = new] /\ due' = {p \in due : p[1] # l}
    BY <1>1, <1>5, <2>1
  <2> HIDE DEF new, ts, l
  <2>4. /\ lessons' \in Seq(Lesson) /\ DOMAIN lessons' = DOMAIN lessons
        /\ \A k \in DOMAIN lessons : lessons'[k] = IF k = l THEN new ELSE lessons[k]
    BY <1>3, <2>1, <2>2, <2>3
  <2>5. \A k \in DOMAIN lessons' : Untouched(k)'
    BY <1>2, <2>2, <2>4 DEF IInv, Untouched, Targeted
  <2>6. \A k \in DOMAIN lessons, s \in Sections : <<k, s>> \in due' => k # l
    BY <2>3
  <2>. QED
    BY <1>3, <2>3, <2>4, <2>5, <2>6, Conclude DEF IInv, Types
<1>. QED
  BY <1>4, <1>5

\* Every target of a lesson is written, and its status derived.
LEMMA RewriteInv ==
    ASSUME IInv, NEW j \in DJobs, NEW l \in DOMAIN lessons,
           NEW new \in [Targeted(l) -> Target], Retarget(l, OnTargets(l, new)),
           at' = [at EXCEPT ![j] = Idle], UNCHANGED <<template, cancelled, due, day>>
    PROVE  IInv'
<1>1. /\ OnTargets(l, new) \in Targets
      /\ \A s \in Sections : lessons[l].targets[s] \in Target => OnTargets(l, new)[s] \in Target
  BY OnTargetsType DEF IInv
<1>2. /\ lessons' \in Seq(Lesson) /\ DOMAIN lessons' = DOMAIN lessons
      /\ \A k \in DOMAIN lessons, s \in Sections :
            lessons[k].targets[s] \in Target => lessons'[k].targets[s] \in Target
      /\ \A k \in DOMAIN lessons : Untouched(k)'
  BY <1>1, RetargetStep
<1>. QED
  BY <1>2, Conclude DEF IInv, Types

LEMMA DeliverInv ==
    ASSUME IInv, NEW j \in DJobs, DeliverOpen(j) \/ DeliverScheduled(j) \/ CancelSchedule(j)
    PROVE  IInv'
<1> DEFINE l == at[j].lesson
           published == [t \in Targeted(l) |-> PublishTarget(t)]
           scheduled == [t \in Targeted(l) |-> ScheduleTarget(t)]
           unscheduled == [t \in Targeted(l) |-> Unscheduled(t)]
<1>1. /\ at' = [at EXCEPT ![j] = Idle] /\ UNCHANGED <<template, cancelled, due, day>>
      /\ l \in DOMAIN lessons
  BY DEF DeliverOpen, DeliverScheduled, CancelSchedule, Written, IInv, Checks
<1>2. {published, scheduled, unscheduled} \subseteq [Targeted(l) -> Target]
  BY <1>1, TargetedType, TargetWrites DEF IInv, Types
<1>3. \E new \in {published, scheduled, unscheduled} : Retarget(l, OnTargets(l, new))
  BY DEF DeliverOpen, DeliverScheduled, CancelSchedule
<1> HIDE DEF published, scheduled, unscheduled, l
<1>. QED
  BY <1>1, <1>2, <1>3, RewriteInv

-----------------------------------------------------------------------------
(* The cron, the timetable, the clock *)

LEMMA FindDueInv == ASSUME IInv, FindDue PROVE IInv'
<1>1. due' = DueTargets /\ UNCHANGED <<template, lessons, cancelled, at, day>>
  BY DEF FindDue
<1>2. DueTargets \subseteq (DOMAIN lessons) \X Sections
  BY DEF DueTargets, Live
<1>3. \A l \in DOMAIN lessons, s \in Sections :
        <<l, s>> \in DueTargets => lessons[l].targets[s] \in Target
  <2> SUFFICES ASSUME NEW l \in DOMAIN lessons, NEW s \in Sections, <<l, s>> \in DueTargets
               PROVE  lessons[l].targets[s] \in Target
    OBVIOUS
  <2>1. lessons[l] \in Lesson /\ lessons[l].targets[s] # NoTarget
    BY DEF IInv, Types, DueTargets
  <2>. QED
    BY <2>1 DEF Lesson, Targets
<1> HIDE DEF DueTargets
<1>. QED
  BY <1>1, <1>2, <1>3 DEF IInv, Types, DueStands, Checks, Untouched, Targeted

LEMMA PublishDueInv == ASSUME IInv, PublishDue PROVE IInv'
<1>1. PICK p \in due :
        /\ due' = due \ {p}
        /\ Retarget(p[1], [lessons[p[1]].targets EXCEPT ![p[2]] = PublishTarget(@)])
        /\ UNCHANGED <<template, cancelled, at, day>>
  BY DEF PublishDue
<1>2. PICK l \in DOMAIN lessons, s \in Sections : p = <<l, s>>
  BY DEF IInv, Types
<1> DEFINE t == lessons[l].targets[s]
           ts == [lessons[l].targets EXCEPT ![s] = PublishTarget(t)]
<1>3. t \in Target /\ lessons[l] \in Lesson
  BY <1>2 DEF IInv, Types, DueStands
<1>4. PublishTarget(t) \in Target /\ lessons[l].targets \in Targets
  BY <1>3, TargetWrites DEF IInv, Types, Lesson
<1>5. /\ ts \in Targets
      /\ \A q \in Sections : lessons[l].targets[q] \in Target => ts[q] \in Target
  BY <1>4 DEF Targets
<1>6. Retarget(l, ts)
  BY <1>1, <1>2
<1> HIDE DEF t, ts
<1>. QED
  BY <1>1, <1>5, <1>6, RetargetStep, Conclude DEF IInv, Types

\* A target that is moved to another hour waits, and its lesson says so.
LEMMA DeleteSlotInv == ASSUME IInv, NEW s \in Sections, NEW d \in Days, DeleteSlot(s, d) PROVE IInv'
<1> DEFINE moved == {l \in DOMAIN lessons : /\ lessons[l].targets[s] # NoTarget
                                            /\ Waiting(lessons[l].targets[s])
                                            /\ d \in lessons[l].targets[s].slots}
           hour(l) == NextHour(lessons[l].targets[s], s)
           target(l) == [lessons[l].targets[s] EXCEPT !.sched = hour(l)]
           lesson(l) == [lessons[l] EXCEPT !.targets = [lessons[l].targets EXCEPT ![s] = target(l)],
                                           !.status = "SCHEDULED"]
<1>1. \A l \in DOMAIN lessons : lessons[l] \in Lesson /\ lessons[l].targets \in Targets
  <2>1. \A l \in DOMAIN lessons : lessons[l] \in Lesson
    BY DEF IInv, Types
  <2>. QED
    BY <2>1 DEF Lesson
<1>2. \A l \in moved : lessons[l].targets[s] \in Target /\ hour(l) \in Nat
  BY <1>1, NextHourIsNat DEF Targets, IInv, Types
<1>3. \A l \in moved : target(l) \in Target
  <2> HIDE DEF hour, moved
  <2>. QED
    BY <1>2 DEF Target
<1>4. /\ lessons' = [l \in DOMAIN lessons |->
             IF l \notin moved THEN lessons[l]
             ELSE [lessons[l] EXCEPT !.targets[s].sched = hour(l),
                                     !.status = IF @ = "ARCHIVED" THEN @ ELSE "SCHEDULED"]]
      /\ cancelled' = cancelled \cup {<<s, d>>}
      /\ UNCHANGED <<template, due, at, day>>
  BY DEF DeleteSlot
<1> HIDE DEF hour
<1>5. \A l \in moved : [lessons[l] EXCEPT !.targets[s].sched = hour(l),
                                          !.status = IF @ = "ARCHIVED" THEN @ ELSE "SCHEDULED"] = lesson(l)
  <2> SUFFICES ASSUME NEW l \in moved
               PROVE  [lessons[l] EXCEPT !.targets[s].sched = hour(l),
                                         !.status = IF @ = "ARCHIVED" THEN @ ELSE "SCHEDULED"] = lesson(l)
    OBVIOUS
  <2>1. lessons[l] \in Lesson /\ lessons[l].status # "ARCHIVED"
    BY <1>1 DEF Lesson
  <2>. QED
    BY <2>1
<1>6. \A l \in moved : /\ lesson(l) \in Lesson /\ lesson(l).status = "SCHEDULED"
                       /\ \A q \in Sections : lessons[l].targets[q] \in Target =>
                              lesson(l).targets[q] \in Target
  <2> SUFFICES ASSUME NEW l \in moved
               PROVE  /\ lesson(l) \in Lesson /\ lesson(l).status = "SCHEDULED"
                      /\ \A q \in Sections : lessons[l].targets[q] \in Target =>
                             lesson(l).targets[q] \in Target
    OBVIOUS
  <2>1. lessons[l] \in Lesson /\ lessons[l].targets \in Targets /\ target(l) \in Target
    BY <1>1, <1>3
  <2> HIDE DEF target
  <2>. QED
    BY <2>1 DEF Lesson, Targets
<1> HIDE DEF moved, lesson, target
<1>7. \A l \in DOMAIN lessons : lessons'[l] = IF l \in moved THEN lesson(l) ELSE lessons[l]
  BY <1>4, <1>5
<1>8. lessons' \in Seq(Lesson) /\ DOMAIN lessons' = DOMAIN lessons
  <2>1. \A l \in DOMAIN lessons : lessons'[l] \in Lesson
    BY <1>1, <1>6, <1>7
  <2>2. Len(lessons) \in Nat /\ DOMAIN lessons = 1 .. Len(lessons)
    BY DEF IInv, Types
  <2>3. lessons' \in [1 .. Len(lessons) -> Lesson]
    BY <1>4, <2>1, <2>2
  <2>. QED
    BY <2>2, <2>3, IsASeq
<1>9. \A l \in DOMAIN lessons' : Untouched(l)'
  BY <1>6, <1>7, <1>8 DEF IInv, Untouched, Targeted
<1>. QED
  <2>1. \A l \in DOMAIN lessons, q \in Sections :
          lessons[l].targets[q] \in Target => lessons'[l].targets[q] \in Target
    BY <1>6, <1>7
  <2>2. cancelled' \subseteq Sections \X Days
    <3>1. cancelled \subseteq Sections \X Days /\ cancelled' = cancelled \cup {<<s, d>>}
      BY <1>4 DEF IInv, Types
    <3>. QED
      BY <3>1
  <2>3. template' \in {"DRAFT", "READY", "GONE"} /\ day' \in Nat /\ due' \subseteq due /\ at' = at
    BY <1>4 DEF IInv, Types
  <2>. QED
    BY <1>8, <1>9, <2>1, <2>2, <2>3, Conclude

LEMMA NextInv == IInv /\ [DeliveryNext]_dVars => IInv'
<1> SUFFICES ASSUME IInv, [DeliveryNext]_dVars PROVE IInv'
  OBVIOUS
<1>1. ASSUME NEW j \in DJobs, Write(j) PROVE IInv'
  BY <1>1, BackToDraftInv, SaveTargetingInv, DeliverInv DEF Write
<1>2. CASE Cron
  BY <1>2, FindDueInv, PublishDueInv DEF Cron
<1>3. CASE MakeReady \/ DayPasses \/ UNCHANGED dVars
  BY <1>3 DEF MakeReady, DayPasses, dVars, IInv, Types, DueStands, Checks, Untouched, Targeted
<1>. QED
  BY <1>1, <1>2, <1>3, CheckInv, DeleteSlotInv DEF DeliveryNext

THEOREM Invariance == DeliverySpec => []IInv
<1>. QED
  BY InitInv, NextInv, PTL DEF DeliverySpec

\* A lesson that says READY is seen by no section, and no target of it waits for its hour
\* (IMP-002 and IMP-003, lesson-delivery.service.ts:687-699).
THEOREM ReadyTheorem == DeliverySpec => []ReadyIsUntouched
<1>1. IInv => ReadyIsUntouched
  BY DEF IInv, Untouched, ReadyIsUntouched, Seen, Targeted, TargetsOf
<1>. QED
  BY <1>1, Invariance, PTL
=============================================================================
