--------------------------- MODULE LessonDelivery ---------------------------
(***************************************************************************)
(* A lesson on its way to the sections: a template is made ready, targeted *)
(* at sections and lesson hours, published or scheduled by the policy of   *)
(* the school, published by the cron when its hour has come, cancelled,    *)
(* and taken back to draft.                                                *)
(*                                                                         *)
(* Every request checks first and writes afterwards, in a transaction that *)
(* checks nothing again: what a job has read is kept until it writes.      *)
(* A lesson hour is known by its day, and each is linked to a target once. *)
(***************************************************************************)
EXTENDS Naturals, Sequences, FiniteSets

CONSTANTS DJobs,      \* requests of the teacher in progress at one time
          Sections,   \* school sections
          Days,       \* the days that have a lesson hour
          LastDay,    \* bound: the clock stops here
          MaxLessons, \* bound: the rows of the table
          NoTarget    \* the lesson is not meant for the section

ASSUME DeliveryAssumption == /\ Days \subseteq 1 .. LastDay
                             /\ {LastDay, MaxLessons} \subseteq Nat

VARIABLES template,  \* the status of the lesson template, "GONE" once deleted
          lessons,   \* the lessons table; each target has the day it is scheduled for
                     \* (or 0), whether it is published, and its lesson hours
          cancelled, \* lesson hours deleted from the timetable of a section
          due,       \* <<lesson, section>> the running cron has yet to publish
          at,        \* where each job is, and what it has read
          day        \* the clock

dVars == <<template, lessons, cancelled, due, at, day>>

Links == {"ADDITIONAL", "SLOT_COVERAGE"}
Idle == [pc |-> "idle", lesson |-> 0]

DeliveryInit == /\ template = "DRAFT"
                /\ lessons = << >>
                /\ cancelled = {}
                /\ due = {}
                /\ at = [j \in DJobs |-> Idle]
                /\ day = 0

Checked(j, pc, l) == /\ at[j] = Idle
                     /\ at' = [at EXCEPT ![j] = [pc |-> pc, lesson |-> l]]
                     /\ UNCHANGED <<template, lessons, cancelled, due, day>>

Written(j, pc) == /\ at[j].pc = pc
                  /\ at' = [at EXCEPT ![j] = Idle]
                  /\ UNCHANGED day

Live == {l \in DOMAIN lessons : lessons[l].live}
TargetsOf(ts) == {ts[s] : s \in Sections} \ {NoTarget}
Targeted(l) == TargetsOf(lessons[l].targets)
Waiting(t) == t.sched # 0 /\ ~t.pub

\* The students of a section see a lesson by its target, not by its status.
Seen(l, s) == /\ l \in Live
              /\ lessons[l].targets[s] # NoTarget
              /\ lessons[l].targets[s].pub

-----------------------------------------------------------------------------
(* The status of a lesson is derived from its targets. *)

\* Seeded fault: what is published already is not asked for.
StatusOf_forgetsPublished(ts) ==
    IF \A t \in TargetsOf(ts) : t.pub /\ TargetsOf(ts) # {} THEN "PUBLISHED"
    ELSE IF \E t \in TargetsOf(ts) : Waiting(t) THEN "SCHEDULED" ELSE "READY"

StatusOf(ts) ==
    LET T == TargetsOf(ts)
    IN  IF T # {} /\ \A t \in T : t.pub THEN "PUBLISHED"
        ELSE IF \E t \in T : Waiting(t) \/ t.pub THEN "SCHEDULED" ELSE "READY"

\* Write the targets of a lesson and recalculate its status.
Retarget(l, ts) == lessons' = [lessons EXCEPT ![l].targets = ts, ![l].status = StatusOf(ts)]

-----------------------------------------------------------------------------
(* The template *)

\* DRAFT to READY asks for a block; READY to READY changes nothing.
MakeReady == /\ template = "DRAFT"
             /\ template' = "READY"
             /\ UNCHANGED <<lessons, cancelled, due, at, day>>

\* Lessons are asked for only when the template has been read as READY.
CheckDraft(j) == /\ \/ template = "DRAFT"
                    \/ template = "READY" /\ Live = {}
                 /\ Checked(j, "draft", 0)

CheckDelete(j) == template = "DRAFT" /\ Live = {} /\ Checked(j, "delete", 0)

DropLessons == lessons' = [l \in DOMAIN lessons |-> [lessons[l] EXCEPT !.live = FALSE]]

BackToDraft(j) == /\ Written(j, "draft")
                  /\ DropLessons
                  /\ template' = IF template = "GONE" THEN "GONE" ELSE "DRAFT"
                  /\ UNCHANGED <<cancelled, due>>

DeleteTemplate(j) == /\ Written(j, "delete")
                     /\ DropLessons
                     /\ template' = "GONE"
                     /\ UNCHANGED <<cancelled, due>>

-----------------------------------------------------------------------------
(* saveTargeting *)

\* The template is ready; a lesson it already has, if any, is READY itself.
CheckTargeting(j) ==
    /\ template = "READY"
    /\ \/ Live = {} /\ Checked(j, "target", 0)
       \/ \E l \in Live : lessons[l].status = "READY" /\ Checked(j, "target", l)

\* One target for each section asked for, with the lesson hours that still exist.
NewTargets(secs, wanted) ==
    [s \in Sections |-> IF s \notin secs THEN NoTarget
        ELSE [sched |-> 0, pub |-> FALSE,
              slots |-> {d \in wanted : <<s, d>> \notin cancelled}]]

\* A new lesson, or a known one: its targets are deleted and made again, and its
\* status is not written.  A cron that was to publish one no longer finds it.
SaveTargeting(j) ==
    \E secs \in SUBSET Sections \ {{}}, link \in Links, wanted \in SUBSET Days :
        LET l == at[j].lesson
            ts == NewTargets(secs, IF link = "SLOT_COVERAGE" THEN wanted ELSE {})
        IN  /\ Written(j, "target")
            /\ IF l = 0
               THEN /\ Len(lessons) < MaxLessons
                    /\ lessons' = Append(lessons, [status |-> "READY", link |-> link,
                                                   live |-> TRUE, targets |-> ts])
                    /\ UNCHANGED due
               ELSE /\ lessons[l].link = link
                    /\ lessons' = [lessons EXCEPT ![l].targets = ts]
                    /\ due' = {p \in due : p[1] # l}
            /\ UNCHANGED <<template, cancelled>>

-----------------------------------------------------------------------------
(* publishLesson: the policy of the school is read between check and write. *)

CheckPublish(j) == /\ template # "GONE"
                   /\ \E l \in Live, pc \in {"open", "schedule"} :
                         /\ lessons[l].status = "READY"
                         /\ Targeted(l) # {}
                         /\ Checked(j, pc, l)

\* The targets of a lesson, each as new has it.
OnTargets(l, new) == [s \in Sections |->
    IF lessons[l].targets[s] = NoTarget THEN NoTarget ELSE new[lessons[l].targets[s]]]

PublishTarget(t) == [t EXCEPT !.pub = TRUE]

DeliverOpen(j) == /\ Written(j, "open")
                  /\ LET l == at[j].lesson
                     IN  Retarget(l, OnTargets(l, [t \in Targeted(l) |-> PublishTarget(t)]))
                  /\ UNCHANGED <<template, cancelled, due>>

\* computeEarliestSlotDate: 0 if no hour is linked; deleted hours count.
Earliest(t) == IF t.slots = {} THEN 0 ELSE CHOOSE d \in t.slots : \A e \in t.slots : d <= e

ScheduleTarget(t) == IF Earliest(t) > day THEN [t EXCEPT !.sched = Earliest(t)]
                     ELSE PublishTarget(t)

\* A lesson tied to no lesson hours is published at once; one that should be and
\* has not a single one is refused.
DeliverScheduled(j) ==
    LET l == at[j].lesson IN
    /\ Written(j, "schedule")
    /\ \/ /\ lessons[l].link = "ADDITIONAL"
          /\ Retarget(l, OnTargets(l, [t \in Targeted(l) |-> PublishTarget(t)]))
       \/ /\ lessons[l].link = "SLOT_COVERAGE"
          /\ \E t \in Targeted(l) : t.slots # {}
          /\ Retarget(l, OnTargets(l, [t \in Targeted(l) |-> ScheduleTarget(t)]))
    /\ UNCHANGED <<template, cancelled, due>>

-----------------------------------------------------------------------------
(* The cron, one run at a time *)

DueTargets == {p \in Live \X Sections :
                  /\ lessons[p[1]].status = "SCHEDULED"
                  /\ lessons[p[1]].targets[p[2]] # NoTarget
                  /\ LET t == lessons[p[1]].targets[p[2]] IN Waiting(t) /\ t.sched <= day}

\* Seeded fault: a lesson one section has already is passed over.
FindDue_wholeLessons == /\ due = {}
                        /\ due' = {p \in DueTargets :
                              \A t \in Targeted(p[1]) : ~t.pub}
                        /\ due' # {}
                        /\ UNCHANGED <<template, lessons, cancelled, at, day>>

FindDue == /\ due = {}
           /\ DueTargets # {}
           /\ due' = DueTargets
           /\ UNCHANGED <<template, lessons, cancelled, at, day>>

\* By its id: neither the schedule nor the status is asked for again.
PublishDue == \E p \in due :
    /\ due' = due \ {p}
    /\ Retarget(p[1], [lessons[p[1]].targets EXCEPT ![p[2]] = PublishTarget(@)])
    /\ UNCHANGED <<template, cancelled, at, day>>

-----------------------------------------------------------------------------
(* cancelSchedule, deleteSlot *)

\* In one transaction, but the count is a statement before the update.
CheckCancel(j) == /\ template # "GONE"
                  /\ \E l \in Live : /\ lessons[l].status = "SCHEDULED"
                                     /\ \A t \in Targeted(l) : ~t.pub
                                     /\ Checked(j, "cancel", l)

Unscheduled(t) == [t EXCEPT !.sched = 0]

CancelSchedule(j) == /\ Written(j, "cancel")
                     /\ LET l == at[j].lesson
                        IN  Retarget(l, OnTargets(l, [t \in Targeted(l) |-> Unscheduled(t)]))
                     /\ UNCHANGED <<template, cancelled, due>>

\* The next hour left to a target; it reckons a week from Sunday, the schedule
\* from Saturday, and so comes out a day later.
NextHour(t, s) == LET left == {d + 1 : d \in {e \in t.slots : <<s, e>> \notin cancelled'}}
                   future == {d \in left : d > day}
               IN  IF future = {} THEN 0 ELSE CHOOSE d \in future : \A e \in future : d <= e

\* A lesson hour is deleted, and the waiting targets it was linked to move to
\* their next one.  If one has none the log is written for user 0, which no
\* row of users is: the insert fails and takes the deletion back.
DeleteSlot(s, d) ==
    LET moved == {l \in DOMAIN lessons : /\ lessons[l].targets[s] # NoTarget
                                         /\ Waiting(lessons[l].targets[s])
                                         /\ d \in lessons[l].targets[s].slots}
    IN  /\ <<s, d>> \notin cancelled
        /\ cancelled' = cancelled \cup {<<s, d>>}
        /\ \A l \in moved : NextHour(lessons[l].targets[s], s) # 0
        /\ lessons' = [l \in DOMAIN lessons |->
               IF l \notin moved THEN lessons[l]
               ELSE [lessons[l] EXCEPT
                        !.targets[s].sched = NextHour(lessons[l].targets[s], s),
                        !.status = IF @ = "ARCHIVED" THEN @ ELSE "SCHEDULED"]]
        /\ UNCHANGED <<template, due, at, day>>

DayPasses == /\ day < LastDay
             /\ day' = day + 1
             /\ UNCHANGED <<template, lessons, cancelled, due, at>>

-----------------------------------------------------------------------------
Cron == FindDue \/ PublishDue
Write(j) == \/ BackToDraft(j)
            \/ DeleteTemplate(j)
            \/ SaveTargeting(j)
            \/ DeliverOpen(j)
            \/ DeliverScheduled(j)
            \/ CancelSchedule(j)
Check(j) == \/ CheckDraft(j)
            \/ CheckDelete(j)
            \/ CheckTargeting(j)
            \/ CheckPublish(j)
            \/ CheckCancel(j)

DeliveryNext == \/ MakeReady
                \/ \E j \in DJobs : Check(j) \/ Write(j)
                \/ Cron
                \/ \E s \in Sections, d \in Days : DeleteSlot(s, d)
                \/ DayPasses

\* The cron comes every five minutes and catches the errors of each target; the
\* clock goes on; nobody has to make a request.
DeliveryFairness == WF_dVars(Cron) /\ WF_dVars(DayPasses)
DeliverySpec == DeliveryInit /\ [][DeliveryNext]_dVars /\ DeliveryFairness

-----------------------------------------------------------------------------
(* Properties *)

\* A lesson that says READY is seen by no section, and no target waits for its hour
\* (IMP-002 and IMP-003, lesson-delivery.service.ts:687-699): such a target would
\* be edited again, and the cron, which asks for SCHEDULED, would never see it.
\* Requests that write what they checked long ago do not break this.
ReadyIsUntouched == \A l \in DOMAIN lessons : lessons[l].status = "READY" =>
    \A s \in Sections : ~Seen(l, s) /\ \A t \in Targeted(l) : ~Waiting(t)

\* A target whose hour has come is published, or taken back by its teacher
\* (lesson-delivery.service.ts:321-389, whatever the requests in between).
DueIsPublished == \A l \in 1 .. MaxLessons, s \in Sections :
    <<l, s>> \in DueTargets ~> <<l, s>> \notin DueTargets
=============================================================================
