--------------------------- MODULE SchoolStructure ---------------------------
(***************************************************************************)
(* One grade of a school: its sections and subjects, the rows that link    *)
(* them (subject_sections), the teachers of a link and the timetables.     *)
(* The week has one lesson hour, and every teacher is PRIMARY.             *)
(*                                                                         *)
(* The manager's requests are several statements, most of them each a      *)
(* transaction of its own.  A subject or a section is made once; names,    *)
(* covers and places in a list are left out.                               *)
(***************************************************************************)
EXTENDS Naturals, FiniteSets

CONSTANTS Clerks,       \* requests of managers and owners in progress at one time
          SubjectRows, SectionRows, Teachers,
          FirstSection, \* the one a grade is created with
          NoRow,        \* no subject, no section, no teacher
          MaxRequests   \* bound: requests of several statements

ASSUME StructureAssumption == /\ FirstSection \in SectionRows /\ MaxRequests \in Nat
                              /\ NoRow \notin SubjectRows \cup SectionRows \cup Teachers

Links == SubjectRows \X SectionRows

VARIABLES subjectIs, \* "none", "live" or "deleted"
          sectionIs,
          linkIs,
          assigned,  \* the teachers of each link that are not deleted,
          everAssigned, \* and those that have a row, deleted or not
          hour,      \* the subject of the hour of each section
          clerk,     \* where each request is, and what it has read
          requests,  \* how many there were
          apart,     \* links whose ends were made at one time, or by a request cut short
          contested  \* links of which two assignments were under way at one time

structureVars == <<subjectIs, sectionIs, linkIs, assigned, everAssigned, hour, clerk,
                   requests, apart, contested>>

Away == [pc |-> "away", subject |-> NoRow, section |-> NoRow, teacher |-> NoRow, todo |-> {}]

LiveSubjects == {q \in SubjectRows : subjectIs[q] = "live"}
LiveSections == {s \in SectionRows : sectionIs[s] = "live"}

\* createGrade: one section, with the subjects imported for the grade.
StructureInit == \E imported \in SUBSET SubjectRows :
    /\ subjectIs = [q \in SubjectRows |-> IF q \in imported THEN "live" ELSE "none"]
    /\ sectionIs = [s \in SectionRows |-> IF s = FirstSection THEN "live" ELSE "none"]
    /\ linkIs = [p \in Links |-> IF p \in imported \X {FirstSection} THEN "live" ELSE "none"]
    /\ assigned = [p \in Links |-> {}]
    /\ everAssigned = [p \in Links |-> {}]
    /\ hour = [s \in SectionRows |-> NoRow]
    /\ clerk = [k \in Clerks |-> Away]
    /\ requests = 0
    /\ apart = {}
    /\ contested = {}

Busy(pcs) == {clerk[k] : k \in {j \in Clerks : clerk[j].pc \in pcs}}
MakingSubject == {b.subject : b \in Busy({"sections", "link", "import"})}
MakingSection == {b.section : b \in Busy({"section"})}
Assigning == {<<b.subject, b.section>> : b \in Busy({"replace", "upsert", "execute"})}

At(k, b) == clerk' = [clerk EXCEPT ![k] = b] /\ UNCHANGED requests
Goes(k) == At(k, Away)
Comes(k, b) == /\ clerk[k] = Away /\ requests < MaxRequests
               /\ clerk' = [clerk EXCEPT ![k] = b]
               /\ requests' = requests + 1
SameRows == UNCHANGED <<subjectIs, sectionIs, linkIs>>
SameHours == UNCHANGED <<assigned, everAssigned, hour, contested>>

-----------------------------------------------------------------------------
(* Subjects and sections *)

\* createSubject: the subject is committed, the sections are read, and each
\* is linked, in statements of their own.
InsertSubject(k) == \E q \in SubjectRows :
    /\ subjectIs[q] = "none" /\ q \notin MakingSubject
    /\ Comes(k, [Away EXCEPT !.pc = "sections", !.subject = q])
    /\ subjectIs' = [subjectIs EXCEPT ![q] = "live"]
    /\ apart' = apart \cup {q} \X MakingSection
    /\ UNCHANGED <<sectionIs, linkIs>> /\ SameHours

ReadSections(k) == /\ clerk[k].pc = "sections"
                   /\ At(k, [clerk[k] EXCEPT !.pc = "link", !.todo = LiveSections])
                   /\ SameRows /\ SameHours /\ UNCHANGED apart

\* A link that is there already is an error, and the rest is not made.
LinkNext(k) == \E s \in clerk[k].todo : LET p == <<clerk[k].subject, s>> IN
    /\ clerk[k].pc = "link"
    /\ linkIs' = [linkIs EXCEPT ![p] = IF @ = "none" THEN "live" ELSE @]
    /\ IF linkIs[p] = "none" THEN /\ At(k, [clerk[k] EXCEPT !.todo = @ \ {s}])
                                  /\ UNCHANGED apart
       ELSE /\ Goes(k)
            /\ apart' = apart \cup {p[1]} \X clerk[k].todo
    /\ UNCHANGED <<subjectIs, sectionIs>> /\ SameHours

SubjectCreated(k) == /\ clerk[k].pc = "link" /\ clerk[k].todo = {}
                    /\ Goes(k)
                    /\ SameRows /\ SameHours /\ UNCHANGED apart

\* importFromDictionary: one transaction, which shows nothing before it ends.
BeginImport(k) == \E q \in SubjectRows :
    /\ subjectIs[q] = "none" /\ q \notin MakingSubject
    /\ Comes(k, [Away EXCEPT !.pc = "import", !.subject = q, !.todo = LiveSections])
    /\ apart' = apart \cup {q} \X MakingSection
    /\ SameRows /\ SameHours

ImportFromDictionary(k) == LET q == clerk[k].subject IN
    /\ clerk[k].pc = "import"
    /\ Goes(k)
    /\ subjectIs' = [subjectIs EXCEPT ![q] = "live"]
    /\ linkIs' = [p \in Links |-> IF p \in {q} \X clerk[k].todo THEN "live" ELSE linkIs[p]]
    /\ UNCHANGED <<sectionIs, apart>> /\ SameHours

\* createSection: one transaction too.
BeginSection(k) == \E s \in SectionRows :
    /\ sectionIs[s] = "none" /\ s \notin MakingSection
    /\ Comes(k, [Away EXCEPT !.pc = "section", !.section = s, !.todo = LiveSubjects])
    /\ apart' = apart \cup MakingSubject \X {s}
    /\ SameRows /\ SameHours

CreateSection(k) == LET s == clerk[k].section IN
    /\ clerk[k].pc = "section"
    /\ Goes(k)
    /\ sectionIs' = [sectionIs EXCEPT ![s] = "live"]
    /\ linkIs' = [p \in Links |-> IF p \in clerk[k].todo \X {s} THEN "live" ELSE linkIs[p]]
    /\ UNCHANGED <<subjectIs, apart>> /\ SameHours

DeleteSubject == \E q \in LiveSubjects :
    /\ subjectIs' = [subjectIs EXCEPT ![q] = "deleted"]
    /\ linkIs' = [p \in Links |-> IF p[1] = q /\ linkIs[p] = "live" THEN "deleted" ELSE linkIs[p]]
    /\ UNCHANGED <<sectionIs, clerk, requests, apart>> /\ SameHours

\* Its students have left; its links and its timetable stay.
DeleteSection == \E s \in LiveSections :
    /\ sectionIs' = [sectionIs EXCEPT ![s] = "deleted"]
    /\ UNCHANGED <<subjectIs, linkIs, clerk, requests, apart>> /\ SameHours

AssignToSections == \E q \in LiveSubjects, s \in LiveSections :
    /\ linkIs' = [linkIs EXCEPT ![<<q, s>>] = "live"]
    /\ UNCHANGED <<subjectIs, sectionIs, clerk, requests, apart>> /\ SameHours

RemoveFromSection == \E q \in LiveSubjects, s \in SectionRows :
    /\ linkIs[<<q, s>>] = "live"
    /\ linkIs' = [linkIs EXCEPT ![<<q, s>>] = "deleted"]
    /\ UNCHANGED <<subjectIs, sectionIs, clerk, requests, apart>> /\ SameHours

-----------------------------------------------------------------------------
(* Teachers *)

\* take: 1 - one of them, if any.
Named(p) == IF assigned[p] = {} THEN NoRow ELSE CHOOSE t \in assigned[p] : TRUE

ToAssign(k, p, t, pc) ==
    /\ Comes(k, [Away EXCEPT !.pc = pc, !.subject = p[1], !.section = p[2], !.teacher = t])
    /\ contested' = IF p \in Assigning THEN contested \cup {p} ELSE contested
    /\ SameRows /\ UNCHANGED <<assigned, everAssigned, hour, apart>>

\* assignTeacherToSection: nothing is done for the teacher it has.
ReadAssignment(k) == \E p \in Links, t \in Teachers :
    /\ linkIs[p] = "live" /\ subjectIs[p[1]] = "live" /\ Named(p) # t
    /\ ToAssign(k, p, t, IF Named(p) = NoRow THEN "upsert" ELSE "replace")

\* Seeded fault: the teacher before keeps the subject.
DropPrevious_kept(k) == /\ clerk[k].pc = "replace"
                        /\ At(k, [clerk[k] EXCEPT !.pc = "upsert"])
                        /\ SameRows /\ UNCHANGED <<assigned, everAssigned, hour, contested, apart>>

DropPrevious(k) == /\ clerk[k].pc = "replace"
                   /\ At(k, [clerk[k] EXCEPT !.pc = "upsert"])
                   /\ assigned' = [assigned EXCEPT ![<<clerk[k].subject, clerk[k].section>>] = {}]
                   /\ SameRows /\ UNCHANGED <<everAssigned, hour, contested, apart>>

AssignTeacher(k) == LET p == <<clerk[k].subject, clerk[k].section>> IN
    /\ clerk[k].pc = "upsert"
    /\ Goes(k)
    /\ assigned' = [assigned EXCEPT ![p] = @ \cup {clerk[k].teacher}]
    /\ everAssigned' = [everAssigned EXCEPT ![p] = @ \cup {clerk[k].teacher}]
    /\ SameRows /\ UNCHANGED <<hour, contested, apart>>

UnassignTeacher == \E p \in Links :
    /\ linkIs[p] = "live" /\ subjectIs[p[1]] = "live" /\ assigned[p] # {}
    /\ assigned' = [assigned EXCEPT ![p] = {}]
    /\ SameRows /\ UNCHANGED <<everAssigned, hour, clerk, requests, contested, apart>>

\* An import of teachers: the preview refuses what somebody teaches, even where the link
\* is deleted, and the execution, much later, asks only for a row of this teacher.
PreviewAssignment(k) == \E p \in LiveSubjects \X LiveSections, t \in Teachers :
    /\ assigned[p] = {}
    /\ ToAssign(k, p, t, "execute")

ExecuteAssignment(k) == LET p == <<clerk[k].subject, clerk[k].section>> IN
    /\ clerk[k].pc = "execute"
    /\ Goes(k)
    /\ linkIs' = [linkIs EXCEPT ![p] = IF @ = "none" THEN "live" ELSE @]
    /\ assigned' = [assigned EXCEPT ![p] = IF clerk[k].teacher \in everAssigned[p] THEN @
                                           ELSE @ \cup {clerk[k].teacher}]
    /\ everAssigned' = [everAssigned EXCEPT ![p] = @ \cup {clerk[k].teacher}]
    /\ UNCHANGED <<subjectIs, sectionIs, hour, contested, apart>>

-----------------------------------------------------------------------------
(* The timetable *)

CheckTimetable(k) == \E s \in LiveSections, q \in SubjectRows \cup {NoRow} :
    /\ q # NoRow => linkIs[<<q, s>>] = "live"
    /\ Comes(k, [Away EXCEPT !.pc = "save", !.subject = q, !.section = s])
    /\ SameRows /\ SameHours /\ UNCHANGED apart

SaveTimetable(k) == /\ clerk[k].pc = "save"
                    /\ Goes(k)
                    /\ hour' = [hour EXCEPT ![clerk[k].section] = clerk[k].subject]
                    /\ SameRows /\ UNCHANGED <<assigned, everAssigned, contested, apart>>

\* The server stops, or a statement fails: what is committed stays.
Stops(k) == /\ clerk[k] # Away
            /\ Goes(k)
            /\ apart' = IF clerk[k].pc \in {"sections", "link"}
                        THEN apart \cup {p \in Links : p[1] = clerk[k].subject /\ linkIs[p] = "none"}
                        ELSE apart
            /\ SameRows /\ SameHours

StructureNext ==
    \/ \E k \in Clerks : \/ InsertSubject(k) \/ ReadSections(k) \/ LinkNext(k) \/ SubjectCreated(k)
                         \/ BeginImport(k) \/ ImportFromDictionary(k)
                         \/ BeginSection(k) \/ CreateSection(k)
                         \/ ReadAssignment(k) \/ DropPrevious(k) \/ AssignTeacher(k)
                         \/ PreviewAssignment(k) \/ ExecuteAssignment(k)
                         \/ CheckTimetable(k) \/ SaveTimetable(k) \/ Stops(k)
    \/ DeleteSubject \/ DeleteSection \/ AssignToSections \/ RemoveFromSection \/ UnassignTeacher
StructureSpec == StructureInit /\ [][StructureNext]_structureVars

-----------------------------------------------------------------------------
(* What each is shown *)

\* By the manager, the student and the device of the student; whether the subject is
\* still linked to the section is not asked.
SectionTimetable(s) == IF hour[s] = NoRow THEN {}
                       ELSE {[subject |-> hour[s], teacher |-> Named(<<hour[s], s>>)]}
StudentTimetable(s) == SectionTimetable(s)

Teaches(t, p) == linkIs[p] = "live" /\ t \in assigned[p]
TeachesNow(t, s) == hour[s] # NoRow /\ Teaches(t, <<hour[s], s>>)

TeacherTimetable(t) == {s \in LiveSections : TeachesNow(t, s)}
TeacherSubjects(t) == {p \in Links : Teaches(t, p) /\ subjectIs[p[1]] = "live"}
OwnsSubject(t, q) == subjectIs[q] = "live" /\ \E s \in SectionRows : Teaches(t, <<q, s>>)
AvailableSections(t, q) == {s \in LiveSections : OwnsSubject(t, q) /\ Teaches(t, <<q, s>>)}

\* The hours of a subject in a section are offered to who teaches the subject anywhere.
SlotsForSection(t, q) == {s \in LiveSections :
    OwnsSubject(t, q) /\ linkIs[<<q, s>>] = "live" /\ hour[s] = q}

SectionSubjects(s) == {[subject |-> p[1], teacher |-> Named(p)] :
                          p \in {l \in Links : l[2] = s /\ linkIs[l] = "live"}}
Assignment(q) == {[section |-> p[2], teacher |-> Named(p)] :
                     p \in {l \in Links : l[1] = q /\ linkIs[l] = "live"}}

\* The other sections that the teacher of this subject has in the same hour.
TeacherConflicts(s, q) == {x \in SectionRows \ {s} :
    Named(<<q, s>>) # NoRow /\ TeachesNow(Named(<<q, s>>), x)}

-----------------------------------------------------------------------------
(* Properties *)

RowStates == {"none", "live", "deleted"}
StructureTypeOK ==
    /\ subjectIs \in [SubjectRows -> RowStates]
    /\ sectionIs \in [SectionRows -> RowStates]
    /\ linkIs \in [Links -> RowStates]
    /\ everAssigned \in [Links -> SUBSET Teachers]
    /\ \A p \in Links : assigned[p] \subseteq everAssigned[p]
    /\ hour \in [SectionRows -> SubjectRows \cup {NoRow}]
    /\ clerk \in [Clerks -> [pc : {"away", "sections", "link", "import", "section", "replace",
                                   "upsert", "execute", "save"},
                             subject : SubjectRows \cup {NoRow}, section : SectionRows \cup {NoRow},
                             teacher : Teachers \cup {NoRow}, todo : SUBSET (SubjectRows \cup SectionRows)]]
    /\ requests \in 0 .. MaxRequests
    /\ apart \cup contested \subseteq Links

\* Every subject of a grade reaches every section of it (INV-04, subjects.service.ts:114, and
\* grades.service.ts:252), whichever of the two is new, unless the manager has removed it: only
\* a subject and a section made at the same time may miss each other, and a subject whose
\* creation was cut short.
SubjectsReachSections == \A q \in LiveSubjects, s \in LiveSections :
    /\ <<q, s>> \notin apart /\ linkIs[<<q, s>>] = "none" => q \in MakingSubject

\* A subject has one teacher in a section, however often it is given to another, taken from
\* the section and brought back, or imported, unless two assignments overlapped
\* (subjects.service.ts:288-410, imports.service.ts:975-1024).  So the teacher that a section
\* is shown beside an hour has that hour in a timetable of theirs, nobody else does, and the
\* manager who is asked about conflicts is told of every other hour there
\* (timetable.service.ts:16-85, 388-455, 463-550).
TimetablesAgree == \A s \in LiveSections : LET q == hour[s] IN
    q # NoRow => LET p == <<q, s>> IN
        /\ p \notin contested => Cardinality(assigned[p]) <= 1
        /\ p \notin contested /\ linkIs[p] = "live" => \A t \in Teachers :
              /\ (\E row \in SectionTimetable(s) : row.teacher = t) <=> s \in TeacherTimetable(t)
              /\ s \in TeacherTimetable(t) /\ subjectIs[q] = "live" =>
                    /\ p \in TeacherSubjects(t) /\ s \in AvailableSections(t, q) /\ s \in SlotsForSection(t, q)
                    /\ [section |-> s, teacher |-> t] \in Assignment(q)
                    /\ [subject |-> q, teacher |-> t] \in SectionSubjects(s)
                    /\ TeacherConflicts(s, q) \cap LiveSections = TeacherTimetable(t) \ {s}

StructureKept == SubjectsReachSections /\ TimetablesAgree
=============================================================================
