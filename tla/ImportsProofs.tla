---------------------------- MODULE ImportsProofs ----------------------------
(***************************************************************************)
(* What the manager of a school does with it.                              *)
(*                                                                         *)
(* A family has one account of a parent, proved for any number of import   *)
(* sessions, executions, rows and families: the row of the school, which   *)
(* the number of the account has taken, protects the lookup by phone that  *)
(* comes after it.                                                         *)
(*                                                                         *)
(* A subject reaches every section, and has one teacher there who is shown *)
(* its hours, proved for any number of requests, subjects, sections and    *)
(* teachers: what a request has read, and what it has yet to link, cover   *)
(* the links that do not exist.                                            *)
(***************************************************************************)
EXTENDS Imports, SchoolStructure, FiniteSetTheorems, TLAPS

Kinds == {"STUDENT", "TEACHER", "PARENT"}
Account == [kind : Kinds, who : Names \cup Families]

\* What a session or an execution says of the rows: nothing yet, or of every row.
Marks == Verdicts \cup {"DONE"}
Records == {<< >>} \cup [Names -> Marks]

Session == [type : {"STUDENTS", "TEACHERS"},
            status : {"NONE", "PREVIEW", "EXECUTING", "COMPLETED"},
            records : Records]

Run == [pc : {"idle", "mark", "rows", "account", "parent"},
        import : Imports \cup {"none"},
        row : Names \cup {"none"},
        records : Records,
        found : BOOLEAN]

Types == /\ phone \in [Names -> Families \cup {NoFamily}]
         /\ imported \in [Imports -> Session]
         /\ accounts \in Seq(Account)
         /\ running \in [Runners -> Run]

\* In the transaction of a row: the row of the school is held.
Inside(r) == running[r].pc \in {"account", "parent"}

\* An execution has a session, and one inside a transaction a row of its file.
Placed == \A r \in Runners :
             /\ running[r].pc # "idle" => running[r].import \in Imports
             /\ Inside(r) => /\ running[r].row \in Names
                             /\ running[r].records \in [Names -> Marks]

OneInside == \A r, q \in Runners : Inside(r) /\ Inside(q) => r = q

\* Who has looked for a parent and found none is still right.
LookupStands == \A r \in Runners :
    running[r].pc = "parent" /\ ~running[r].found /\ phone[running[r].row] # NoFamily =>
        ~Has("PARENT", phone[running[r].row])

IInv == Types /\ Placed /\ OneInside /\ LookupStands /\ OneParentAccount

LEMMA InitInv == ImportsInit => IInv
<1> SUFFICES ASSUME ImportsInit PROVE IInv
  OBVIOUS
<1>1. Types
  <2>1. << >> \in Records /\ << >> \in Seq(Account)
    BY DEF Records
  <2>2. imported \in [Imports -> Session]
    BY <2>1 DEF ImportsInit, Session
  <2>3. running \in [Runners -> Run]
    BY <2>1 DEF ImportsInit, Asking, Run
  <2>. QED
    BY <2>1, <2>2, <2>3 DEF Types, ImportsInit
<1>2. Placed /\ OneInside /\ LookupStands
  BY DEF ImportsInit, Asking, Placed, OneInside, LookupStands, Inside
<1>3. OneParentAccount
  BY DEF ImportsInit, OneParentAccount
<1>. QED
  BY <1>1, <1>2, <1>3 DEF IInv

-----------------------------------------------------------------------------
(* What the steps have in common *)

\* One execution moves to where it holds nothing; no account is made.
LEMMA OutsideStep ==
    ASSUME IInv, UNCHANGED <<phone, accounts>>, NEW r \in Runners,
           NEW run \in Run, running' = [running EXCEPT ![r] = run],
           run.pc \in {"idle", "mark", "rows"},
           run.pc # "idle" => run.import \in Imports,
           imported' \in [Imports -> Session]
    PROVE  IInv'
<1>1. Types'
  BY DEF IInv, Types
<1>2. \A q \in Runners : running'[q] = IF q = r THEN run ELSE running[q]
  BY DEF IInv, Types
<1>3. ~Inside(r)'
  BY <1>2 DEF Inside
<1>4. Placed'
  BY <1>2, <1>3 DEF IInv, Placed, Inside
<1>5. OneInside'
  BY <1>2, <1>3 DEF IInv, OneInside, Inside
<1>6. LookupStands'
  BY <1>2, <1>3 DEF IInv, LookupStands, Inside, Has
<1>7. OneParentAccount'
  BY DEF IInv, OneParentAccount
<1>. QED
  BY <1>1, <1>4, <1>5, <1>6, <1>7 DEF IInv

\* The row of an execution that leaves its transaction.
LEMMA AfterRow ==
    ASSUME IInv, NEW r \in Runners, Inside(r), NEW verdict \in Marks, NextRow(r, verdict)
    PROVE  \E run \in Run : /\ running' = [running EXCEPT ![r] = run]
                            /\ run.pc = "rows" /\ run.import \in Imports
<1> DEFINE marks == [running[r].records EXCEPT ![running[r].row] = verdict]
           run == [running[r] EXCEPT !.pc = "rows", !.row = "none", !.found = FALSE,
                                     !.records = marks]
<1>1. running[r] \in Run /\ running[r].import \in Imports /\ marks \in Records
  BY DEF IInv, Types, Placed, Inside, Records
<1>2. run \in Run /\ run.pc = "rows" /\ run.import \in Imports
  BY <1>1 DEF Run
<1>3. r \in DOMAIN running
  BY DEF IInv, Types
<1>4. running' = [running EXCEPT ![r] = run]
  BY <1>3 DEF NextRow
<1>. QED
  BY <1>2, <1>4

-----------------------------------------------------------------------------
(* The actions *)

LEMMA SessionUpdate ==
    ASSUME NEW session \in Session, NEW records \in Records,
           NEW status \in {"PREVIEW", "COMPLETED"}
    PROVE  [session EXCEPT !.status = status, !.records = records] \in Session
  BY DEF Session

LEMMA PreviewImportInv == ASSUME IInv, NEW i \in Imports, PreviewImport(i)
                          PROVE  IInv'
<1>1. PICK wrong \in SUBSET Names :
        imported' = [imported EXCEPT ![i].status = "PREVIEW", ![i].records =
            [n \in Names |-> IF n \in wrong THEN "ERROR"
                             ELSE IF Has(KindOf(i), n) THEN "DUPLICATE" ELSE "NEW"]]
  BY DEF PreviewImport
<1> DEFINE marks == [n \in Names |-> IF n \in wrong THEN "ERROR"
                             ELSE IF Has(KindOf(i), n) THEN "DUPLICATE" ELSE "NEW"]
<1>2. marks \in Records
  BY DEF Records, Marks, Verdicts
<1> HIDE DEF marks
<1> DEFINE session == [imported[i] EXCEPT !.status = "PREVIEW", !.records = marks]
<1>3. imported' \in [Imports -> Session]
  <2>1. imported \in [Imports -> Session] /\ session \in Session
    BY <1>2, SessionUpdate DEF IInv, Types
  <2>2. imported' = [imported EXCEPT ![i].status = "PREVIEW", ![i].records = marks]
    BY <1>1 DEF marks
  <2>3. imported' = [imported EXCEPT ![i] = session]
    BY <2>1, <2>2
  <2>. HIDE DEF session
  <2>. QED
    BY <2>1, <2>3
<1>4. Types'
  BY <1>3 DEF IInv, Types, PreviewImport
<1>. QED
  BY <1>4 DEF PreviewImport, IInv, Placed, OneInside, LookupStands, OneParentAccount, Inside, Has

LEMMA ReadImportInv == ASSUME IInv, NEW r \in Runners, NEW i \in Imports, ReadImport(r, i)
                       PROVE  IInv'
<1> DEFINE run == [Asking EXCEPT !.pc = "mark", !.import = i, !.records = imported[i].records]
<1>1. imported[i].records \in Records
  BY DEF IInv, Types, Session
<1>2. run \in Run /\ run.pc = "mark" /\ run.import = i
  BY <1>1 DEF Asking, Run
<1>3. running' = [running EXCEPT ![r] = run] /\ UNCHANGED <<phone, imported, accounts>>
  BY DEF ReadImport
<1> HIDE DEF run
<1>. QED
  BY <1>2, <1>3, OutsideStep DEF IInv, Types

LEMMA MarkExecutingInv == ASSUME IInv, NEW r \in Runners, MarkExecuting(r)
                          PROVE  IInv'
<1> DEFINE run == [running[r] EXCEPT !.pc = "rows"]
<1>1. running[r] \in Run /\ running[r].import \in Imports
  BY DEF IInv, Types, Placed, MarkExecuting
<1>2. run \in Run /\ run.pc = "rows" /\ run.import \in Imports
  BY <1>1 DEF Run
<1>3. running' = [running EXCEPT ![r] = run] /\ UNCHANGED <<phone, accounts>>
  BY DEF MarkExecuting
<1>4. imported' \in [Imports -> Session]
  BY <1>1 DEF MarkExecuting, IInv, Types, Session
<1> HIDE DEF run
<1>. QED
  BY <1>2, <1>3, <1>4, OutsideStep

LEMMA AssignExistingInv == ASSUME IInv, NEW r \in Runners, AssignExisting(r)
                           PROVE  IInv'
<1>1. PICK n \in ToDo(r) :
        /\ running[r].pc = "rows"
        /\ running' = [running EXCEPT ![r].records[n] =
                          IF Has("TEACHER", n) THEN "DONE" ELSE "ERROR"]
        /\ UNCHANGED <<phone, imported, accounts>>
  BY DEF AssignExisting
<1> DEFINE mark == IF Has("TEACHER", n) THEN "DONE" ELSE "ERROR"
           marks == [running[r].records EXCEPT ![n] = mark]
           run == [running[r] EXCEPT !.records = marks]
<1>2. /\ running[r] \in Run /\ running[r].import \in Imports
      /\ running[r].records \in [Names -> Marks]
  BY <1>1 DEF IInv, Types, Placed, ToDo, Run, Records
<1>3. mark \in Marks
  BY DEF Marks, Verdicts
<1> HIDE DEF mark
<1>4. marks \in Records
  BY <1>2, <1>3 DEF Run, Records
<1>5. run \in Run /\ run.pc = "rows" /\ run.import \in Imports
  BY <1>1, <1>2, <1>4 DEF Run
<1>6. running' = [running EXCEPT ![r] = run]
  BY <1>1, <1>2 DEF IInv, Types, Run, mark
<1> HIDE DEF run
<1>. QED
  BY <1>1, <1>5, <1>6, OutsideStep DEF IInv, Types

\* The row of the school is free: nobody else is inside.
LEMMA IncrementUserCodeInv == ASSUME IInv, NEW r \in Runners, IncrementUserCode(r)
                              PROVE  IInv'
<1>1. PICK n \in ToDo(r) : /\ running[r].pc = "rows"
                           /\ running' = [running EXCEPT ![r].pc = "account", ![r].row = n]
                           /\ SchoolIsFree
                           /\ UNCHANGED <<phone, imported, accounts>>
  BY DEF IncrementUserCode
<1>2. running[r] \in Run /\ running[r].import \in Imports
  BY <1>1 DEF IInv, Types, Placed
<1>3. n \in Names /\ running[r].records \in [Names -> Marks]
  BY <1>1, <1>2 DEF ToDo, Run, Records
<1>4. \A q \in Runners : running'[q] =
        IF q = r THEN [running[r] EXCEPT !.pc = "account", !.row = n] ELSE running[q]
  BY <1>1 DEF IInv, Types, Run
<1>5. Types'
  BY <1>1, <1>2, <1>3 DEF IInv, Types, Run
<1>6. Placed'
  <2> SUFFICES ASSUME NEW q \in Runners
               PROVE  /\ running'[q].pc # "idle" => running'[q].import \in Imports
                      /\ running'[q].pc \in {"account", "parent"} =>
                            /\ running'[q].row \in Names
                            /\ running'[q].records \in [Names -> Marks]
    BY DEF Placed, Inside
  <2>1. CASE q = r
    BY <1>2, <1>3, <1>4, <2>1 DEF Run
  <2>2. CASE q # r
    BY <1>4, <2>2 DEF IInv, Placed, Inside
  <2>. QED
    BY <2>1, <2>2
<1>7. OneInside' /\ LookupStands'
  <2>1. \A q \in Runners : ~Inside(q)
    BY <1>1 DEF SchoolIsFree, Inside
  <2>2. running'[r].pc = "account"
    BY <1>2, <1>4 DEF Run
  <2>. QED
    BY <2>1, <2>2, <1>4 DEF OneInside, LookupStands, Inside
<1>. QED
  BY <1>1, <1>5, <1>6, <1>7 DEF IInv, OneParentAccount

LEMMA FindParentInv == ASSUME IInv, NEW r \in Runners, FindParent(r)
                       PROVE  IInv'
<1> DEFINE family == phone[running[r].row]
           known == family = NoFamily \/ Has("PARENT", family)
<1>1. running[r] \in Run /\ running[r].pc = "account" /\ known \in BOOLEAN
  BY DEF IInv, Types, FindParent
<1>2. /\ running' = [running EXCEPT ![r].pc = "parent", ![r].found = known]
      /\ UNCHANGED <<phone, imported, accounts>>
  BY DEF FindParent
<1> HIDE DEF known
<1>3. \A q \in Runners : running'[q] =
        IF q = r THEN [running[r] EXCEPT !.pc = "parent", !.found = known] ELSE running[q]
  BY <1>2 DEF IInv, Types, Run
<1>4. Types'
  BY <1>1, <1>2 DEF IInv, Types, Run
<1>5. Placed' /\ OneInside'
  <2>1. /\ running'[r].import = running[r].import /\ running'[r].row = running[r].row
        /\ running'[r].records = running[r].records /\ running'[r].pc = "parent"
    BY <1>1, <1>3 DEF Run
  <2>2. \A q \in Runners : /\ running'[q].import = running[q].import
                            /\ running'[q].row = running[q].row
                            /\ running'[q].records = running[q].records
                            /\ Inside(q)' = Inside(q)
                            /\ (running'[q].pc = "idle") = (running[q].pc = "idle")
    BY <1>1, <1>3, <2>1 DEF Inside
  <2>. QED
    BY <2>2 DEF IInv, Placed, OneInside
<1>6. LookupStands'
  <2> SUFFICES ASSUME NEW q \in Runners, running'[q].pc = "parent", ~running'[q].found,
                      phone[running'[q].row] # NoFamily, UNCHANGED accounts
               PROVE  ~Has("PARENT", phone[running'[q].row])
    BY <1>2 DEF LookupStands, Has
  <2>1. CASE q = r
    BY <1>1, <1>3, <2>1 DEF Run, known
  <2>2. CASE q # r
    BY <1>3, <2>2 DEF IInv, LookupStands
  <2>. QED
    BY <2>1, <2>2
<1>. QED
  BY <1>2, <1>4, <1>5, <1>6 DEF IInv, OneParentAccount

\* The accounts of a row: one of its person, and at most one of a parent, whose family
\* has none.
LEMMA MadeAccounts ==
    ASSUME IInv, NEW r \in Runners, running[r].pc = "parent"
    PROVE  /\ Made(r) \in Seq(Account)
           /\ \A m \in DOMAIN Made(r) : Made(r)[m].kind = "PARENT" =>
                 m = 2 /\ ~Has("PARENT", Made(r)[m].who)
<1> DEFINE new == [kind |-> KindOf(running[r].import), who |-> running[r].row]
           parent == [new EXCEPT !.kind = "PARENT", !.who = phone[running[r].row]]
<1>1. running[r].import \in Imports /\ running[r].row \in Names
  BY DEF IInv, Placed, Inside
<1>2. new \in Account /\ new.kind # "PARENT"
  BY <1>1 DEF Account, Kinds, KindOf
<1>3. CASE MadeParent(r)
  <2>1. phone[running[r].row] \in Families /\ ~Has("PARENT", phone[running[r].row])
    BY <1>1, <1>3 DEF MadeParent, IInv, Types, LookupStands
  <2>2. parent \in Account /\ parent.who = phone[running[r].row]
    BY <2>1 DEF Account, Kinds
  <2>3. Made(r) = <<new, parent>>
    BY <1>3 DEF Made
  <2> HIDE DEF new, parent
  <2>. QED
    BY <1>2, <2>1, <2>2, <2>3
<1>4. CASE ~MadeParent(r)
  <2>1. Made(r) = <<new>>
    BY <1>4 DEF Made
  <2> HIDE DEF new
  <2>. QED
    BY <1>2, <2>1
<1>. QED
  BY <1>3, <1>4

LEMMA CommitRowInv == ASSUME IInv, NEW r \in Runners, CommitRow(r)
                      PROVE  IInv'
<1>1. running[r].pc = "parent" /\ Inside(r) /\ "DONE" \in Marks
  BY DEF CommitRow, Inside, Marks
<1>2. PICK run \in Run : /\ running' = [running EXCEPT ![r] = run]
                         /\ run.pc = "rows" /\ run.import \in Imports
  BY <1>1, AfterRow DEF CommitRow
<1> DEFINE made == Made(r)
<1>3. /\ accounts \in Seq(Account) /\ made \in Seq(Account) /\ accounts' = accounts \o made
      /\ \A m \in DOMAIN made : made[m].kind = "PARENT" => m = 2 /\ ~Has("PARENT", made[m].who)
  BY <1>1, MadeAccounts DEF CommitRow, IInv, Types
<1> HIDE DEF made
<1>4. \A q \in Runners : running'[q] = IF q = r THEN run ELSE running[q]
  BY <1>2 DEF IInv, Types
<1>5. Types'
  BY <1>2, <1>3 DEF IInv, Types, CommitRow
<1>6. Placed' /\ OneInside'
  BY <1>2, <1>4 DEF IInv, Placed, OneInside, Inside
<1>7. LookupStands'
  BY <1>1, <1>2, <1>4 DEF IInv, OneInside, LookupStands, Inside
<1>8. OneParentAccount'
  <2> SUFFICES ASSUME NEW m \in DOMAIN accounts', NEW n \in DOMAIN accounts',
                      accounts'[m].kind = "PARENT", accounts'[n].kind = "PARENT",
                      accounts'[m].who = accounts'[n].who
               PROVE  m = n
    BY DEF OneParentAccount
  <2> DEFINE k == Len(accounts)
  <2>1. \A p \in DOMAIN accounts' :
          \/ p \in DOMAIN accounts /\ accounts'[p] = accounts[p]
          \/ p - k \in DOMAIN made /\ accounts'[p] = made[p - k] /\ p \in Nat /\ k \in Nat
    BY <1>3
  <2> HIDE DEF k
  <2>2. CASE m \in DOMAIN accounts /\ n \in DOMAIN accounts
    BY <2>1, <2>2, <1>3 DEF IInv, OneParentAccount
  <2>3. ASSUME NEW p \in DOMAIN accounts', NEW q \in DOMAIN accounts',
               p \in DOMAIN accounts, q \notin DOMAIN accounts,
               accounts'[p].kind = "PARENT", accounts'[q].kind = "PARENT"
        PROVE  accounts'[p].who # accounts'[q].who
    <3>1. accounts[p].kind = "PARENT" /\ accounts[p].who = accounts'[p].who
      BY <1>3, <2>3
    <3>2. ~Has("PARENT", accounts'[q].who)
      BY <1>3, <2>1, <2>3
    <3>. QED
      BY <2>3, <3>1, <3>2 DEF Has
  <2>4. CASE m \notin DOMAIN accounts /\ n \notin DOMAIN accounts
    <3>1. m - k = 2 /\ n - k = 2 /\ m \in Nat /\ n \in Nat /\ k \in Nat
      BY <1>3, <2>1, <2>4
    <3>. QED
      BY <3>1
  <2>. QED
    BY <2>2, <2>3, <2>4
<1>. QED
  BY <1>5, <1>6, <1>7, <1>8 DEF IInv

LEMMA RollBackRowInv == ASSUME IInv, NEW r \in Runners, RollBackRow(r)
                        PROVE  IInv'
<1>1. Inside(r) /\ "ERROR" \in Marks /\ NextRow(r, "ERROR") /\ UNCHANGED <<phone, imported, accounts>>
  BY DEF RollBackRow, Inside, Marks, Verdicts
<1>2. PICK run \in Run : /\ running' = [running EXCEPT ![r] = run]
                         /\ run.pc = "rows" /\ run.import \in Imports
  BY <1>1, AfterRow
<1>. QED
  BY <1>1, <1>2, OutsideStep DEF IInv, Types

LEMMA AskingRun == Asking \in Run /\ Asking.pc = "idle"
  BY DEF Asking, Run, Records

LEMMA CompleteImportInv == ASSUME IInv, NEW r \in Runners, CompleteImport(r)
                           PROVE  IInv'
<1> DEFINE i == running[r].import
           session == [imported[i] EXCEPT !.status = "COMPLETED", !.records = running[r].records]
<1>1. i \in Imports /\ running[r].records \in Records /\ imported[i] \in Session
  BY DEF IInv, Types, Placed, CompleteImport, Run
<1>2. session \in Session
  BY <1>1, SessionUpdate
<1>3. imported' = [imported EXCEPT ![i] = session]
  BY DEF CompleteImport
<1> HIDE DEF i, session
<1>4. imported' \in [Imports -> Session]
  BY <1>2, <1>3 DEF IInv, Types
<1>. QED
  BY <1>4, AskingRun, OutsideStep DEF CompleteImport

LEMMA ImportDiesInv == ASSUME IInv, NEW r \in Runners, ImportDies(r)
                       PROVE  IInv'
  BY AskingRun, OutsideStep DEF ImportDies, IInv, Types

-----------------------------------------------------------------------------
LEMMA NextInv == IInv /\ [ImportsNext]_importVars => IInv'
<1> SUFFICES ASSUME IInv, [ImportsNext]_importVars PROVE IInv'
  OBVIOUS
<1>1. CASE UNCHANGED importVars
  BY <1>1 DEF importVars, IInv, Types, Placed, OneInside, LookupStands, OneParentAccount,
              Inside, Has
<1>2. ASSUME NEW i \in Imports, PreviewImport(i) PROVE IInv'
  BY <1>2, PreviewImportInv
<1>3. ASSUME NEW r \in Runners, Execute(r) PROVE IInv'
  BY <1>3, ReadImportInv, MarkExecutingInv, AssignExistingInv, IncrementUserCodeInv,
     FindParentInv, CommitRowInv, RollBackRowInv, CompleteImportInv, ImportDiesInv DEF Execute
<1>. QED
  BY <1>1, <1>2, <1>3 DEF ImportsNext

LEMMA ImpliedTypes == IInv => ImportsTypeOK
<1> SUFFICES ASSUME IInv PROVE ImportsTypeOK
  OBVIOUS
<1>1. \A i \in Imports : imported[i] \in Session
  BY DEF IInv, Types
<1>2. \A i \in Imports : \A n \in DOMAIN imported[i].records : imported[i].records[n] \in Marks
  BY <1>1 DEF Session, Records
<1>3. \A i \in Imports : imported[i].status \in {"NONE", "PREVIEW", "EXECUTING", "COMPLETED"}
  BY <1>1 DEF Session
<1>4. \A n \in DOMAIN accounts : accounts[n].kind \in Kinds
  <2>1. \A n \in DOMAIN accounts : accounts[n] \in Account
    BY DEF IInv, Types
  <2>. QED
    BY <2>1 DEF Account
<1>. QED
  BY <1>2, <1>3, <1>4 DEF ImportsTypeOK, IInv, Types, Marks, Kinds

THEOREM Invariance == ImportsSpec => []IInv
<1>. QED
  BY InitInv, NextInv, PTL DEF ImportsSpec

\* The sessions, accounts and executions are what they are declared to be.
THEOREM ImportsTypes == ImportsSpec => []ImportsTypeOK
<1>. QED
  BY Invariance, ImpliedTypes, PTL

\* A family has one account of a parent (imports.service.ts:848-915).
THEOREM OneParentTheorem == ImportsSpec => []OneParentAccount
<1>1. IInv => OneParentAccount
  BY DEF IInv
<1>. QED
  BY <1>1, Invariance, PTL

-----------------------------------------------------------------------------
(***************************************************************************)
(* Subjects, sections and teachers                                         *)
(***************************************************************************)

Making == {"sections", "link", "import"}
Teaching == {"replace", "upsert", "execute"}

Places == {"away", "section", "save"} \cup Making \cup Teaching

ClerkRow == [pc : Places,
             subject : SubjectRows \cup {NoRow}, section : SectionRows \cup {NoRow},
             teacher : Teachers \cup {NoRow}, todo : SUBSET (SubjectRows \cup SectionRows)]

StructureTypes ==
    /\ subjectIs \in [SubjectRows -> RowStates]
    /\ sectionIs \in [SectionRows -> RowStates]
    /\ linkIs \in [Links -> RowStates]
    /\ assigned \in [Links -> SUBSET Teachers]
    /\ hour \in [SectionRows -> SubjectRows \cup {NoRow}]
    /\ clerk \in [Clerks -> ClerkRow]
    /\ \A k \in Clerks :
         /\ clerk[k].pc \in Making => clerk[k].subject \in SubjectRows
         /\ clerk[k].pc = "section" => clerk[k].section \in SectionRows
         /\ clerk[k].pc = "execute" => clerk[k].teacher \in Teachers
         /\ clerk[k].pc = "upsert" => clerk[k].teacher \in Teachers
         /\ clerk[k].pc = "replace" => clerk[k].teacher \in Teachers
         /\ clerk[k].pc \in Teaching => <<clerk[k].subject, clerk[k].section>> \in Links

\* A subject is made by one request, and one that is imported is not there yet.
OneMaker ==
    /\ \A j, k \in Clerks : /\ clerk[j].pc \in Making /\ clerk[k].pc \in Making
                            /\ clerk[j].subject = clerk[k].subject
                            => j = k
    /\ \A k \in Clerks : clerk[k].pc = "import" => subjectIs[clerk[k].subject] = "none"

\* What is made at one time is known to be apart; of the rest, each request has read what
\* it has yet to link.
LinksToCome ==
    /\ \A j, k \in Clerks : clerk[j].pc \in Making /\ clerk[k].pc = "section" =>
                               <<clerk[j].subject, clerk[k].section>> \in apart
    /\ \A k \in Clerks : LET b == clerk[k] IN
         /\ b.pc = "link" => \A s \in LiveSections :
               s \in b.todo \/ <<b.subject, s>> \in apart \/ linkIs[<<b.subject, s>>] # "none"
         /\ b.pc = "import" => \A s \in LiveSections : s \in b.todo \/ <<b.subject, s>> \in apart
         /\ b.pc = "section" => \A q \in LiveSubjects : q \in b.todo \/ <<q, b.section>> \in apart

InTheMaking(q) == \E k \in Clerks : clerk[k].pc \in Making /\ clerk[k].subject = q
Reach == \A q \in LiveSubjects, s \in LiveSections :
    <<q, s>> \in apart \/ linkIs[<<q, s>>] # "none" \/ InTheMaking(q)

\* A link that nobody contests is given to a teacher by one request, which finds it free.
OneTeacher == \A p \in Links : p \notin contested =>
    /\ \A t, u \in assigned[p] : t = u
    /\ \A j \in Clerks : clerk[j].pc \in Teaching /\ p = <<clerk[j].subject, clerk[j].section>> =>
         /\ clerk[j].pc # "replace" => assigned[p] = {}
         /\ \A k \in Clerks : clerk[k].pc \in Teaching /\ p = <<clerk[k].subject, clerk[k].section>> => j = k

LinksInv == OneMaker /\ LinksToCome /\ Reach
GInv == StructureTypes /\ LinksInv /\ OneTeacher

-----------------------------------------------------------------------------
(* Requests *)

LEMMA AwayIs == Away \in ClerkRow /\ Away.pc = "away"
  BY DEF Away, ClerkRow, Places

LEMMA ClerkTypes == ASSUME StructureTypes, NEW k \in Clerks
                    PROVE  /\ clerk[k] \in ClerkRow /\ clerk[k].subject \in SubjectRows \cup {NoRow}
                           /\ clerk[k].section \in SectionRows \cup {NoRow}
                           /\ clerk[k].teacher \in Teachers \cup {NoRow}
<1>1. clerk[k] \in ClerkRow
  BY DEF StructureTypes
<1>. QED
  BY <1>1 DEF ClerkRow

\* What a request is once some of its fields are written.
LEMMA FilledPc ==
    ASSUME NEW r \in ClerkRow, NEW pc \in Places
    PROVE  LET b == [r EXCEPT !.pc = pc]
           IN  b \in ClerkRow /\ b.pc = pc /\ b.subject = r.subject /\ b.section = r.section /\ b.teacher = r.teacher
  BY DEF ClerkRow

LEMMA FilledTodo ==
    ASSUME NEW r \in ClerkRow, NEW todo \in SUBSET (SubjectRows \cup SectionRows)
    PROVE  LET b == [r EXCEPT !.todo = todo]
           IN  b \in ClerkRow /\ b.pc = r.pc /\ b.subject = r.subject /\ b.todo = todo
  BY DEF ClerkRow

LEMMA FilledSubject ==
    ASSUME NEW r \in ClerkRow, NEW pc \in Places,
           NEW q \in SubjectRows \cup {NoRow}
    PROVE  LET b == [r EXCEPT !.pc = pc, !.subject = q]
           IN  b \in ClerkRow /\ b.pc = pc /\ b.subject = q
  BY DEF ClerkRow

\* What the sets of the model say of the requests.
LEMMA MakersAre ==
    ASSUME NEW q, NEW s
    PROVE  /\ q \in MakingSubject <=> InTheMaking(q)
           /\ s \in MakingSection <=> \E k \in Clerks : clerk[k].pc = "section" /\ clerk[k].section = s
<1>1. q \in MakingSubject <=> InTheMaking(q)
  BY DEF MakingSubject, Busy, InTheMaking, Making
<1>2. s \in MakingSection <=> \E k \in Clerks : clerk[k].pc = "section" /\ clerk[k].section = s
  BY DEF MakingSection, Busy
<1>. QED
  BY <1>1, <1>2

LEMMA AssigningAre ==
    ASSUME NEW p
    PROVE  p \in Assigning <=>
             \E k \in Clerks : clerk[k].pc \in Teaching /\ p = <<clerk[k].subject, clerk[k].section>>
  BY DEF Assigning, Busy, Teaching

\* One request moves.
LEMMA Moves ==
    ASSUME StructureTypes, NEW k \in Clerks, NEW b \in ClerkRow, clerk' = [clerk EXCEPT ![k] = b],
           b.pc \in Making => b.subject \in SubjectRows,
           b.pc = "section" => b.section \in SectionRows,
           b.pc \in Teaching => b.teacher \in Teachers /\ <<b.subject, b.section>> \in Links,
           subjectIs' \in [SubjectRows -> RowStates], sectionIs' \in [SectionRows -> RowStates],
           linkIs' \in [Links -> RowStates], assigned' \in [Links -> SUBSET Teachers],
           hour' \in [SectionRows -> SubjectRows \cup {NoRow}]
    PROVE  /\ StructureTypes' /\ clerk'[k] = b
           /\ \A j \in Clerks \ {k} : clerk'[j] = clerk[j]
<1>1. clerk' \in [Clerks -> ClerkRow] /\ clerk'[k] = b /\ \A j \in Clerks \ {k} : clerk'[j] = clerk[j]
  BY DEF StructureTypes
<1>2. StructureTypes'
  BY <1>1 DEF StructureTypes, Teaching
<1>. QED
  BY <1>1, <1>2

-----------------------------------------------------------------------------
(* What most steps leave as it is *)

\* Subjects and sections are not added, links are not taken away, and who is making any
\* stays with it.
LEMMA LinksStay ==
    ASSUME StructureTypes, LinksInv, apart \subseteq apart',
           LiveSubjects' \subseteq LiveSubjects, LiveSections' \subseteq LiveSections,
           \A p \in Links : linkIs[p] # "none" => linkIs'[p] # "none",
           \A q \in SubjectRows : subjectIs[q] = "none" => subjectIs'[q] = "none",
           \A j \in Clerks : clerk[j].pc \in Making => clerk'[j] = clerk[j],
           \A j \in Clerks : clerk'[j].pc \in Making \cup {"section"} => clerk'[j] = clerk[j]
    PROVE  LinksInv'
<1>1. OneMaker'
  <2>1. ASSUME NEW j \in Clerks, NEW k \in Clerks, clerk'[j].pc \in Making, clerk'[k].pc \in Making,
               clerk'[j].subject = clerk'[k].subject
        PROVE  j = k
    BY <2>1 DEF LinksInv, OneMaker
  <2>2. ASSUME NEW k \in Clerks, clerk'[k].pc = "import"
        PROVE  subjectIs'[clerk'[k].subject] = "none"
    <3>1. clerk'[k] = clerk[k] /\ clerk[k].subject \in SubjectRows
      BY <2>2 DEF Making, StructureTypes
    <3>. QED
      BY <2>2, <3>1 DEF LinksInv, OneMaker
  <2>. QED
    BY <2>1, <2>2 DEF OneMaker
<1>2. \A q \in SubjectRows, s \in SectionRows : <<q, s>> \in Links
  BY DEF Links
<1>3. LiveSections \subseteq SectionRows /\ LiveSubjects \subseteq SubjectRows
  BY DEF LiveSections, LiveSubjects
<1>4. LinksToCome'
  <2>1. ASSUME NEW j \in Clerks, NEW k \in Clerks, clerk'[j].pc \in Making, clerk'[k].pc = "section"
        PROVE  <<clerk'[j].subject, clerk'[k].section>> \in apart'
    BY <2>1 DEF LinksInv, LinksToCome
  <2>2. ASSUME NEW k \in Clerks, clerk'[k].pc = "link", NEW s \in LiveSections'
        PROVE  \/ s \in clerk'[k].todo \/ <<clerk'[k].subject, s>> \in apart'
               \/ linkIs'[<<clerk'[k].subject, s>>] # "none"
    <3>1. clerk'[k] = clerk[k] /\ s \in LiveSections /\ clerk[k].subject \in SubjectRows
      BY <2>2 DEF Making, StructureTypes
    <3>. QED
      BY <1>2, <1>3, <2>2, <3>1 DEF LinksInv, LinksToCome
  <2>3. ASSUME NEW k \in Clerks, clerk'[k].pc = "import", NEW s \in LiveSections'
        PROVE  s \in clerk'[k].todo \/ <<clerk'[k].subject, s>> \in apart'
    BY <2>3 DEF LinksInv, LinksToCome, Making
  <2>4. ASSUME NEW k \in Clerks, clerk'[k].pc = "section", NEW q \in LiveSubjects'
        PROVE  q \in clerk'[k].todo \/ <<q, clerk'[k].section>> \in apart'
    BY <2>4 DEF LinksInv, LinksToCome
  <2>. QED
    BY <2>1, <2>2, <2>3, <2>4 DEF LinksToCome
<1>5. Reach'
  <2> SUFFICES ASSUME NEW q \in LiveSubjects', NEW s \in LiveSections'
               PROVE  <<q, s>> \in apart' \/ linkIs'[<<q, s>>] # "none" \/ InTheMaking(q)'
    BY DEF Reach
  <2>1. q \in LiveSubjects /\ s \in LiveSections /\ <<q, s>> \in Links
    BY <1>2, <1>3
  <2>2. InTheMaking(q) => InTheMaking(q)'
    BY DEF InTheMaking
  <2>. QED
    BY <2>1, <2>2 DEF LinksInv, Reach
<1>. QED
  BY <1>1, <1>4, <1>5 DEF LinksInv

\* Teachers are taken from links, and nobody begins to give one to any.
LEMMA TeachersStay ==
    ASSUME StructureTypes, OneTeacher, contested' = contested,
           \A p \in Links : assigned'[p] \subseteq assigned[p],
           \A j \in Clerks : clerk'[j].pc \in Teaching => clerk'[j] = clerk[j]
    PROVE  OneTeacher'
<1> SUFFICES ASSUME NEW p \in Links, p \notin contested
             PROVE  /\ \A t, u \in assigned'[p] : t = u
                    /\ \A j \in Clerks :
                         clerk'[j].pc \in Teaching /\ p = <<clerk'[j].subject, clerk'[j].section>> =>
                           /\ clerk'[j].pc # "replace" => assigned'[p] = {}
                           /\ \A k \in Clerks : /\ clerk'[k].pc \in Teaching
                                                /\ p = <<clerk'[k].subject, clerk'[k].section>>
                                                => j = k
  BY DEF OneTeacher
<1>1. \A t, u \in assigned'[p] : t = u
  BY DEF OneTeacher
<1>2. ASSUME NEW j \in Clerks, clerk'[j].pc \in Teaching, p = <<clerk'[j].subject, clerk'[j].section>>
      PROVE  /\ clerk'[j].pc # "replace" => assigned'[p] = {}
             /\ \A k \in Clerks : /\ clerk'[k].pc \in Teaching
                                  /\ p = <<clerk'[k].subject, clerk'[k].section>>
                                  => j = k
  <2>1. clerk'[j] = clerk[j]
    BY <1>2
  <2>2. clerk[j].pc # "replace" => assigned[p] = {}
    BY <1>2, <2>1 DEF OneTeacher
  <2>3. ASSUME NEW k \in Clerks, clerk'[k].pc \in Teaching, p = <<clerk'[k].subject, clerk'[k].section>>
        PROVE  j = k
    BY <1>2, <2>1, <2>3 DEF OneTeacher
  <2>. QED
    BY <2>1, <2>2, <2>3
<1>. QED
  BY <1>1, <1>2

-----------------------------------------------------------------------------
(* Subjects and sections are made *)

\* One request goes on with a subject: what it leaves, and what it brings to life, is linked.
LEMMA MakerMoves ==
    ASSUME StructureTypes, LinksInv, NEW k \in Clerks, NEW b, clerk'[k] = b,
           \A j \in Clerks \ {k} : clerk'[j] = clerk[j],
           LiveSections' = LiveSections, apart \subseteq apart', b.pc # "section",
           b.pc \in Making => b.subject \in SubjectRows,
           \A p \in Links : linkIs[p] # "none" => linkIs'[p] # "none",
           b.pc \in Making => \/ clerk[k].pc \in Making /\ clerk[k].subject = b.subject
                              \/ ~InTheMaking(b.subject),
           b.pc = "import" => subjectIs'[b.subject] = "none",
           b.pc \in Making => \A j \in Clerks :
               clerk[j].pc = "section" => <<b.subject, clerk[j].section>> \in apart',
           b.pc = "link" => \A s \in LiveSections :
               s \in b.todo \/ <<b.subject, s>> \in apart' \/ linkIs'[<<b.subject, s>>] # "none",
           b.pc = "import" => \A s \in LiveSections : s \in b.todo \/ <<b.subject, s>> \in apart',
           \A q \in SubjectRows : \/ subjectIs'[q] = subjectIs[q]
                                  \/ /\ \A j \in Clerks \ {k} : clerk[j].pc \in Making => clerk[j].subject # q
                                     /\ \A j \in Clerks : clerk[j].pc = "section" => <<q, clerk[j].section>> \in apart',
           \A q \in LiveSubjects', s \in LiveSections :
               q \notin LiveSubjects \/ (clerk[k].pc \in Making /\ clerk[k].subject = q) =>
                 \/ <<q, s>> \in apart' \/ linkIs'[<<q, s>>] # "none"
                 \/ b.pc \in Making /\ b.subject = q
    PROVE  LinksInv'
<1>1. OneMaker'
  <2>1. ASSUME NEW j \in Clerks, NEW i \in Clerks, clerk'[j].pc \in Making, clerk'[i].pc \in Making,
               clerk'[j].subject = clerk'[i].subject
        PROVE  j = i
    BY <2>1 DEF LinksInv, OneMaker, InTheMaking
  <2>2. ASSUME NEW j \in Clerks, clerk'[j].pc = "import", j # k
        PROVE  subjectIs'[clerk'[j].subject] = "none"
    <3>1. clerk'[j] = clerk[j] /\ clerk[j].subject \in SubjectRows /\ clerk[j].pc \in Making
      BY <2>2 DEF Making, StructureTypes
    <3>. QED
      BY <2>2, <3>1 DEF LinksInv, OneMaker
  <2>. QED
    BY <2>1, <2>2 DEF OneMaker
<1>2. \A q \in SubjectRows, s \in SectionRows : <<q, s>> \in Links
  BY DEF Links
<1>3. LiveSections \subseteq SectionRows /\ LiveSubjects \subseteq SubjectRows
  BY DEF LiveSections, LiveSubjects
<1>4. LinksToCome'
  <2>1. ASSUME NEW j \in Clerks, NEW i \in Clerks, clerk'[j].pc \in Making, clerk'[i].pc = "section"
        PROVE  <<clerk'[j].subject, clerk'[i].section>> \in apart'
    <3>1. clerk'[i] = clerk[i]
      BY <2>1
    <3>2. CASE j = k
      BY <2>1, <3>1, <3>2
    <3>3. CASE j # k
      BY <2>1, <3>1, <3>3 DEF LinksInv, LinksToCome
    <3>. QED
      BY <3>2, <3>3
  <2>2. ASSUME NEW j \in Clerks, clerk'[j].pc = "link", NEW s \in LiveSections
        PROVE  \/ s \in clerk'[j].todo \/ <<clerk'[j].subject, s>> \in apart'
               \/ linkIs'[<<clerk'[j].subject, s>>] # "none"
    <3>1. CASE j = k
      BY <2>2, <3>1
    <3>2. CASE j # k
      <4>1. clerk'[j] = clerk[j] /\ clerk[j].subject \in SubjectRows /\ s \in SectionRows
        BY <1>3, <2>2, <3>2 DEF Making, StructureTypes
      <4>. QED
        BY <1>2, <2>2, <4>1 DEF LinksInv, LinksToCome
    <3>. QED
      BY <3>1, <3>2
  <2>3. ASSUME NEW j \in Clerks, clerk'[j].pc = "import", NEW s \in LiveSections
        PROVE  s \in clerk'[j].todo \/ <<clerk'[j].subject, s>> \in apart'
    BY <2>3 DEF LinksInv, LinksToCome
  <2>4. ASSUME NEW j \in Clerks, clerk'[j].pc = "section", NEW q \in LiveSubjects'
        PROVE  q \in clerk'[j].todo \/ <<q, clerk'[j].section>> \in apart'
    <3>1. clerk'[j] = clerk[j] /\ q \in SubjectRows /\ subjectIs'[q] = "live"
      BY <2>4 DEF LiveSubjects
    <3>2. CASE subjectIs'[q] = subjectIs[q]
      BY <2>4, <3>1, <3>2 DEF LinksInv, LinksToCome, LiveSubjects
    <3>3. CASE subjectIs'[q] # subjectIs[q]
      BY <2>4, <3>1, <3>3
    <3>. QED
      BY <3>2, <3>3
  <2>. QED
    BY <2>1, <2>2, <2>3, <2>4 DEF LinksToCome
<1>5. Reach'
  <2> SUFFICES ASSUME NEW q \in LiveSubjects', NEW s \in LiveSections
               PROVE  <<q, s>> \in apart' \/ linkIs'[<<q, s>>] # "none" \/ InTheMaking(q)'
    BY DEF Reach
  <2>1. b.pc \in Making /\ b.subject = q => InTheMaking(q)'
    BY DEF InTheMaking
  <2>2. CASE q \notin LiveSubjects \/ (clerk[k].pc \in Making /\ clerk[k].subject = q)
    BY <2>1, <2>2
  <2>3. CASE q \in LiveSubjects /\ ~(clerk[k].pc \in Making /\ clerk[k].subject = q)
    <3>1. InTheMaking(q) => InTheMaking(q)'
      BY <2>3 DEF InTheMaking
    <3>2. <<q, s>> \in Links
      BY <1>2, <1>3, <2>3
    <3>. QED
      BY <2>3, <3>1, <3>2 DEF LinksInv, Reach
  <2>. QED
    BY <2>2, <2>3
<1>. QED
  BY <1>1, <1>4, <1>5 DEF LinksInv

LEMMA InsertSubjectInv == ASSUME GInv, NEW k \in Clerks, InsertSubject(k) PROVE GInv'
<1>1. PICK q \in SubjectRows :
        /\ subjectIs[q] = "none" /\ q \notin MakingSubject /\ clerk[k] = Away
        /\ clerk' = [clerk EXCEPT ![k] = [Away EXCEPT !.pc = "sections", !.subject = q]]
        /\ subjectIs' = [subjectIs EXCEPT ![q] = "live"]
        /\ apart' = apart \cup ({q} \X MakingSection)
        /\ UNCHANGED <<sectionIs, linkIs, assigned, everAssigned, hour, contested>>
  BY DEF InsertSubject, Comes, SameHours
<1> DEFINE b == [Away EXCEPT !.pc = "sections", !.subject = q]
<1>2. b \in ClerkRow /\ b.pc = "sections" /\ b.subject = q
  BY AwayIs, FilledSubject DEF Making, Places
<1>. HIDE DEF b
<1>3. /\ StructureTypes /\ LinksInv /\ OneTeacher
      /\ subjectIs \in [SubjectRows -> RowStates] /\ "live" \in RowStates
  BY DEF GInv, StructureTypes, RowStates
<1>4. StructureTypes' /\ clerk'[k] = b /\ \A j \in Clerks \ {k} : clerk'[j] = clerk[j]
  <2>1. clerk' = [clerk EXCEPT ![k] = b]
    BY <1>1 DEF b
  <2>2. subjectIs' \in [SubjectRows -> RowStates]
    BY <1>1, <1>3
  <2>. QED
    BY <1>1, <1>2, <1>3, <2>1, <2>2, Moves DEF Teaching, StructureTypes
<1>5. ~InTheMaking(q) /\ \A j \in Clerks : clerk[j].pc = "section" => <<q, clerk[j].section>> \in apart'
  BY <1>1, MakersAre
<1>6. \A j \in Clerks : clerk[j].pc \in Making => clerk[j].subject # q
  BY <1>5 DEF InTheMaking
<1>7. /\ LiveSections' = LiveSections
      /\ \A r \in SubjectRows : r # q => subjectIs'[r] = subjectIs[r]
      /\ \A r \in LiveSubjects' : r \in LiveSubjects \/ r = q
  BY <1>1, <1>3 DEF LiveSections, LiveSubjects
<1>8. LinksInv'
  <2>1. clerk[k].pc \notin Making
    BY <1>1, AwayIs DEF Making
  <2>2. b.pc \in Making
    BY <1>2 DEF Making
  <2>. QED
    BY <1>1, <1>2, <1>3, <1>4, <1>5, <1>6, <1>7, <2>1, <2>2, MakerMoves
<1>9. OneTeacher'
  BY <1>1, <1>2, <1>3, <1>4, TeachersStay DEF Teaching
<1>. QED
  BY <1>4, <1>8, <1>9 DEF GInv

LEMMA ReadSectionsInv == ASSUME GInv, NEW k \in Clerks, ReadSections(k) PROVE GInv'
<1> DEFINE b == [clerk[k] EXCEPT !.pc = "link", !.todo = LiveSections]
<1>1. /\ clerk[k].pc = "sections" /\ clerk' = [clerk EXCEPT ![k] = b]
      /\ UNCHANGED <<subjectIs, sectionIs, linkIs, assigned, everAssigned, hour, contested, apart>>
  BY DEF ReadSections, At, SameRows, SameHours
<1>2. StructureTypes /\ LinksInv /\ OneTeacher /\ clerk[k] \in ClerkRow /\ clerk[k].subject \in SubjectRows
  BY <1>1, ClerkTypes DEF GInv, StructureTypes, Making
<1>3. b \in ClerkRow /\ b.pc = "link" /\ b.subject = clerk[k].subject /\ b.todo = LiveSections
  <2> DEFINE todo == LiveSections
  <2>1. todo \in SUBSET (SubjectRows \cup SectionRows)
    BY DEF LiveSections
  <2>2. "link" \in Places
    BY DEF Places, Making
  <2>. HIDE DEF todo
  <2>3. LET c == [clerk[k] EXCEPT !.pc = "link", !.todo = todo]
        IN  c \in ClerkRow /\ c.pc = "link" /\ c.subject = clerk[k].subject /\ c.todo = todo
    BY <1>2, <2>1, <2>2 DEF ClerkRow
  <2>. QED
    BY <2>3 DEF todo
<1>. HIDE DEF b
<1>4. StructureTypes' /\ clerk'[k] = b /\ \A j \in Clerks \ {k} : clerk'[j] = clerk[j]
  BY <1>1, <1>2, <1>3, Moves DEF Teaching, StructureTypes
<1>5. LiveSections' = LiveSections /\ LiveSubjects' = LiveSubjects
  BY <1>1 DEF LiveSections, LiveSubjects
<1>6. LinksInv'
  <2>1. clerk[k].pc \in Making /\ b.pc \in Making
    BY <1>1, <1>3 DEF Making
  <2>2. \A j \in Clerks : clerk[j].pc = "section" => <<b.subject, clerk[j].section>> \in apart
    BY <1>2, <1>3, <2>1 DEF LinksInv, LinksToCome
  <2>. QED
    BY <1>1, <1>2, <1>3, <1>4, <1>5, <2>1, <2>2, MakerMoves
<1>7. OneTeacher'
  BY <1>1, <1>2, <1>3, <1>4, TeachersStay DEF Teaching
<1>. QED
  BY <1>4, <1>6, <1>7 DEF GInv

LEMMA LinkNextInv == ASSUME GInv, NEW k \in Clerks, LinkNext(k) PROVE GInv'
<1> DEFINE q == clerk[k].subject
<1>1. PICK s \in clerk[k].todo :
        /\ clerk[k].pc = "link"
        /\ linkIs' = [linkIs EXCEPT ![<<q, s>>] = IF @ = "none" THEN "live" ELSE @]
        /\ IF linkIs[<<q, s>>] = "none"
           THEN /\ clerk' = [clerk EXCEPT ![k] = [clerk[k] EXCEPT !.todo = @ \ {s}]] /\ apart' = apart
           ELSE /\ clerk' = [clerk EXCEPT ![k] = Away]
                /\ apart' = apart \cup ({q} \X clerk[k].todo)
        /\ UNCHANGED <<subjectIs, sectionIs, assigned, everAssigned, hour, contested>>
  BY DEF LinkNext, At, Goes, SameHours
<1>2. /\ StructureTypes /\ LinksInv /\ OneTeacher /\ clerk[k] \in ClerkRow /\ q \in SubjectRows
      /\ linkIs \in [Links -> RowStates] /\ "live" \in RowStates
  BY <1>1, ClerkTypes DEF GInv, StructureTypes, Making, RowStates
<1>3. /\ linkIs' \in [Links -> RowStates]
      /\ \A p \in Links : /\ p # <<q, s>> => linkIs'[p] = linkIs[p]
                          /\ p = <<q, s>> => linkIs'[p] # "none"
                          /\ linkIs[p] # "none" => linkIs'[p] # "none"
  BY <1>1, <1>2
<1>4. LiveSections' = LiveSections /\ LiveSubjects' = LiveSubjects
  BY <1>1 DEF LiveSections, LiveSubjects
<1>5. /\ \A x \in LiveSections : <<q, x>> \in Links
      /\ \A x \in LiveSections : x \in clerk[k].todo \/ <<q, x>> \in apart \/ linkIs[<<q, x>>] # "none"
      /\ clerk[k].pc \in Making
  BY <1>1, <1>2 DEF LinksInv, LinksToCome, Links, LiveSections, Making
<1>6. CASE linkIs[<<q, s>>] = "none"
  <2> DEFINE b == [clerk[k] EXCEPT !.todo = clerk[k].todo \ {s}]
  <2>1. b \in ClerkRow /\ b.pc = "link" /\ b.subject = q /\ b.todo = clerk[k].todo \ {s}
    <3>1. clerk[k].todo \ {s} \in SUBSET (SubjectRows \cup SectionRows)
      BY <1>2 DEF ClerkRow
    <3>. QED
      BY <1>1, <1>2, <3>1, FilledTodo
  <2>2. clerk' = [clerk EXCEPT ![k] = b] /\ apart' = apart
    BY <1>1, <1>6
  <2>. HIDE DEF b, q
  <2>3. StructureTypes' /\ clerk'[k] = b /\ \A j \in Clerks \ {k} : clerk'[j] = clerk[j]
    BY <1>1, <1>2, <1>3, <2>1, <2>2, Moves DEF Teaching, StructureTypes
  <2>4. LinksInv'
    <3>1. b.pc \in Making
      BY <2>1 DEF Making
    <3>2. \A j \in Clerks : clerk[j].pc = "section" => <<b.subject, clerk[j].section>> \in apart
      BY <1>2, <1>5, <2>1 DEF LinksInv, LinksToCome, q
    <3>3. \A x \in LiveSections :
            x \in b.todo \/ <<b.subject, x>> \in apart' \/ linkIs'[<<b.subject, x>>] # "none"
      BY <1>3, <1>5, <2>1, <2>2
    <3>4. clerk[k].subject = b.subject
      BY <2>1 DEF q
    <3>5. /\ subjectIs' = subjectIs /\ apart \subseteq apart' /\ b.pc = "link" /\ b.subject \in SubjectRows
          /\ \A p \in Links : linkIs[p] # "none" => linkIs'[p] # "none"
          /\ \A j \in Clerks : clerk[j].pc = "section" => <<b.subject, clerk[j].section>> \in apart'
      BY <1>1, <1>2, <1>3, <2>1, <2>2, <3>2
    <3>. QED
      BY <1>2, <1>4, <1>5, <2>3, <3>1, <3>3, <3>4, <3>5, MakerMoves
  <2>5. OneTeacher'
    BY <1>1, <1>2, <2>1, <2>3, TeachersStay DEF Teaching
  <2>. QED
    BY <2>3, <2>4, <2>5 DEF GInv
<1>7. CASE linkIs[<<q, s>>] # "none"
  <2>1. clerk' = [clerk EXCEPT ![k] = Away] /\ apart' = apart \cup ({q} \X clerk[k].todo)
    BY <1>1, <1>7
  <2>2. StructureTypes' /\ clerk'[k] = Away /\ \A j \in Clerks \ {k} : clerk'[j] = clerk[j]
    BY <1>1, <1>2, <1>3, <2>1, AwayIs, Moves DEF Teaching, Making, StructureTypes
  <2>3. Away.pc \notin Making \cup Teaching \cup {"link", "import", "section"}
    BY AwayIs DEF Making, Teaching
  <2>4. \A x \in LiveSections : <<q, x>> \in apart' \/ linkIs'[<<q, x>>] # "none"
    BY <1>3, <1>5, <2>1
  <2>5. LinksInv'
    BY <1>1, <1>2, <1>3, <1>4, <2>1, <2>2, <2>3, <2>4, MakerMoves
  <2>6. OneTeacher'
    BY <1>1, <1>2, <2>2, <2>3, TeachersStay
  <2>. QED
    BY <2>2, <2>5, <2>6 DEF GInv
<1>. QED
  BY <1>6, <1>7

LEMMA BeginImportInv == ASSUME GInv, NEW k \in Clerks, BeginImport(k) PROVE GInv'
<1>1. PICK q \in SubjectRows :
        /\ subjectIs[q] = "none" /\ q \notin MakingSubject /\ clerk[k] = Away
        /\ clerk' = [clerk EXCEPT ![k] = [Away EXCEPT !.pc = "import", !.subject = q, !.todo = LiveSections]]
        /\ apart' = apart \cup ({q} \X MakingSection)
        /\ UNCHANGED <<subjectIs, sectionIs, linkIs, assigned, everAssigned, hour, contested>>
  BY DEF BeginImport, Comes, SameRows, SameHours
<1> DEFINE b == [Away EXCEPT !.pc = "import", !.subject = q, !.todo = LiveSections]
<1>2. b \in ClerkRow /\ b.pc = "import" /\ b.subject = q /\ b.todo = LiveSections
  <2> DEFINE todo == LiveSections
  <2>1. todo \in SUBSET (SubjectRows \cup SectionRows)
    BY DEF LiveSections
  <2>2. "import" \in Places
    BY DEF Places, Making
  <2>. HIDE DEF todo
  <2>3. LET c == [Away EXCEPT !.pc = "import", !.subject = q, !.todo = todo]
        IN  c \in ClerkRow /\ c.pc = "import" /\ c.subject = q /\ c.todo = todo
    BY <1>1, <2>1, <2>2, AwayIs DEF ClerkRow
  <2>. QED
    BY <2>3 DEF todo
<1>3. StructureTypes /\ LinksInv /\ OneTeacher /\ clerk' = [clerk EXCEPT ![k] = b]
  BY <1>1 DEF GInv
<1>. HIDE DEF b
<1>4. StructureTypes' /\ clerk'[k] = b /\ \A j \in Clerks \ {k} : clerk'[j] = clerk[j]
  BY <1>1, <1>2, <1>3, Moves DEF Teaching, StructureTypes
<1>5. ~InTheMaking(q) /\ \A j \in Clerks : clerk[j].pc = "section" => <<q, clerk[j].section>> \in apart'
  BY <1>1, MakersAre
<1>6. LiveSections' = LiveSections /\ LiveSubjects' = LiveSubjects
  BY <1>1 DEF LiveSections, LiveSubjects
<1>7. LinksInv'
  <2>1. clerk[k].pc \notin Making /\ b.pc \in Making
    BY <1>1, <1>2, AwayIs DEF Making
  <2>. QED
    BY <1>1, <1>2, <1>3, <1>4, <1>5, <1>6, <2>1, MakerMoves
<1>8. OneTeacher'
  BY <1>1, <1>2, <1>3, <1>4, TeachersStay DEF Teaching
<1>. QED
  BY <1>4, <1>7, <1>8 DEF GInv

LEMMA ImportFromDictionaryInv == ASSUME GInv, NEW k \in Clerks, ImportFromDictionary(k) PROVE GInv'
<1> DEFINE q == clerk[k].subject
           todo == clerk[k].todo
<1>1. /\ clerk[k].pc = "import" /\ clerk' = [clerk EXCEPT ![k] = Away]
      /\ subjectIs' = [subjectIs EXCEPT ![q] = "live"]
      /\ linkIs' = [p \in Links |-> IF p \in {q} \X todo THEN "live" ELSE linkIs[p]]
      /\ UNCHANGED <<sectionIs, assigned, everAssigned, hour, contested, apart>>
  BY DEF ImportFromDictionary, Goes, At, SameHours
<1>2. /\ StructureTypes /\ LinksInv /\ OneTeacher /\ clerk[k].pc \in Making /\ q \in SubjectRows
      /\ linkIs \in [Links -> RowStates] /\ subjectIs \in [SubjectRows -> RowStates] /\ "live" \in RowStates
  BY <1>1 DEF GInv, StructureTypes, Making, RowStates
<1>3. \A j \in Clerks \ {k} : clerk[j].pc \in Making => clerk[j].subject # q
  BY <1>2 DEF LinksInv, OneMaker
<1>4. /\ \A j \in Clerks : clerk[j].pc = "section" => <<q, clerk[j].section>> \in apart
      /\ \A s \in LiveSections : s \in todo \/ <<q, s>> \in apart
  BY <1>1, <1>2 DEF LinksInv, LinksToCome
<1>5. \A s \in LiveSections : <<q, s>> \in Links
  BY <1>2 DEF Links, LiveSections
<1>. HIDE DEF q, todo
<1>6. /\ linkIs' \in [Links -> RowStates] /\ subjectIs' \in [SubjectRows -> RowStates]
      /\ \A p \in Links : linkIs[p] # "none" => linkIs'[p] # "none"
      /\ \A s \in LiveSections : <<q, s>> \in apart \/ linkIs'[<<q, s>>] # "none"
      /\ \A r \in SubjectRows : r # q => subjectIs'[r] = subjectIs[r]
  BY <1>1, <1>2, <1>4, <1>5
<1>7. /\ LiveSections' = LiveSections /\ \A r \in LiveSubjects' : r \in LiveSubjects \/ r = q
  BY <1>1, <1>2 DEF LiveSections, LiveSubjects
<1>8. StructureTypes' /\ clerk'[k] = Away /\ \A j \in Clerks \ {k} : clerk'[j] = clerk[j]
  BY <1>1, <1>2, <1>6, AwayIs, Moves DEF Teaching, Making, StructureTypes
<1>9. Away.pc \notin Making \cup Teaching \cup {"link", "import", "section"}
  BY AwayIs DEF Making, Teaching
<1>10. LinksInv'
  <2>1. clerk[k].subject = q
    BY DEF q
  <2>. QED
    BY <1>1, <1>2, <1>3, <1>4, <1>6, <1>7, <1>8, <1>9, <2>1, MakerMoves
<1>11. OneTeacher'
  BY <1>1, <1>2, <1>8, <1>9, TeachersStay
<1>. QED
  BY <1>8, <1>10, <1>11 DEF GInv

\* A request leaves: what it was making is linked, or is known to be apart.
LEMMA LeavesInv ==
    ASSUME GInv, NEW k \in Clerks, Goes(k), SameRows, SameHours, apart \subseteq apart',
           clerk[k].pc \in Making => \A s \in LiveSections :
               \/ <<clerk[k].subject, s>> \in apart' \/ linkIs[<<clerk[k].subject, s>>] # "none"
               \/ subjectIs[clerk[k].subject] = "none"
    PROVE  GInv'
<1>1. /\ clerk' = [clerk EXCEPT ![k] = Away] /\ StructureTypes /\ LinksInv /\ OneTeacher
      /\ UNCHANGED <<subjectIs, sectionIs, linkIs, assigned, everAssigned, hour, contested>>
  BY DEF Goes, At, SameRows, SameHours, GInv
<1>2. StructureTypes' /\ clerk'[k] = Away /\ \A j \in Clerks \ {k} : clerk'[j] = clerk[j]
  BY <1>1, AwayIs, Moves DEF Teaching, Making, StructureTypes
<1>3. Away.pc \notin Making \cup Teaching \cup {"link", "import", "section"}
  BY AwayIs DEF Making, Teaching
<1>4. LiveSections' = LiveSections /\ LiveSubjects' = LiveSubjects
  BY <1>1 DEF LiveSections, LiveSubjects
<1>5. \A q \in LiveSubjects : subjectIs[q] # "none"
  BY DEF LiveSubjects
<1>6. LinksInv'
  BY <1>1, <1>2, <1>3, <1>4, <1>5, MakerMoves
<1>7. OneTeacher'
  BY <1>1, <1>2, <1>3, TeachersStay
<1>. QED
  BY <1>2, <1>6, <1>7 DEF GInv

LEMMA SubjectCreatedInv == ASSUME GInv, NEW k \in Clerks, SubjectCreated(k) PROVE GInv'
<1>1. /\ clerk[k].pc = "link" /\ clerk[k].todo = {} /\ Goes(k) /\ SameRows /\ SameHours /\ apart' = apart
  BY DEF SubjectCreated
<1>2. \A s \in LiveSections : <<clerk[k].subject, s>> \in apart \/ linkIs[<<clerk[k].subject, s>>] # "none"
  BY <1>1 DEF GInv, LinksInv, LinksToCome
<1>. QED
  BY <1>1, <1>2, LeavesInv

LEMMA StopsInv == ASSUME GInv, NEW k \in Clerks, Stops(k) PROVE GInv'
<1>1. /\ Goes(k) /\ SameRows /\ SameHours
      /\ apart' = IF clerk[k].pc \in {"sections", "link"}
                  THEN apart \cup {p \in Links : p[1] = clerk[k].subject /\ linkIs[p] = "none"}
                  ELSE apart
  BY DEF Stops
<1>2. ASSUME clerk[k].pc \in Making, NEW s \in LiveSections
      PROVE  \/ <<clerk[k].subject, s>> \in apart' \/ linkIs[<<clerk[k].subject, s>>] # "none"
             \/ subjectIs[clerk[k].subject] = "none"
  <2>1. CASE clerk[k].pc = "import"
    BY <2>1 DEF GInv, LinksInv, OneMaker
  <2>2. CASE clerk[k].pc # "import"
    <3>1. <<clerk[k].subject, s>> \in Links
      BY <1>2 DEF GInv, StructureTypes, Links, LiveSections
    <3>. QED
      BY <1>1, <1>2, <2>2, <3>1 DEF Making
  <2>. QED
    BY <2>1, <2>2
<1>. QED
  BY <1>1, <1>2, LeavesInv

LEMMA BeginSectionInv == ASSUME GInv, NEW k \in Clerks, BeginSection(k) PROVE GInv'
<1>1. PICK s \in SectionRows :
        /\ sectionIs[s] = "none" /\ s \notin MakingSection /\ clerk[k] = Away
        /\ clerk' = [clerk EXCEPT ![k] = [Away EXCEPT !.pc = "section", !.section = s, !.todo = LiveSubjects]]
        /\ apart' = apart \cup (MakingSubject \X {s})
        /\ UNCHANGED <<subjectIs, sectionIs, linkIs, assigned, everAssigned, hour, contested>>
  BY DEF BeginSection, Comes, SameRows, SameHours
<1> DEFINE b == [Away EXCEPT !.pc = "section", !.section = s, !.todo = LiveSubjects]
<1>2. b \in ClerkRow /\ b.pc = "section" /\ b.section = s /\ b.todo = LiveSubjects
  <2> DEFINE todo == LiveSubjects
  <2>1. todo \in SUBSET (SubjectRows \cup SectionRows)
    BY DEF LiveSubjects
  <2>2. "section" \in Places
    BY DEF Places
  <2>. HIDE DEF todo
  <2>3. LET c == [Away EXCEPT !.pc = "section", !.section = s, !.todo = todo]
        IN  c \in ClerkRow /\ c.pc = "section" /\ c.section = s /\ c.todo = todo
    BY <1>1, <2>1, <2>2, AwayIs DEF ClerkRow
  <2>. QED
    BY <2>3 DEF todo
<1>3. StructureTypes /\ LinksInv /\ OneTeacher /\ clerk' = [clerk EXCEPT ![k] = b]
  BY <1>1 DEF GInv
<1>. HIDE DEF b
<1>4. StructureTypes' /\ clerk'[k] = b /\ \A j \in Clerks \ {k} : clerk'[j] = clerk[j]
  BY <1>1, <1>2, <1>3, Moves DEF Making, Teaching, StructureTypes
<1>5. \A j \in Clerks : clerk[j].pc \in Making => <<clerk[j].subject, s>> \in apart'
  BY <1>1, MakersAre DEF InTheMaking
<1>6. /\ LiveSections' = LiveSections /\ LiveSubjects' = LiveSubjects /\ apart \subseteq apart'
      /\ b.pc \notin Making /\ clerk[k].pc \notin Making /\ b.pc # "link" /\ b.pc # "import"
  BY <1>1, <1>2, AwayIs DEF LiveSections, LiveSubjects, Making
<1>7. OneMaker'
  BY <1>1, <1>3, <1>4, <1>6 DEF LinksInv, OneMaker
<1>8. LinksToCome'
  <2>1. ASSUME NEW j \in Clerks, NEW i \in Clerks, clerk'[j].pc \in Making, clerk'[i].pc = "section"
        PROVE  <<clerk'[j].subject, clerk'[i].section>> \in apart'
    <3>1. j # k /\ clerk'[j] = clerk[j]
      BY <1>4, <1>6, <2>1
    <3>2. CASE i = k
      BY <1>2, <1>4, <1>5, <2>1, <3>1, <3>2
    <3>3. CASE i # k
      BY <1>3, <1>4, <1>6, <2>1, <3>1, <3>3 DEF LinksInv, LinksToCome
    <3>. QED
      BY <3>2, <3>3
  <2>2. ASSUME NEW i \in Clerks, clerk'[i].pc = "link", NEW x \in LiveSections
        PROVE  \/ x \in clerk'[i].todo \/ <<clerk'[i].subject, x>> \in apart'
               \/ linkIs'[<<clerk'[i].subject, x>>] # "none"
    BY <1>1, <1>3, <1>4, <1>6, <2>2 DEF LinksInv, LinksToCome
  <2>3. ASSUME NEW i \in Clerks, clerk'[i].pc = "import", NEW x \in LiveSections
        PROVE  x \in clerk'[i].todo \/ <<clerk'[i].subject, x>> \in apart'
    BY <1>3, <1>4, <1>6, <2>3 DEF LinksInv, LinksToCome
  <2>4. ASSUME NEW i \in Clerks, clerk'[i].pc = "section", NEW q \in LiveSubjects
        PROVE  q \in clerk'[i].todo \/ <<q, clerk'[i].section>> \in apart'
    BY <1>2, <1>3, <1>4, <1>6, <2>4 DEF LinksInv, LinksToCome
  <2>. QED
    BY <1>6, <2>1, <2>2, <2>3, <2>4 DEF LinksToCome
<1>9. Reach'
  <2>1. \A q : InTheMaking(q) => InTheMaking(q)'
    BY <1>4, <1>6 DEF InTheMaking
  <2>. QED
    BY <1>1, <1>3, <1>6, <2>1 DEF LinksInv, Reach
<1>10. OneTeacher'
  BY <1>1, <1>2, <1>3, <1>4, TeachersStay DEF Teaching
<1>. QED
  BY <1>4, <1>7, <1>8, <1>9, <1>10 DEF GInv, LinksInv

LEMMA CreateSectionInv == ASSUME GInv, NEW k \in Clerks, CreateSection(k) PROVE GInv'
<1> DEFINE s == clerk[k].section
           todo == clerk[k].todo
<1>1. /\ clerk[k].pc = "section" /\ clerk' = [clerk EXCEPT ![k] = Away]
      /\ sectionIs' = [sectionIs EXCEPT ![s] = "live"]
      /\ linkIs' = [p \in Links |-> IF p \in todo \X {s} THEN "live" ELSE linkIs[p]]
      /\ UNCHANGED <<subjectIs, assigned, everAssigned, hour, contested, apart>>
  BY DEF CreateSection, Goes, At, SameHours
<1>2. /\ StructureTypes /\ LinksInv /\ OneTeacher /\ s \in SectionRows
      /\ linkIs \in [Links -> RowStates] /\ sectionIs \in [SectionRows -> RowStates] /\ "live" \in RowStates
  BY <1>1 DEF GInv, StructureTypes, RowStates
<1>3. /\ \A j \in Clerks : clerk[j].pc \in Making => <<clerk[j].subject, s>> \in apart
      /\ \A q \in LiveSubjects : q \in todo \/ <<q, s>> \in apart
  BY <1>1, <1>2 DEF LinksInv, LinksToCome
<1>4. \A q \in LiveSubjects : <<q, s>> \in Links
  BY <1>2 DEF Links, LiveSubjects
<1>. HIDE DEF s, todo
<1>5. /\ linkIs' \in [Links -> RowStates] /\ sectionIs' \in [SectionRows -> RowStates]
      /\ \A p \in Links : linkIs[p] # "none" => linkIs'[p] # "none"
      /\ \A q \in LiveSubjects : <<q, s>> \in apart \/ linkIs'[<<q, s>>] # "none"
  BY <1>1, <1>2, <1>3, <1>4
<1>6. /\ LiveSubjects' = LiveSubjects /\ \A x \in LiveSections' : x \in LiveSections \/ x = s
      /\ \A q \in SubjectRows, x \in LiveSections : <<q, x>> \in Links
      /\ LiveSubjects \subseteq SubjectRows
  BY <1>1, <1>2 DEF LiveSections, LiveSubjects, Links
<1>7. StructureTypes' /\ clerk'[k] = Away /\ \A j \in Clerks \ {k} : clerk'[j] = clerk[j]
  BY <1>1, <1>2, <1>5, AwayIs, Moves DEF Teaching, Making, StructureTypes
<1>8. /\ Away.pc \notin Making \cup Teaching \cup {"link", "import", "section"}
      /\ clerk[k].pc \notin Making
  BY <1>1, AwayIs DEF Making, Teaching
<1>9. OneMaker'
  BY <1>1, <1>2, <1>7, <1>8 DEF LinksInv, OneMaker
<1>10. LinksToCome'
  <2>0. LinksToCome /\ apart' = apart
    BY <1>1, <1>2 DEF LinksInv
  <2>1. ASSUME NEW j \in Clerks, NEW i \in Clerks, clerk'[j].pc \in Making, clerk'[i].pc = "section"
        PROVE  <<clerk'[j].subject, clerk'[i].section>> \in apart'
    <3>1. clerk'[j] = clerk[j] /\ clerk'[i] = clerk[i]
      BY <1>7, <1>8, <2>1
    <3>. QED
      BY <2>0, <2>1, <3>1 DEF LinksToCome
  <2>2. ASSUME NEW i \in Clerks, clerk'[i].pc = "link", NEW x \in LiveSections'
        PROVE  \/ x \in clerk'[i].todo \/ <<clerk'[i].subject, x>> \in apart'
               \/ linkIs'[<<clerk'[i].subject, x>>] # "none"
    <3>1. clerk'[i] = clerk[i] /\ clerk[i].pc \in Making
      BY <1>7, <1>8, <2>2 DEF Making
    <3>2. CASE x = s
      BY <1>1, <1>3, <3>1, <3>2
    <3>3. CASE x \in LiveSections
      <4>1. clerk[i].subject \in SubjectRows
        BY <1>2, <3>1 DEF StructureTypes
      <4>2. <<clerk[i].subject, x>> \in Links
        BY <1>6, <3>3, <4>1
      <4>. QED
        BY <1>5, <2>0, <2>2, <3>1, <3>3, <4>2 DEF LinksToCome
    <3>. QED
      BY <1>6, <3>2, <3>3
  <2>3. ASSUME NEW i \in Clerks, clerk'[i].pc = "import", NEW x \in LiveSections'
        PROVE  x \in clerk'[i].todo \/ <<clerk'[i].subject, x>> \in apart'
    <3>1. clerk'[i] = clerk[i] /\ clerk[i].pc \in Making
      BY <1>7, <1>8, <2>3 DEF Making
    <3>. QED
      BY <1>3, <1>6, <2>0, <2>3, <3>1 DEF LinksToCome
  <2>4. ASSUME NEW i \in Clerks, clerk'[i].pc = "section", NEW q \in LiveSubjects
        PROVE  q \in clerk'[i].todo \/ <<q, clerk'[i].section>> \in apart'
    <3>1. clerk'[i] = clerk[i]
      BY <1>7, <1>8, <2>4
    <3>. QED
      BY <2>0, <2>4, <3>1 DEF LinksToCome
  <2>. QED
    BY <1>6, <2>1, <2>2, <2>3, <2>4 DEF LinksToCome
<1>11. Reach'
  <2> SUFFICES ASSUME NEW q \in LiveSubjects, NEW x \in LiveSections'
               PROVE  <<q, x>> \in apart' \/ linkIs'[<<q, x>>] # "none" \/ InTheMaking(q)'
    BY <1>6 DEF Reach
  <2>1. InTheMaking(q) => InTheMaking(q)'
    BY <1>7, <1>8 DEF InTheMaking
  <2>2. CASE x = s
    BY <1>1, <1>5, <2>2
  <2>3. CASE x \in LiveSections
    BY <1>1, <1>2, <1>5, <1>6, <2>1, <2>3 DEF LinksInv, Reach
  <2>. QED
    BY <1>6, <2>2, <2>3
<1>12. OneTeacher'
  BY <1>1, <1>2, <1>7, <1>8, TeachersStay
<1>. QED
  BY <1>7, <1>9, <1>10, <1>11, <1>12 DEF GInv, LinksInv

\* Subjects, sections and links are deleted, and links are added.
LEMMA RowsChangeInv ==
    ASSUME GInv, DeleteSubject \/ DeleteSection \/ AssignToSections \/ RemoveFromSection
    PROVE  GInv'
<1>1. /\ UNCHANGED <<clerk, apart, assigned, everAssigned, hour, contested>>
      /\ StructureTypes /\ LinksInv /\ OneTeacher /\ RowStates = {"none", "live", "deleted"}
  BY DEF DeleteSubject, DeleteSection, AssignToSections, RemoveFromSection, SameHours, GInv, RowStates
<1>2. /\ subjectIs \in [SubjectRows -> RowStates] /\ sectionIs \in [SectionRows -> RowStates]
      /\ linkIs \in [Links -> RowStates]
  BY <1>1 DEF StructureTypes
<1>3. /\ subjectIs' \in [SubjectRows -> RowStates] /\ sectionIs' \in [SectionRows -> RowStates]
      /\ linkIs' \in [Links -> RowStates]
      /\ \A p \in Links : linkIs[p] # "none" => linkIs'[p] # "none"
      /\ \A q \in SubjectRows : /\ subjectIs[q] = "none" => subjectIs'[q] = "none"
                                /\ subjectIs'[q] = "live" => subjectIs[q] = "live"
      /\ \A s \in SectionRows : sectionIs'[s] = "live" => sectionIs[s] = "live"
  <2>1. CASE DeleteSubject
    BY <1>1, <1>2, <2>1 DEF DeleteSubject, LiveSubjects
  <2>2. CASE DeleteSection
    BY <1>1, <1>2, <2>2 DEF DeleteSection, LiveSections
  <2>3. CASE AssignToSections
    BY <1>1, <1>2, <2>3 DEF AssignToSections, LiveSubjects, LiveSections
  <2>4. CASE RemoveFromSection
    BY <1>1, <1>2, <2>4 DEF RemoveFromSection, LiveSubjects
  <2>. QED
    BY <2>1, <2>2, <2>3, <2>4
<1>4. StructureTypes'
  BY <1>1, <1>3 DEF StructureTypes
<1>5. LiveSubjects' \subseteq LiveSubjects /\ LiveSections' \subseteq LiveSections
  BY <1>3 DEF LiveSubjects, LiveSections
<1>6. LinksInv'
  BY <1>1, <1>3, <1>5, LinksStay
<1>7. OneTeacher'
  BY <1>1, TeachersStay
<1>. QED
  BY <1>4, <1>6, <1>7 DEF GInv

-----------------------------------------------------------------------------
(* Teachers and the timetable *)

LEMMA ToAssignInv ==
    ASSUME GInv, NEW k \in Clerks, NEW p \in Links, NEW t \in Teachers, NEW pc \in Teaching,
           pc # "replace" => assigned[p] = {}, ToAssign(k, p, t, pc)
    PROVE  GInv'
<1> DEFINE b == [Away EXCEPT !.pc = pc, !.subject = p[1], !.section = p[2], !.teacher = t]
<1>1. /\ clerk[k] = Away /\ clerk' = [clerk EXCEPT ![k] = b]
      /\ contested' = IF p \in Assigning THEN contested \cup {p} ELSE contested
      /\ UNCHANGED <<subjectIs, sectionIs, linkIs, assigned, hour, apart>>
  BY DEF ToAssign, Comes, SameRows
<1>2. /\ b \in ClerkRow /\ b.pc = pc /\ b.subject = p[1] /\ b.section = p[2] /\ b.teacher = t
      /\ <<b.subject, b.section>> = p
  <2>1. PICK q \in SubjectRows : \E s \in SectionRows : p = <<q, s>>
    BY DEF Links
  <2>2. PICK s \in SectionRows : p = <<q, s>>
    BY <2>1
  <2>3. pc \in Places
    BY DEF Places
  <2>4. LET c == [Away EXCEPT !.pc = pc, !.subject = q, !.section = s, !.teacher = t]
        IN  c \in ClerkRow /\ c.pc = pc /\ c.subject = q /\ c.section = s /\ c.teacher = t
    BY <2>3, AwayIs DEF ClerkRow
  <2>. QED
    BY <2>2, <2>4
<1>3. StructureTypes /\ LinksInv /\ OneTeacher
  BY DEF GInv
<1>. HIDE DEF b
<1>4. pc \notin Making \cup {"section"}
  BY DEF Making, Teaching
<1>5. StructureTypes' /\ clerk'[k] = b /\ \A j \in Clerks \ {k} : clerk'[j] = clerk[j]
  BY <1>1, <1>2, <1>3, <1>4, Moves DEF StructureTypes
<1>6. clerk[k].pc \notin Making \cup Teaching \cup {"section"}
  BY <1>1, AwayIs DEF Making, Teaching
<1>7. LinksInv'
  BY <1>1, <1>2, <1>3, <1>4, <1>5, <1>6, LinksStay DEF LiveSubjects, LiveSections
<1>8. ASSUME NEW l \in Links, l \notin contested',
             NEW j \in Clerks, clerk'[j].pc \in Teaching, l = <<clerk'[j].subject, clerk'[j].section>>
      PROVE  /\ clerk'[j].pc # "replace" => assigned[l] = {}
             /\ \A i \in Clerks : clerk'[i].pc \in Teaching /\ l = <<clerk'[i].subject, clerk'[i].section>>
                                  => j = i
  <2>1. l \notin contested /\ (l = p => p \notin Assigning)
    BY <1>1, <1>8
  <2>2. CASE l = p
    <3>1. \A i \in Clerks : ~(clerk[i].pc \in Teaching /\ l = <<clerk[i].subject, clerk[i].section>>)
      BY <2>1, <2>2, AssigningAre
    <3>2. \A i \in Clerks : clerk'[i].pc \in Teaching /\ l = <<clerk'[i].subject, clerk'[i].section>> => i = k
      BY <1>5, <3>1
    <3>3. j = k
      BY <1>8, <3>2
    <3>. QED
      BY <1>2, <1>5, <2>2, <3>2, <3>3
  <2>3. CASE l # p
    <3>1. j # k /\ clerk'[j] = clerk[j]
      BY <1>2, <1>5, <1>8, <2>3
    <3>2. ASSUME NEW i \in Clerks, clerk'[i].pc \in Teaching, l = <<clerk'[i].subject, clerk'[i].section>>
          PROVE  j = i
      <4>1. i # k /\ clerk'[i] = clerk[i]
        BY <1>2, <1>5, <2>3, <3>2
      <4>. QED
        BY <1>3, <1>8, <2>1, <3>1, <3>2, <4>1 DEF OneTeacher
    <3>3. clerk'[j].pc # "replace" => assigned[l] = {}
      BY <1>3, <1>8, <2>1, <3>1 DEF OneTeacher
    <3>. QED
      BY <3>2, <3>3
  <2>. QED
    BY <2>2, <2>3
<1>9. \A l \in Links : l \notin contested' => \A x, y \in assigned[l] : x = y
  BY <1>1, <1>3 DEF OneTeacher
<1>10. OneTeacher'
  BY <1>1, <1>8, <1>9 DEF OneTeacher
<1>. QED
  BY <1>5, <1>7, <1>10 DEF GInv

LEMMA NamedIs ==
    ASSUME StructureTypes, NEW p \in Links
    PROVE  /\ Named(p) = NoRow <=> assigned[p] = {}
           /\ assigned[p] # {} => Named(p) \in assigned[p]
<1>1. assigned[p] \subseteq Teachers
  BY DEF StructureTypes
<1>2. assigned[p] # {} => Named(p) \in assigned[p]
  BY DEF Named
<1>3. assigned[p] = {} => Named(p) = NoRow
  BY DEF Named
<1>. QED
  BY <1>1, <1>2, <1>3, StructureAssumption

LEMMA ReadAssignmentInv == ASSUME GInv, NEW k \in Clerks, ReadAssignment(k) PROVE GInv'
<1>1. PICK p \in Links, t \in Teachers : ToAssign(k, p, t, IF Named(p) = NoRow THEN "upsert" ELSE "replace")
  BY DEF ReadAssignment
<1>2. Named(p) = NoRow => assigned[p] = {}
  BY NamedIs DEF GInv
<1>3. CASE Named(p) = NoRow
  <2>1. ToAssign(k, p, t, "upsert") /\ "upsert" \in Teaching
    BY <1>1, <1>3 DEF Teaching
  <2>. QED
    BY <1>2, <1>3, <2>1, ToAssignInv
<1>4. CASE Named(p) # NoRow
  <2>1. ToAssign(k, p, t, "replace") /\ "replace" \in Teaching
    BY <1>1, <1>4 DEF Teaching
  <2>. QED
    BY <2>1, ToAssignInv
<1>. QED
  BY <1>3, <1>4

LEMMA PreviewAssignmentInv == ASSUME GInv, NEW k \in Clerks, PreviewAssignment(k) PROVE GInv'
<1>1. PICK p \in LiveSubjects \X LiveSections, t \in Teachers :
        assigned[p] = {} /\ ToAssign(k, p, t, "execute")
  BY DEF PreviewAssignment
<1>2. p \in Links /\ "execute" \in Teaching
  BY <1>1 DEF LiveSubjects, LiveSections, Links, Teaching
<1>. QED
  BY <1>1, <1>2, ToAssignInv

\* A request that gives a teacher to a link goes on with it, or gives it and leaves.
LEMMA TeacherMoves ==
    ASSUME StructureTypes, OneTeacher, NEW k \in Clerks, NEW b, NEW t, NEW p,
           clerk[k].pc \in Teaching, p = <<clerk[k].subject, clerk[k].section>>, clerk'[k] = b,
           \A j \in Clerks \ {k} : clerk'[j] = clerk[j], contested' = contested,
           \A l \in Links : l # p => assigned'[l] = assigned[l],
           \/ /\ b.pc \in Teaching /\ p = <<b.subject, b.section>> /\ assigned'[p] = {}
           \/ b.pc \notin Teaching /\ clerk[k].pc # "replace" /\ assigned'[p] \subseteq assigned[p] \cup {t}
    PROVE  OneTeacher'
<1> SUFFICES ASSUME NEW l \in Links, l \notin contested
             PROVE  /\ \A x, y \in assigned'[l] : x = y
                    /\ \A j \in Clerks :
                         clerk'[j].pc \in Teaching /\ l = <<clerk'[j].subject, clerk'[j].section>> =>
                           /\ clerk'[j].pc # "replace" => assigned'[l] = {}
                           /\ \A i \in Clerks : /\ clerk'[i].pc \in Teaching
                                                /\ l = <<clerk'[i].subject, clerk'[i].section>>
                                                => j = i
  BY DEF OneTeacher
<1>1. l = p => assigned[p] = {} \/ b.pc \in Teaching
  BY DEF OneTeacher
<1>2. \A x, y \in assigned'[l] : x = y
  <2>1. CASE l = p
    BY <1>1, <2>1
  <2>2. CASE l # p
    BY <2>2 DEF OneTeacher
  <2>. QED
    BY <2>1, <2>2
<1>3. \A j \in Clerks : clerk'[j].pc \in Teaching /\ l = <<clerk'[j].subject, clerk'[j].section>> =>
        clerk[j].pc \in Teaching /\ l = <<clerk[j].subject, clerk[j].section>>
  <2> SUFFICES ASSUME NEW j \in Clerks, clerk'[j].pc \in Teaching, l = <<clerk'[j].subject, clerk'[j].section>>
               PROVE  clerk[j].pc \in Teaching /\ l = <<clerk[j].subject, clerk[j].section>>
    OBVIOUS
  <2>1. CASE j = k
    BY <2>1
  <2>2. CASE j # k
    BY <2>2
  <2>. QED
    BY <2>1, <2>2
<1>4. ASSUME NEW j \in Clerks, clerk'[j].pc \in Teaching, l = <<clerk'[j].subject, clerk'[j].section>>
      PROVE  /\ clerk'[j].pc # "replace" => assigned'[l] = {}
             /\ \A i \in Clerks : clerk'[i].pc \in Teaching /\ l = <<clerk'[i].subject, clerk'[i].section>>
                                  => j = i
  <2>1. \A i \in Clerks : clerk'[i].pc \in Teaching /\ l = <<clerk'[i].subject, clerk'[i].section>> => j = i
    BY <1>3, <1>4 DEF OneTeacher
  <2>2. ASSUME clerk'[j].pc # "replace"
        PROVE  assigned'[l] = {}
    <3>1. CASE l = p
      <4>1. j = k
        BY <1>3, <1>4, <3>1 DEF OneTeacher
      <4>. QED
        BY <1>4, <3>1, <4>1
    <3>2. CASE l # p
      <4>1. j # k /\ clerk'[j] = clerk[j]
        BY <1>4, <1>3, <3>2
      <4>. QED
        BY <1>4, <2>2, <3>2, <4>1 DEF OneTeacher
    <3>. QED
      BY <3>1, <3>2
  <2>. QED
    BY <2>1, <2>2
<1>. QED
  BY <1>2, <1>4

LEMMA DropPreviousInv == ASSUME GInv, NEW k \in Clerks, DropPrevious(k) PROVE GInv'
<1> DEFINE p == <<clerk[k].subject, clerk[k].section>>
           b == [clerk[k] EXCEPT !.pc = "upsert"]
<1>1. /\ clerk[k].pc = "replace" /\ clerk' = [clerk EXCEPT ![k] = b]
      /\ assigned' = [assigned EXCEPT ![p] = {}]
      /\ UNCHANGED <<subjectIs, sectionIs, linkIs, hour, apart, contested>>
  BY DEF DropPrevious, At, SameRows
<1>2. /\ StructureTypes /\ LinksInv /\ OneTeacher /\ clerk[k] \in ClerkRow
      /\ clerk[k].pc \in Teaching /\ p \in Links /\ clerk[k].teacher \in Teachers
      /\ assigned \in [Links -> SUBSET Teachers]
  BY <1>1, ClerkTypes DEF GInv, StructureTypes, Teaching
<1>3. /\ b \in ClerkRow /\ b.pc = "upsert" /\ b.teacher = clerk[k].teacher
      /\ b.subject = clerk[k].subject /\ b.section = clerk[k].section
  <2>1. "upsert" \in Places
    BY DEF Places, Teaching
  <2>. QED
    BY <1>2, <2>1, FilledPc
<1>4. p = <<b.subject, b.section>>
  BY <1>3
<1>. HIDE DEF b
<1>5. "upsert" \in Teaching /\ "upsert" \notin Making /\ "upsert" # "section" /\ "replace" \notin Making
  BY DEF Teaching, Making
<1>6. assigned' \in [Links -> SUBSET Teachers] /\ assigned'[p] = {}
      /\ \A l \in Links : l # p => assigned'[l] = assigned[l]
  BY <1>1, <1>2
<1>7. StructureTypes' /\ clerk'[k] = b /\ \A j \in Clerks \ {k} : clerk'[j] = clerk[j]
  BY <1>1, <1>2, <1>3, <1>4, <1>5, <1>6, Moves DEF StructureTypes
<1>8. LinksInv'
  BY <1>1, <1>2, <1>3, <1>5, <1>7, LinksStay DEF LiveSubjects, LiveSections
<1>9. OneTeacher'
  BY <1>1, <1>2, <1>3, <1>4, <1>5, <1>6, <1>7, TeacherMoves
<1>. QED
  BY <1>7, <1>8, <1>9 DEF GInv

\* The teacher is given, and the request leaves.
LEMMA GivesInv ==
    ASSUME GInv, NEW k \in Clerks, clerk[k].pc \in {"upsert", "execute"}, Goes(k), NEW p, NEW t \in Teachers,
           p = <<clerk[k].subject, clerk[k].section>>,
           assigned' \in [Links -> SUBSET Teachers], \A l \in Links : l # p => assigned'[l] = assigned[l],
           assigned'[p] \subseteq assigned[p] \cup {t},
           linkIs' \in [Links -> RowStates], \A l \in Links : linkIs[l] # "none" => linkIs'[l] # "none",
           UNCHANGED <<subjectIs, sectionIs, hour, apart, contested>>
    PROVE  GInv'
<1>1. /\ clerk' = [clerk EXCEPT ![k] = Away] /\ StructureTypes /\ LinksInv /\ OneTeacher
      /\ clerk[k].pc \in Teaching /\ clerk[k].pc # "replace" /\ clerk[k].pc \notin Making
  BY DEF Goes, At, GInv, Teaching, Making
<1>2. StructureTypes' /\ clerk'[k] = Away /\ \A j \in Clerks \ {k} : clerk'[j] = clerk[j]
  BY <1>1, AwayIs, Moves DEF Teaching, Making, StructureTypes
<1>3. Away.pc \notin Making \cup Teaching \cup {"section"}
  BY AwayIs DEF Making, Teaching
<1>4. LinksInv'
  BY <1>1, <1>2, <1>3, LinksStay DEF LiveSubjects, LiveSections
<1>5. OneTeacher'
  BY <1>1, <1>2, <1>3, TeacherMoves
<1>. QED
  BY <1>2, <1>4, <1>5 DEF GInv

LEMMA AssignTeacherInv == ASSUME GInv, NEW k \in Clerks, AssignTeacher(k) PROVE GInv'
<1> DEFINE p == <<clerk[k].subject, clerk[k].section>>
<1>1. /\ clerk[k].pc = "upsert" /\ Goes(k)
      /\ assigned' = [assigned EXCEPT ![p] = @ \cup {clerk[k].teacher}]
      /\ UNCHANGED <<subjectIs, sectionIs, linkIs, hour, apart, contested>>
  BY DEF AssignTeacher, SameRows
<1>2. /\ p \in Links /\ clerk[k].teacher \in Teachers
      /\ assigned \in [Links -> SUBSET Teachers] /\ linkIs \in [Links -> RowStates]
  BY <1>1 DEF GInv, StructureTypes, Teaching
<1>3. /\ assigned' \in [Links -> SUBSET Teachers] /\ assigned'[p] \subseteq assigned[p] \cup {clerk[k].teacher}
      /\ \A l \in Links : l # p => assigned'[l] = assigned[l]
  BY <1>1, <1>2
<1>. QED
  BY <1>1, <1>2, <1>3, GivesInv

LEMMA ExecuteAssignmentInv == ASSUME GInv, NEW k \in Clerks, ExecuteAssignment(k) PROVE GInv'
<1> DEFINE p == <<clerk[k].subject, clerk[k].section>>
<1>1. /\ clerk[k].pc = "execute" /\ Goes(k)
      /\ linkIs' = [linkIs EXCEPT ![p] = IF @ = "none" THEN "live" ELSE @]
      /\ assigned' = [assigned EXCEPT ![p] = IF clerk[k].teacher \in everAssigned[p] THEN @
                                             ELSE @ \cup {clerk[k].teacher}]
      /\ UNCHANGED <<subjectIs, sectionIs, hour, apart, contested>>
  BY DEF ExecuteAssignment
<1>2. /\ p \in Links /\ clerk[k].teacher \in Teachers /\ "live" \in RowStates
      /\ assigned \in [Links -> SUBSET Teachers] /\ linkIs \in [Links -> RowStates]
  BY <1>1 DEF GInv, StructureTypes, Teaching, RowStates
<1>3. /\ assigned' \in [Links -> SUBSET Teachers] /\ assigned'[p] \subseteq assigned[p] \cup {clerk[k].teacher}
      /\ \A l \in Links : l # p => assigned'[l] = assigned[l]
  BY <1>1, <1>2
<1>4. linkIs' \in [Links -> RowStates] /\ \A l \in Links : linkIs[l] # "none" => linkIs'[l] # "none"
  BY <1>1, <1>2
<1>5. /\ clerk[k].pc \in {"upsert", "execute"} /\ Goes(k)
      /\ UNCHANGED <<subjectIs, sectionIs, hour, apart, contested>>
      /\ p = <<clerk[k].subject, clerk[k].section>>
  BY <1>1
<1>. HIDE DEF p
<1>. QED
  BY <1>2, <1>3, <1>4, <1>5, GivesInv

LEMMA UnassignTeacherInv == ASSUME GInv, UnassignTeacher PROVE GInv'
<1>1. /\ UNCHANGED <<subjectIs, sectionIs, linkIs, hour, clerk, apart, contested>>
      /\ \E p \in Links : assigned' = [assigned EXCEPT ![p] = {}]
  BY DEF UnassignTeacher, SameRows
<1>2. StructureTypes /\ LinksInv /\ OneTeacher /\ assigned \in [Links -> SUBSET Teachers]
  BY DEF GInv, StructureTypes
<1>3. assigned' \in [Links -> SUBSET Teachers] /\ \A p \in Links : assigned'[p] \subseteq assigned[p]
  BY <1>1, <1>2
<1>4. StructureTypes'
  BY <1>1, <1>2, <1>3 DEF StructureTypes
<1>5. LinksInv'
  BY <1>1, <1>2, LinksStay DEF LiveSubjects, LiveSections
<1>6. OneTeacher'
  BY <1>1, <1>2, <1>3, TeachersStay
<1>. QED
  BY <1>4, <1>5, <1>6 DEF GInv

LEMMA CheckTimetableInv == ASSUME GInv, NEW k \in Clerks, CheckTimetable(k) PROVE GInv'
<1>1. PICK s \in LiveSections, q \in SubjectRows \cup {NoRow} :
        /\ clerk[k] = Away
        /\ clerk' = [clerk EXCEPT ![k] = [Away EXCEPT !.pc = "save", !.subject = q, !.section = s]]
        /\ UNCHANGED <<subjectIs, sectionIs, linkIs, assigned, everAssigned, hour, contested, apart>>
  BY DEF CheckTimetable, Comes, SameRows, SameHours
<1> DEFINE b == [Away EXCEPT !.pc = "save", !.subject = q, !.section = s]
<1>2. b \in ClerkRow /\ b.pc = "save"
  <2>1. s \in SectionRows /\ "save" \in Places
    BY DEF LiveSections, Places
  <2>. QED
    BY <2>1, AwayIs DEF ClerkRow
<1>3. StructureTypes /\ LinksInv /\ OneTeacher /\ clerk' = [clerk EXCEPT ![k] = b]
  BY <1>1 DEF GInv
<1>. HIDE DEF b
<1>4. /\ b.pc \notin Making \cup Teaching \cup {"section"}
      /\ clerk[k].pc \notin Making \cup Teaching \cup {"section"}
  BY <1>1, <1>2, AwayIs DEF Making, Teaching
<1>5. StructureTypes' /\ clerk'[k] = b /\ \A j \in Clerks \ {k} : clerk'[j] = clerk[j]
  BY <1>1, <1>2, <1>3, <1>4, Moves DEF StructureTypes
<1>6. LinksInv'
  BY <1>1, <1>3, <1>4, <1>5, LinksStay DEF LiveSubjects, LiveSections
<1>7. OneTeacher'
  BY <1>1, <1>3, <1>4, <1>5, TeachersStay
<1>. QED
  BY <1>5, <1>6, <1>7 DEF GInv

LEMMA SaveTimetableInv == ASSUME GInv, NEW k \in Clerks, SaveTimetable(k) PROVE GInv'
<1>1. /\ clerk[k].pc = "save" /\ clerk' = [clerk EXCEPT ![k] = Away]
      /\ hour' = [hour EXCEPT ![clerk[k].section] = clerk[k].subject]
      /\ UNCHANGED <<subjectIs, sectionIs, linkIs, assigned, contested, apart>>
  BY DEF SaveTimetable, Goes, At, SameRows
<1>2. /\ StructureTypes /\ LinksInv /\ OneTeacher /\ clerk[k].subject \in SubjectRows \cup {NoRow}
      /\ hour \in [SectionRows -> SubjectRows \cup {NoRow}]
  BY ClerkTypes DEF GInv, StructureTypes
<1>3. hour' \in [SectionRows -> SubjectRows \cup {NoRow}]
  BY <1>1, <1>2
<1>4. /\ Away.pc \notin Making \cup Teaching \cup {"section"}
      /\ clerk[k].pc \notin Making \cup Teaching \cup {"section"}
  BY <1>1, AwayIs DEF Making, Teaching
<1>5. StructureTypes' /\ clerk'[k] = Away /\ \A j \in Clerks \ {k} : clerk'[j] = clerk[j]
  BY <1>1, <1>2, <1>3, <1>4, AwayIs, Moves DEF StructureTypes
<1>6. LinksInv'
  BY <1>1, <1>2, <1>4, <1>5, LinksStay DEF LiveSubjects, LiveSections
<1>7. OneTeacher'
  BY <1>1, <1>2, <1>4, <1>5, TeachersStay
<1>. QED
  BY <1>5, <1>6, <1>7 DEF GInv

-----------------------------------------------------------------------------
(* The theorem *)

LEMMA StructureStarts == StructureInit => GInv
<1> SUFFICES ASSUME StructureInit PROVE GInv
  OBVIOUS
<1>1. PICK first \in SUBSET SubjectRows :
        /\ subjectIs = [q \in SubjectRows |-> IF q \in first THEN "live" ELSE "none"]
        /\ sectionIs = [s \in SectionRows |-> IF s = FirstSection THEN "live" ELSE "none"]
        /\ linkIs = [p \in Links |-> IF p \in first \X {FirstSection} THEN "live" ELSE "none"]
        /\ assigned = [p \in Links |-> {}] /\ hour = [s \in SectionRows |-> NoRow]
        /\ clerk = [k \in Clerks |-> Away]
  BY DEF StructureInit
<1>2. \A k \in Clerks : clerk[k] = Away /\ clerk[k].pc \notin Making \cup Teaching \cup {"section"}
  BY <1>1, AwayIs DEF Making, Teaching
<1>3. StructureTypes
  <2>1. /\ subjectIs \in [SubjectRows -> RowStates] /\ sectionIs \in [SectionRows -> RowStates]
        /\ linkIs \in [Links -> RowStates]
    BY <1>1 DEF RowStates
  <2>2. clerk \in [Clerks -> ClerkRow]
    BY <1>1, AwayIs
  <2>. QED
    BY <1>1, <1>2, <2>1, <2>2 DEF StructureTypes, Teaching
<1>4. OneMaker /\ LinksToCome
  BY <1>2 DEF OneMaker, LinksToCome, Making
<1>5. Reach
  BY <1>1 DEF Reach, LiveSubjects, LiveSections, Links
<1>6. OneTeacher
  BY <1>1, <1>2 DEF OneTeacher
<1>. QED
  BY <1>3, <1>4, <1>5, <1>6 DEF GInv, LinksInv

LEMMA StructureSteps == GInv /\ [StructureNext]_structureVars => GInv'
<1> SUFFICES ASSUME GInv, [StructureNext]_structureVars PROVE GInv'
  OBVIOUS
<1>1. ASSUME NEW k \in Clerks,
             \/ InsertSubject(k) \/ ReadSections(k) \/ LinkNext(k) \/ SubjectCreated(k)
             \/ BeginImport(k) \/ ImportFromDictionary(k) \/ BeginSection(k) \/ CreateSection(k)
             \/ ReadAssignment(k) \/ DropPrevious(k) \/ AssignTeacher(k)
             \/ PreviewAssignment(k) \/ ExecuteAssignment(k)
             \/ CheckTimetable(k) \/ SaveTimetable(k) \/ Stops(k)
      PROVE  GInv'
  BY <1>1, InsertSubjectInv, ReadSectionsInv, LinkNextInv, SubjectCreatedInv, BeginImportInv,
     ImportFromDictionaryInv, BeginSectionInv, CreateSectionInv, ReadAssignmentInv, DropPreviousInv,
     AssignTeacherInv, PreviewAssignmentInv, ExecuteAssignmentInv, CheckTimetableInv,
     SaveTimetableInv, StopsInv
<1>2. ASSUME DeleteSubject \/ DeleteSection \/ AssignToSections \/ RemoveFromSection
      PROVE  GInv'
  BY <1>2, RowsChangeInv
<1>3. ASSUME UnassignTeacher
      PROVE  GInv'
  BY <1>3, UnassignTeacherInv
<1>4. ASSUME UNCHANGED structureVars
      PROVE  GInv'
  <2>1. /\ UNCHANGED <<subjectIs, sectionIs, linkIs, assigned, hour, clerk, apart, contested>>
        /\ StructureTypes /\ LinksInv /\ OneTeacher
    BY <1>4 DEF structureVars, GInv
  <2>2. StructureTypes'
    BY <2>1 DEF StructureTypes
  <2>3. LinksInv'
    BY <2>1, LinksStay DEF LiveSubjects, LiveSections
  <2>4. OneTeacher'
    BY <2>1, TeachersStay
  <2>. QED
    BY <2>2, <2>3, <2>4 DEF GInv
<1>. QED
  BY <1>1, <1>2, <1>3, <1>4 DEF StructureNext

LEMMA NobodyMisses == GInv => SubjectsReachSections
<1> SUFFICES ASSUME GInv, NEW q \in LiveSubjects, NEW s \in LiveSections,
                    <<q, s>> \notin apart, linkIs[<<q, s>>] = "none"
             PROVE  q \in MakingSubject
  BY DEF SubjectsReachSections
<1>1. InTheMaking(q)
  BY DEF GInv, LinksInv, Reach
<1>. QED
  BY <1>1, MakersAre

\* The one teacher of a link is named beside its hour and is shown that hour.
LEMMA ShownToTheTeacher ==
    ASSUME GInv, NEW s \in LiveSections, hour[s] # NoRow, <<hour[s], s>> \notin contested,
           linkIs[<<hour[s], s>>] = "live", NEW t \in Teachers
    PROVE  LET q == hour[s]
               p == <<q, s>>
           IN  /\ (\E row \in SectionTimetable(s) : row.teacher = t) <=> s \in TeacherTimetable(t)
               /\ s \in TeacherTimetable(t) /\ subjectIs[q] = "live" =>
                    /\ p \in TeacherSubjects(t) /\ s \in AvailableSections(t, q) /\ s \in SlotsForSection(t, q)
                    /\ [section |-> s, teacher |-> t] \in Assignment(q)
                    /\ [subject |-> q, teacher |-> t] \in SectionSubjects(s)
                    /\ TeacherConflicts(s, q) \cap LiveSections = TeacherTimetable(t) \ {s}
<1> DEFINE q == hour[s]
           p == <<q, s>>
<1>1. q \in SubjectRows /\ s \in SectionRows /\ p \in Links
  BY DEF GInv, StructureTypes, LiveSections, Links
<1>2. Named(p) = t <=> t \in assigned[p]
  <2>1. \A x, y \in assigned[p] : x = y
    BY <1>1 DEF GInv, OneTeacher
  <2>2. /\ Named(p) = NoRow <=> assigned[p] = {}
        /\ assigned[p] # {} => Named(p) \in assigned[p]
    BY <1>1, NamedIs DEF GInv
  <2>. QED
    BY <2>1, <2>2, StructureAssumption
<1>3. s \in TeacherTimetable(t) <=> t \in assigned[p]
  BY DEF TeacherTimetable, TeachesNow, Teaches
<1>4. (\E row \in SectionTimetable(s) : row.teacher = t) <=> Named(p) = t
  <2>1. SectionTimetable(s) = {[subject |-> q, teacher |-> Named(p)]}
    BY DEF SectionTimetable
  <2>2. [subject |-> q, teacher |-> Named(p)].teacher = Named(p)
    OBVIOUS
  <2>. HIDE DEF p
  <2>. QED
    BY <2>1, <2>2
<1>5. ASSUME s \in TeacherTimetable(t), subjectIs[q] = "live"
      PROVE  /\ p \in TeacherSubjects(t) /\ s \in AvailableSections(t, q) /\ s \in SlotsForSection(t, q)
             /\ [section |-> s, teacher |-> t] \in Assignment(q)
             /\ [subject |-> q, teacher |-> t] \in SectionSubjects(s)
             /\ TeacherConflicts(s, q) \cap LiveSections = TeacherTimetable(t) \ {s}
  <2>1. Named(p) = t /\ Teaches(t, p) /\ t # NoRow /\ p[1] = q /\ p[2] = s
    BY <1>2, <1>3, <1>5, StructureAssumption DEF Teaches
  <2>2. OwnsSubject(t, q)
    BY <1>1, <1>5, <2>1 DEF OwnsSubject
  <2>3. p \in TeacherSubjects(t)
    BY <1>1, <1>5, <2>1 DEF TeacherSubjects
  <2>4. s \in AvailableSections(t, q) /\ s \in SlotsForSection(t, q)
    BY <2>1, <2>2 DEF AvailableSections, SlotsForSection
  <2>5. [section |-> s, teacher |-> t] \in Assignment(q)
    <3>1. p \in {l \in Links : l[1] = q /\ linkIs[l] = "live"}
      BY <1>1, <2>1
    <3>2. [section |-> p[2], teacher |-> Named(p)] \in Assignment(q)
      BY <3>1 DEF Assignment
    <3>. QED
      BY <2>1, <3>2
  <2>6. [subject |-> q, teacher |-> t] \in SectionSubjects(s)
    <3>1. p \in {l \in Links : l[2] = s /\ linkIs[l] = "live"}
      BY <1>1, <2>1
    <3>2. [subject |-> p[1], teacher |-> Named(p)] \in SectionSubjects(s)
      BY <3>1 DEF SectionSubjects
    <3>. QED
      BY <2>1, <3>2
  <2>7. TeacherConflicts(s, q) \cap LiveSections = TeacherTimetable(t) \ {s}
    BY <2>1 DEF TeacherConflicts, TeacherTimetable, LiveSections
  <2>. QED
    BY <2>3, <2>4, <2>5, <2>6, <2>7
<1>. QED
  BY <1>2, <1>3, <1>4, <1>5

LEMMA TimetablesAreRight == GInv => TimetablesAgree
<1> SUFFICES ASSUME GInv, NEW s \in LiveSections, hour[s] # NoRow, <<hour[s], s>> \notin contested
             PROVE  /\ Cardinality(assigned[<<hour[s], s>>]) <= 1
                    /\ linkIs[<<hour[s], s>>] = "live" => \A t \in Teachers :
                         LET q == hour[s]
                             p == <<q, s>>
                         IN  /\ (\E row \in SectionTimetable(s) : row.teacher = t) <=> s \in TeacherTimetable(t)
                             /\ s \in TeacherTimetable(t) /\ subjectIs[q] = "live" =>
                                  /\ p \in TeacherSubjects(t) /\ s \in AvailableSections(t, q)
                                  /\ s \in SlotsForSection(t, q)
                                  /\ [section |-> s, teacher |-> t] \in Assignment(q)
                                  /\ [subject |-> q, teacher |-> t] \in SectionSubjects(s)
                                  /\ TeacherConflicts(s, q) \cap LiveSections = TeacherTimetable(t) \ {s}
  BY DEF TimetablesAgree
<1> DEFINE p == <<hour[s], s>>
<1>1. p \in Links
  BY DEF GInv, StructureTypes, LiveSections, Links
<1>2. \A x, y \in assigned[p] : x = y
  BY <1>1 DEF GInv, OneTeacher
<1>3. Cardinality(assigned[p]) <= 1
  <2>1. CASE assigned[p] = {}
    BY <2>1, FS_EmptySet
  <2>2. CASE assigned[p] # {}
    <3>1. PICK t : assigned[p] = {t}
      BY <1>2, <2>2
    <3>. QED
      BY <3>1, FS_Singleton
  <2>. QED
    BY <2>1, <2>2
<1>. QED
  BY <1>3, ShownToTheTeacher

\* Subjects reach sections, and timetables agree on the teacher (subjects.service.ts:114, 288-410,
\* grades.service.ts:252, imports.service.ts:975-1024, timetable.service.ts:16-85, 388-550).
THEOREM StructureTheorem == StructureSpec => []StructureKept
<1>1. GInv => StructureKept
  BY NobodyMisses, TimetablesAreRight DEF StructureKept
<1>. QED
  BY <1>1, StructureStarts, StructureSteps, PTL DEF StructureSpec
=============================================================================
