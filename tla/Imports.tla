-------------------------------- MODULE Imports --------------------------------
(***************************************************************************)
(* Files of students or teachers imported into one school by its owner: a  *)
(* preview says which rows are new, an execution makes the accounts of     *)
(* those rows, each row in a transaction of its own.  It keeps their       *)
(* passwords, which are stored nowhere else, in memory until it ends: they *)
(* are lost with it, and are left out here.                                *)
(*                                                                         *)
(* Every transaction that makes an account begins by raising the next      *)
(* number of the school, and so holds the row of the school until it ends. *)
(* A file has a row for each of Names.  Grades, sections, the subjects of  *)
(* teachers and the numbers themselves are left out.                       *)
(***************************************************************************)
EXTENDS Naturals, Sequences, FiniteSets

CONSTANTS Imports,     \* import sessions
          Runners,     \* executions in progress at one time
          Names,       \* the people in the files, each a row
          Families,    \* the phones of parents
          NoFamily,    \* a row without a parent
          MaxAccounts  \* bound: accounts made

ASSUME ImportsAssumption == NoFamily \notin Families /\ MaxAccounts \in Nat

VARIABLES phone,     \* the family of each person in the files
          imported,  \* the import sessions
          accounts,  \* the accounts, in the order they were made
          running    \* where each execution is, and what it has in memory

importVars == <<phone, imported, accounts, running>>

Asking == [pc |-> "idle", import |-> "none", row |-> "none", records |-> << >>, found |-> FALSE]
Verdicts == {"NEW", "DUPLICATE", "ERROR"}

ImportsInit == /\ phone \in [Names -> Families \cup {NoFamily}]
               /\ imported \in [Imports -> {[type |-> t, status |-> "NONE", records |-> << >>] :
                                             t \in {"STUDENTS", "TEACHERS"}}]
               /\ accounts = << >>
               /\ running = [r \in Runners |-> Asking]

Has(kind, who) == \E n \in DOMAIN accounts : accounts[n].kind = kind /\ accounts[n].who = who
KindOf(i) == IF imported[i].type = "STUDENTS" THEN "STUDENT" ELSE "TEACHER"

-----------------------------------------------------------------------------
\* previewStudents, previewTeachers: a row may be in error, is a duplicate of an account the
\* school has, or is new.
PreviewImport(i) == \E wrong \in SUBSET Names :
    /\ imported[i].status = "NONE"
    /\ imported' = [imported EXCEPT ![i].status = "PREVIEW", ![i].records =
           [n \in Names |-> IF n \in wrong THEN "ERROR"
                            ELSE IF Has(KindOf(i), n) THEN "DUPLICATE" ELSE "NEW"]]
    /\ UNCHANGED <<phone, accounts, running>>

ReadImport(r, i) == /\ running[r] = Asking
                    /\ imported[i].status = "PREVIEW"
                    /\ running' = [running EXCEPT ![r] = [Asking EXCEPT !.pc = "mark", !.import = i,
                                                                        !.records = imported[i].records]]
                    /\ UNCHANGED <<phone, imported, accounts>>

\* By its id, whatever the status has become.
MarkExecuting(r) == /\ running[r].pc = "mark"
                    /\ running' = [running EXCEPT ![r].pc = "rows"]
                    /\ imported' = [imported EXCEPT ![running[r].import].status = "EXECUTING"]
                    /\ UNCHANGED <<phone, accounts>>

\* Students that are new; teachers that are not in error.
ToDo(r) == {n \in DOMAIN running[r].records :
               \/ running[r].records[n] = "NEW"
               \/ running[r].records[n] = "DUPLICATE" /\ KindOf(running[r].import) = "TEACHER"}

\* A teacher the school has gets the subjects and no account.
AssignExisting(r) == \E n \in ToDo(r) :
    /\ running[r].pc = "rows" /\ running[r].records[n] = "DUPLICATE"
    /\ running' = [running EXCEPT ![r].records[n] = IF Has("TEACHER", n) THEN "DONE" ELSE "ERROR"]
    /\ UNCHANGED <<phone, imported, accounts>>

\* Seeded fault: the number is read, and the row of the school not held.
SchoolIsFree_noLock == TRUE

SchoolIsFree == \A r \in Runners : running[r].pc \notin {"account", "parent"}

\* nextUserCode: the first statement of the transaction.
IncrementUserCode(r) == \E n \in ToDo(r) :
    /\ running[r].pc = "rows" /\ running[r].records[n] = "NEW"
    /\ SchoolIsFree
    /\ running' = [running EXCEPT ![r].pc = "account", ![r].row = n]
    /\ UNCHANGED <<phone, imported, accounts>>

\* The parent is looked up by the phone, among what others have committed.
FindParent(r) == LET family == phone[running[r].row] IN
    /\ running[r].pc = "account"
    /\ running' = [running EXCEPT ![r].pc = "parent", ![r].found = family = NoFamily \/ Has("PARENT", family)]
    /\ UNCHANGED <<phone, imported, accounts>>

MadeParent(r) == /\ KindOf(running[r].import) = "STUDENT"
                 /\ phone[running[r].row] # NoFamily /\ ~running[r].found

Made(r) == LET run == running[r]
               new == [kind |-> KindOf(run.import), who |-> run.row]
           IN  IF MadeParent(r) THEN <<new, [new EXCEPT !.kind = "PARENT", !.who = phone[run.row]]>>
               ELSE <<new>>

NextRow(r, verdict) ==
    running' = [running EXCEPT ![r].pc = "rows", ![r].row = "none", ![r].found = FALSE,
                               ![r].records[running[r].row] = verdict]

CommitRow(r) == /\ running[r].pc = "parent"
                /\ Len(accounts) + Len(Made(r)) <= MaxAccounts
                /\ accounts' = accounts \o Made(r)
                /\ NextRow(r, "DONE")
                /\ UNCHANGED <<phone, imported>>

\* A statement fails: the row is in error, and the next one is tried.
RollBackRow(r) == /\ running[r].pc = "parent"
                  /\ NextRow(r, "ERROR")
                  /\ UNCHANGED <<phone, imported, accounts>>

CompleteImport(r) == /\ running[r].pc = "rows" /\ ToDo(r) = {}
                     /\ imported' = [imported EXCEPT ![running[r].import] =
                            [@ EXCEPT !.status = "COMPLETED", !.records = running[r].records]]
                     /\ running' = [running EXCEPT ![r] = Asking]
                     /\ UNCHANGED <<phone, accounts>>

\* The server stops: the session is EXECUTING for good.
ImportDies(r) == /\ running[r] # Asking
                 /\ running' = [running EXCEPT ![r] = Asking]
                 /\ UNCHANGED <<phone, imported, accounts>>

Execute(r) == \/ \E i \in Imports : ReadImport(r, i)
              \/ MarkExecuting(r) \/ AssignExisting(r)
              \/ IncrementUserCode(r) \/ FindParent(r) \/ CommitRow(r) \/ RollBackRow(r)
              \/ CompleteImport(r) \/ ImportDies(r)

ImportsNext == (\E i \in Imports : PreviewImport(i)) \/ (\E r \in Runners : Execute(r))
ImportsSpec == ImportsInit /\ [][ImportsNext]_importVars

-----------------------------------------------------------------------------
(* Properties *)

ImportsTypeOK ==
    /\ phone \in [Names -> Families \cup {NoFamily}]
    /\ \A i \in Imports : /\ imported[i].status \in {"NONE", "PREVIEW", "EXECUTING", "COMPLETED"}
                          /\ \A n \in DOMAIN imported[i].records : imported[i].records[n] \in Verdicts \cup {"DONE"}
    /\ \A n \in DOMAIN accounts : accounts[n].kind \in {"STUDENT", "TEACHER", "PARENT"}
    /\ DOMAIN running = Runners

\* A family has one account of a parent, whatever rows, files and executions overlap
\* (imports.service.ts:848-915): the lookup by phone is under the row of the school, which
\* the number of the student has taken.
OneParentAccount == \A m, n \in DOMAIN accounts :
    accounts[m].kind = "PARENT" /\ accounts[n].kind = "PARENT" /\ accounts[m].who = accounts[n].who => m = n
=============================================================================
