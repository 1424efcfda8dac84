---------------------------- MODULE OrderedContent ----------------------------
(***************************************************************************)
(* The ordered lists of the school and of the platform: units of a         *)
(* subject, lessons of a unit, blocks of a lesson, items of a block,       *)
(* questions of a lesson, subjects of a grade, ways to pay.  Each service  *)
(* checks the place of a row in one statement and writes it in another,    *)
(* and no index of the database keeps two rows apart (those there were     *)
(* have been dropped).  Only the ways to pay are behind a row lock.        *)
(*                                                                         *)
(* One kind of list is looked at in a behaviour, in two lists that stand   *)
(* for two parents (two units, two blocks).  A place is orderIndex or      *)
(* sortOrder; the negative ones of a reordering stay in its transaction.   *)
(***************************************************************************)
EXTENDS Naturals, Sequences, FiniteSets, Functions

CONSTANTS Editors,  \* requests in progress at one time
          MaxRows,  \* bound: rows ever made
          MaxPlace, \* bound: places asked for
          MaxActive \* MAX_ACTIVE_PAYMENT_METHODS (10)

ASSUME ListsAssumption == {MaxRows, MaxPlace, MaxActive} \subseteq Nat

VARIABLES kind,    \* what the lists are
          rows,    \* sequence of the rows: list, place, live
          shut,    \* the lists whose parent is deleted
          editing, \* what each request has read and is about to write
          tidy     \* no request has overlapped another, no reordering has left rows out

listVars == <<kind, rows, shut, editing, tidy>>

Kinds == {"units", "platform units", "lessons", "platform lessons", "blocks", "platform blocks",
          "items", "platform items", "questions", "platform questions", "subjects", "payments"}
Lists == {1, 2}
Positions == 1..MaxPlace
NoOrder == <<>>
NotEditing == [op |-> "none", row |-> 0, from |-> 0, list |-> 0, place |-> 0, order |-> NoOrder]

ListsInit == /\ kind \in Kinds /\ rows = <<>> /\ shut = {}
             /\ editing = [j \in Editors |-> NotEditing] /\ tidy = TRUE

Open == Lists \ shut
In(rs, l) == {r \in DOMAIN rs : rs[r].live /\ rs[r].list = l}
Alive == In(rows, 1) \cup In(rows, 2)
Taken(l) == {rows[r].place : r \in In(rows, l)}

\* Seeded fault: the number of rows, which a deletion makes too small.
NextPlace_count(l) == Cardinality(In(rows, l)) + 1

NextPlace(l) == IF Taken(l) = {} THEN 1 ELSE 1 + CHOOSE p \in Taken(l) : \A q \in Taken(l) : q <= p

\* A request starts while others are between their check and their write.
Overlaps == tidy' = (tidy /\ \A j \in Editors : editing[j] = NotEditing)

\* A request has read, and will write.
Read(j, k, r) == /\ kind = k /\ editing[j] = NotEditing
                 /\ editing' = [editing EXCEPT ![j] = r]
                 /\ Overlaps
                 /\ UNCHANGED <<kind, rows, shut>>

Wrote(j, op) == /\ editing[j].op = op
                /\ editing' = [editing EXCEPT ![j] = NotEditing]
                /\ UNCHANGED <<kind, tidy>>

NewRow(l, p) == Len(rows) < MaxRows /\ rows' = Append(rows, [list |-> l, place |-> p, live |-> TRUE])

-----------------------------------------------------------------------------
(* the common steps *)

\* A place in use is refused, ...
CreateIfFree(j, k) == \E l \in Open, p \in Positions :
    p \notin Taken(l) /\ Read(j, k, [NotEditing EXCEPT !.op = "create", !.list = l, !.place = p])

\* ... or replaced by the next one.
CreateAnyway(j, k) == \E l \in Open, p \in Positions :
    Read(j, k, [NotEditing EXCEPT !.op = "create", !.list = l,
                                  !.place = IF p \in Taken(l) THEN NextPlace(l) ELSE p])

\* Another place, or list; a 0 is a field that is not written.
Change(j, k, lists) == \E r \in Alive, l \in lists, p \in Positions \cup {0} :
    LET list == IF l = 0 THEN rows[r].list ELSE l
        place == IF p = 0 THEN rows[r].place ELSE p
    IN /\ \A s \in In(rows, list) \ {r} : rows[s].place # place
       /\ Read(j, k, [NotEditing EXCEPT !.op = "change", !.row = r, !.list = l, !.place = p])

Delete(k) == /\ kind = k
             /\ \E r \in Alive : rows' = [rows EXCEPT ![r].live = FALSE]
             /\ Overlaps /\ UNCHANGED <<kind, shut, editing>>

Orders(set) == {f \in [set -> 1..Cardinality(set)] : IsInjective(f)}

\* Some rows of a list are given the places 1, 2, ..., the others keep theirs.
Reorder(j, k, sets) == \E l \in Open : \E set \in sets[l] : \E order \in Orders(set) :
    Read(j, k, [NotEditing EXCEPT !.op = "order", !.list = l, !.order = order])
All == [l \in Lists |-> {In(rows, l)} \ {{}}]
Some == [l \in Lists |-> SUBSET In(rows, l) \ {{}}]

Placed(rs, order) == [r \in DOMAIN rs |->
    IF r \in DOMAIN order THEN [rs[r] EXCEPT !.place = order[r]] ELSE rs[r]]

\* orderBy the place: rows in the same place come in any order.
Renumberings(rs, l) == {f \in Orders(In(rs, l)) :
    \A r, s \in In(rs, l) : rs[r].place < rs[s].place => f[r] < f[s]}

-----------------------------------------------------------------------------
(* what the handlers write *)

Insert(j) == /\ Wrote(j, "create")
             /\ NewRow(editing[j].list, editing[j].place)
             /\ UNCHANGED shut

Update(j) == LET e == editing[j] IN
    /\ Wrote(j, "change")
    /\ rows' = [rows EXCEPT ![e.row].list = IF e.list = 0 THEN @ ELSE e.list,
                            ![e.row].place = IF e.place = 0 THEN @ ELSE e.place]
    /\ UNCHANGED shut

\* Rows left out keep places that may be given to others.
WriteOrder(j) == LET e == editing[j] IN
    /\ e.op = "order"
    /\ rows' = Placed(rows, e.order)
    /\ editing' = [editing EXCEPT ![j] = NotEditing]
    /\ tidy' = (tidy /\ In(rows, e.list) \subseteq DOMAIN e.order)
    /\ UNCHANGED <<kind, shut>>

Moved(e) == [rows EXCEPT ![e.row] = [@ EXCEPT !.list = e.list, !.place = e.place]]

\* Both blocks are numbered again, in the transaction of the move.
MoveAndRenumber(j) == LET e == editing[j] IN
    /\ Wrote(j, "move")
    /\ \E f \in Renumberings(Moved(e), e.from) :
         \E g \in Renumberings(Placed(Moved(e), f), e.list) : rows' = Placed(Placed(Moved(e), f), g)
    /\ UNCHANGED shut

\* The platform, in one block: the place, then the list is read, then written.
MoveOnly(j) == LET e == editing[j] IN
    /\ e.op = "move within"
    /\ rows' = Moved(e)
    /\ editing' = [editing EXCEPT ![j].op = "renumber"]
    /\ UNCHANGED <<kind, shut, tidy>>

ReadAgain(j) == LET e == editing[j] IN
    /\ e.op = "renumber"
    /\ \E f \in Renumberings(rows, e.list) :
         editing' = [editing EXCEPT ![j] = [NotEditing EXCEPT !.op = "order", !.list = e.list, !.order = f]]
    /\ UNCHANGED <<kind, rows, shut, tidy>>

-----------------------------------------------------------------------------
(* the handlers of the school *)

CreateUnit(j) == CreateIfFree(j, "units")
UpdateUnit(j) == Change(j, "units", {0})
ReorderUnits(j) == Reorder(j, "units", Some)
CreateLesson(j) == CreateIfFree(j, "lessons")
UpdateLesson(j) == Change(j, "lessons", Open \cup {0})
CreateBlock(j) == CreateAnyway(j, "blocks")
DeleteBlock == Delete("blocks")
ReorderBlocks(j) == Reorder(j, "blocks", All)
CreateBlockItem(j) == CreateAnyway(j, "items")
DeleteBlockItem == Delete("items")
ReorderBlockItems(j) == Reorder(j, "items", All)
MoveItemToBlock(j) == \E r \in Alive, l \in Open, p \in Positions :
    Read(j, "items", [NotEditing EXCEPT !.op = "move", !.row = r, !.from = rows[r].list, !.list = l, !.place = p])
CreateTeacherQuestion(j) == CreateAnyway(j, "questions")
DeleteTeacherQuestion == Delete("questions")
ReorderTeacherQuestions(j) == Reorder(j, "questions", Some)

\* A unit is deleted whatever lessons it has.
DeleteUnit == /\ kind = "lessons"
              /\ \E l \in Open : shut' = shut \cup {l}
              /\ Overlaps /\ UNCHANGED <<kind, rows, editing>>

\* The items of a block are deleted with it, in one transaction.
DeleteBlockWithItems == \E l \in Open :
    /\ kind \in {"items", "platform items"}
    /\ shut' = shut \cup {l}
    /\ rows' = [r \in DOMAIN rows |-> IF rows[r].list = l THEN [rows[r] EXCEPT !.live = FALSE] ELSE rows[r]]
    /\ Overlaps /\ UNCHANGED <<kind, editing>>

\* The ways to pay: one request at a time, by the lock of the settings.
CreatePaymentMethod == /\ kind = "payments" /\ Cardinality(Alive) < MaxActive
                       /\ NewRow(1, NextPlace(1))
                       /\ UNCHANGED <<kind, shut, editing, tidy>>
DeletePaymentMethod == Cardinality(Alive) > 1 /\ Delete("payments")
ReorderPaymentMethods == \E order \in Orders(Alive) : /\ kind = "payments"
                                                      /\ rows' = Placed(rows, order)
                                                      /\ UNCHANGED <<kind, shut, editing, tidy>>

-----------------------------------------------------------------------------
(* the handlers of the platform *)

CreatePlatformUnit(j) == CreateIfFree(j, "platform units")
UpdatePlatformUnit(j) == Change(j, "platform units", {0})
ReorderPlatformUnits(j) == Reorder(j, "platform units", Some)
CreatePlatformLesson(j) == CreateIfFree(j, "platform lessons")
UpdatePlatformLesson(j) == Change(j, "platform lessons", Open \cup {0})
CreatePlatformBlock(j) == CreateAnyway(j, "platform blocks")
DeletePlatformBlock == Delete("platform blocks")
ReorderPlatformBlocks(j) == Reorder(j, "platform blocks", All)
CreatePlatformItem(j) == CreateAnyway(j, "platform items")
DeletePlatformItem == Delete("platform items")
ReorderPlatformItems(j) == Reorder(j, "platform items", All)
MovePlatformItem(j) == \E r \in Alive, l \in Open, p \in Positions :
    Read(j, "platform items", [NotEditing EXCEPT !.op = IF l = rows[r].list THEN "move within" ELSE "move",
                               !.row = r, !.from = rows[r].list, !.list = l, !.place = p])
CreatePlatformQuestion(j) == CreateAnyway(j, "platform questions")
DeletePlatformQuestion == Delete("platform questions")
ReorderPlatformQuestions(j) == Reorder(j, "platform questions", Some)
CreateSubject(j) == \E l \in Open :
    Read(j, "subjects", [NotEditing EXCEPT !.op = "create", !.list = l, !.place = NextPlace(l)])
ReorderSubjects(j) == Reorder(j, "subjects", Some)

\* Only an empty unit is deleted: counted first.
CountLessons(j) == \E l \in Open :
    /\ In(rows, l) = {}
    /\ Read(j, "platform lessons", [NotEditing EXCEPT !.op = "shut", !.list = l])
DeletePlatformUnit(j) == /\ Wrote(j, "shut")
                         /\ shut' = shut \cup {editing[j].list}
                         /\ UNCHANGED rows

ListsNext ==
    \/ DeleteBlock \/ DeleteBlockItem \/ DeleteTeacherQuestion \/ DeleteUnit \/ DeleteBlockWithItems
    \/ CreatePaymentMethod \/ DeletePaymentMethod \/ ReorderPaymentMethods
    \/ DeletePlatformBlock \/ DeletePlatformItem \/ DeletePlatformQuestion
    \/ \E j \in Editors :
         \/ CreateUnit(j) \/ UpdateUnit(j) \/ ReorderUnits(j) \/ CreateLesson(j) \/ UpdateLesson(j)
         \/ CreateBlock(j) \/ ReorderBlocks(j) \/ CreateBlockItem(j) \/ ReorderBlockItems(j)
         \/ MoveItemToBlock(j) \/ CreateTeacherQuestion(j) \/ ReorderTeacherQuestions(j)
         \/ CreatePlatformUnit(j) \/ UpdatePlatformUnit(j) \/ ReorderPlatformUnits(j)
         \/ CreatePlatformLesson(j) \/ UpdatePlatformLesson(j) \/ CountLessons(j) \/ DeletePlatformUnit(j)
         \/ CreatePlatformBlock(j) \/ ReorderPlatformBlocks(j) \/ CreatePlatformItem(j)
         \/ ReorderPlatformItems(j) \/ MovePlatformItem(j) \/ CreatePlatformQuestion(j)
         \/ ReorderPlatformQuestions(j) \/ CreateSubject(j) \/ ReorderSubjects(j)
         \/ Insert(j) \/ Update(j) \/ WriteOrder(j) \/ MoveAndRenumber(j) \/ MoveOnly(j) \/ ReadAgain(j)

ListsSpec == ListsInit /\ [][ListsNext]_listVars

-----------------------------------------------------------------------------
(* Properties *)

ListsTypeOK == /\ kind \in Kinds /\ shut \subseteq Lists /\ tidy \in BOOLEAN
               /\ \A r \in DOMAIN rows : /\ rows[r].list \in Lists /\ rows[r].live \in BOOLEAN
                                         /\ rows[r].place \in 1..(MaxPlace + MaxRows)
               /\ DOMAIN editing = Editors

\* After any sequence of creations, moves, deletions and whole reorderings, each complete before
\* the next begins, no two rows of a list are in one place and none is in a deleted parent (a
\* unit of a school aside); the ways to pay are in order whoever works on them at once.
ListsInOrder ==
    /\ \/ tidy /\ \A j \in Editors : editing[j].op \notin {"renumber", "order"}
       \/ kind = "payments"
       => \A r, s \in Alive : rows[r].list = rows[s].list /\ rows[r].place = rows[s].place => r = s
    /\ tidy /\ kind # "lessons" => \A r \in Alive : rows[r].list \in Open
=============================================================================
