------------------------------ MODULE SyncPull ------------------------------
(***************************************************************************)
(* A device of a student pulls the lessons and the questions of its        *)
(* section, page by page: the rows after its cursor by (updatedAt, uuid).  *)
(* Every lesson stands with one question.  A teacher's transaction stamps  *)
(* the rows it writes when it writes them, and shows them when it commits. *)
(***************************************************************************)
EXTENDS Naturals, FiniteSets

CONSTANTS Uuids,    \* the lessons, in the order of their uuids
          Limit,    \* rows in a page
          MaxCommits, \* bound: transactions of the teacher
          MaxClock  \* bound: the clock stops here

ASSUME PullAssumption == /\ Uuids \subseteq Nat \ {0} /\ IsFiniteSet(Uuids)
                         /\ {Limit, MaxCommits, MaxClock} \subseteq Nat

Feeds == {"lessons", "questions"}

VARIABLES tables,   \* each table: the version of each row and its updatedAt
          seen,   \* the lessons published to the section
          open,   \* transactions not yet committed
          edits,  \* transactions so far
          clock,
          cursor, \* the device: its cursor into each table,
          has,    \* the version it has of each row, 0 if none,
          fresh,  \* the tables it has read to the end since the last commit,
          late    \* and the lessons that were committed behind its cursor

syncVars == <<tables, seen, open, edits, clock, cursor, has, fresh, late>>

SyncInit == /\ tables \in [Feeds -> [Uuids -> [version : {1}, stamp : {0, 1}]]]
            /\ seen \in SUBSET Uuids
            /\ open = {}
            /\ edits = 0
            /\ clock = 1
            /\ cursor = [t \in Feeds |-> <<0, 0>>]
            /\ has = [t \in Feeds |-> [u \in Uuids |-> 0]]
            /\ fresh = {}
            /\ late = {}

Before(a, b) == a[1] < b[1] \/ (a[1] = b[1] /\ a[2] < b[2])
Key(t, u) == <<tables[t][u].stamp, u>>

-----------------------------------------------------------------------------
(* The teacher *)

\* What is changed, and whose updatedAt is written.  Publishing and the content
\* touch the lesson.  A question is written with its lesson; but if only its
\* options, pairs or blanks are replaced, the row of the question is not.
EditKinds == {[changes |-> {"lessons"}, touches |-> {"lessons"}, publishes |-> TRUE],
          [changes |-> {"lessons"}, touches |-> {"lessons"}, publishes |-> FALSE],
          [changes |-> Feeds, touches |-> Feeds, publishes |-> FALSE],
          [changes |-> {"questions"}, touches |-> {"lessons"}, publishes |-> FALSE]}

Begin == \E u \in Uuids, k \in EditKinds :
    /\ edits < MaxCommits
    /\ edits' = edits + 1
    /\ \A x \in open : x.uuid # u
    /\ open' = open \cup {[uuid |-> u, kind |-> k, stamp |-> clock]}
    /\ UNCHANGED <<tables, seen, clock, cursor, has, fresh, late>>

Commit == \E x \in open :
    /\ open' = open \ {x}
    /\ tables' = [t \in Feeds |-> [tables[t] EXCEPT
                   ![x.uuid].version = IF t \in x.kind.changes THEN @ + 1 ELSE @,
                   ![x.uuid].stamp = IF t \in x.kind.touches THEN x.stamp ELSE @]]
    /\ seen' = IF x.kind.publishes THEN seen \cup {x.uuid} ELSE seen
    /\ fresh' = {}
    /\ late' = IF Before(cursor["lessons"], <<x.stamp, x.uuid>>) THEN late \ {x.uuid}
               ELSE late \cup {x.uuid}
    /\ UNCHANGED <<edits, clock, cursor, has>>

-----------------------------------------------------------------------------
(* The device *)

\* Seeded fault: the rows of one moment are not told apart.
Remaining_dateOnly(t) == {u \in seen : tables[t][u].stamp > cursor[t][1]}

Remaining(t) == {u \in seen : Before(cursor[t], Key(t, u))}

\* paginateResult: the first rows, the key of the last of them, and if more remain.
Pull(t) ==
    LET rest == Remaining(t)
        page == {u \in rest : Cardinality({v \in rest : Before(Key(t, v), Key(t, u))}) < Limit}
    IN  /\ t \notin fresh
        /\ has' = [has EXCEPT ![t] = [u \in Uuids |->
                       IF u \in page THEN tables[t][u].version ELSE has[t][u]]]
        /\ cursor' = [cursor EXCEPT ![t] =
               IF page = {} THEN @
               ELSE Key(t, CHOOSE u \in page : \A v \in page : ~Before(Key(t, u), Key(t, v)))]
        /\ fresh' = IF page = rest THEN fresh \cup {t} ELSE fresh
        /\ UNCHANGED <<tables, seen, open, edits, clock, late>>

Millisecond == /\ clock < MaxClock
               /\ clock' = clock + 1
               /\ UNCHANGED <<tables, seen, open, edits, cursor, has, fresh, late>>

SyncNext == Begin \/ Commit \/ Millisecond \/ \E t \in Feeds : Pull(t)
SyncSpec == SyncInit /\ [][SyncNext]_syncVars

-----------------------------------------------------------------------------
(* Properties *)

SyncTypeOK ==
    /\ tables \in [Feeds -> [Uuids -> [version : 1 .. 1 + MaxCommits, stamp : 0 .. MaxClock]]]
    /\ seen \subseteq Uuids
    /\ open \subseteq [uuid : Uuids, kind : EditKinds, stamp : 1 .. MaxClock]
    /\ edits \in 0 .. MaxCommits
    /\ clock \in 1 .. MaxClock
    /\ cursor \in [Feeds -> (0 .. MaxClock) \X (Uuids \cup {0})]
    /\ has \in [Feeds -> [Uuids -> 0 .. 1 + MaxCommits]]
    /\ fresh \subseteq Feeds
    /\ late \subseteq Uuids

Lacks(t) == {u \in seen : has[t][u] # tables[t][u].version}

\* A device that has pulled to the end has the last version of every lesson it may
\* see, whatever moments the rows share and wherever the pages break
\* (cursor-paginator.ts:4-11, student-sync.service.ts:226-338); it lacks only those
\* that a transaction stamped before the device passed and committed after it.
LessonsArrive == "lessons" \in fresh => Lacks("lessons") \subseteq late

\* A pull with a cursor brings the changes since the cursor (sync-pull.dto.ts:7-8),
\* so that a device that has pulled to the end, of a school where nobody is in the
\* middle of a change, has every question of every lesson it may see.
QuestionsArrive == "questions" \in fresh /\ late = {} => Lacks("questions") = {}
=============================================================================
