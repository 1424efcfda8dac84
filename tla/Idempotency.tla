---------------------------- MODULE Idempotency ----------------------------
(***************************************************************************)
(* IdempotencyService (school/common/subscription/idempotency.service.ts)  *)
(* as the three critical operations use it: a request reserves its key in  *)
(* a transaction of its own, runs the business transaction, which marks    *)
(* the record COMPLETED before it commits, and on an error records the     *)
(* failure after the rollback.                                             *)
(*                                                                         *)
(* A record has no owner: every write is guarded by the record's status    *)
(* alone.  The database is PostgreSQL at READ COMMITTED, so a statement    *)
(* that would change a row waits for the open transaction that changed it  *)
(* and then tests its WHERE clause on the row that transaction left.       *)
(***************************************************************************)
EXTENDS Naturals

CONSTANTS Requests,      \* attempts at an operation; a retry is a request of its own
          Keys,          \* values of the Idempotency-Key header
          Contexts,      \* school, actor, endpoint and payload hash, as one value
          KeyOf,         \* the key each request carries
          ContextOf,     \* the context each request runs in
          Lease,         \* PROCESSING_LEASE_MS
          TxTimeout,     \* the timeout of a business transaction
          MaxTime,       \* bound: the clock stops here
          NoOne          \* not a request

ASSUME IdempotencyAssumption ==
    /\ KeyOf \in [Requests -> Keys]
    /\ ContextOf \in [Requests -> Contexts]
    /\ Lease \in Nat /\ TxTimeout \in Nat /\ TxTimeout < Lease
    /\ MaxTime \in Nat
    /\ NoOne \notin Requests

VARIABLES record,    \* the IdempotencyRecord row of each key, as last committed
          rowLock,   \* the request whose open transaction has updated that row
          pc,        \* where each request's handler is
          lease,     \* leaseUntil, computed before the first statement
          seen,      \* the row the handler's findUnique returned
          asOf,      \* the new Date() in the reclaim's WHERE clause
          deadline,  \* when the database gives up the business transaction
          reply,     \* what the client was told
          effects,   \* history: the requests whose business effect is committed
          now        \* the clock

stores == <<record, rowLock, effects>>
locals == <<lease, seen, asOf, deadline>>
vars == <<stores, locals, pc, reply, now>>

\* "NONE" stands for no row, `creator` for the context the row was inserted
\* with, `by` for the request whose success it stores.  The retention date of a
\* finished record is never read, so expiresAt keeps the last lease there.
NoRecord == [status |-> "NONE", creator |-> NoOne, by |-> NoOne, expiresAt |-> 0]

Success(r) == [kind |-> "success", of |-> r]
Refusal == [kind |-> "refusal"]
Error == [kind |-> "error"]
NoReply == [kind |-> "none"]

Init == /\ record = [k \in Keys |-> NoRecord]
        /\ rowLock = [k \in Keys |-> NoOne]
        /\ effects = {}
        /\ pc = [r \in Requests |-> "idle"]
        /\ lease = [r \in Requests |-> 0]
        /\ seen = [r \in Requests |-> NoRecord]
        /\ asOf = [r \in Requests |-> 0]
        /\ deadline = [r \in Requests |-> 0]
        /\ reply = [r \in Requests |-> NoReply]
        /\ now = 0

Row(r) == record[KeyOf[r]]

\* An UPDATE of r's row: the creator is never written again.
Update(r, status, by, expiresAt) ==
    record' = [record EXCEPT ![KeyOf[r]] =
                  [status |-> status, creator |-> Row(r).creator,
                   by |-> by, expiresAt |-> expiresAt]]

Goto(r, from, to) == pc[r] = from /\ pc' = [pc EXCEPT ![r] = to]

\* A handler that has ended keeps nothing but the reply.
Forget(r) == /\ lease' = [lease EXCEPT ![r] = 0]
             /\ seen' = [seen EXCEPT ![r] = NoRecord]
             /\ asOf' = [asOf EXCEPT ![r] = 0]
             /\ deadline' = [deadline EXCEPT ![r] = 0]

Finish(r, from, a) == /\ Goto(r, from, "done")
                      /\ reply' = [reply EXCEPT ![r] = a]
                      /\ Forget(r)
                      /\ UNCHANGED now

\* A WHERE clause that holds of r's row.  A statement waits only for a row it
\* would change.
Matches(r, Where) == Where /\ rowLock[KeyOf[r]] = NoOne

-----------------------------------------------------------------------------
(* acquireOrReturn *)

\* Seeded fault: the lease is subtracted from the clock.
Arrive_leaseInThePast(r) == /\ Goto(r, "idle", "insert")
                            /\ lease' = [lease EXCEPT ![r] = now - Lease]
                            /\ UNCHANGED <<stores, seen, asOf, deadline, reply, now>>

\* The handler computes the lease it will ask for, then runs its first statement.
Arrive(r) == /\ Goto(r, "idle", "insert")
             /\ lease' = [lease EXCEPT ![r] = now + Lease]
             /\ UNCHANGED <<stores, seen, asOf, deadline, reply, now>>

InsertRecord(r) == /\ Goto(r, "insert", "run")
                   /\ Row(r).status = "NONE"
                   /\ record' = [record EXCEPT ![KeyOf[r]] =
                         [status |-> "PROCESSING", creator |-> r,
                          by |-> NoOne, expiresAt |-> lease[r]]]
                   /\ UNCHANGED <<rowLock, effects, locals, reply, now>>

\* P2002: the key is taken, read its record in a statement of its own.
InsertRefused(r) == /\ Goto(r, "insert", "find")
                    /\ Row(r).status # "NONE"
                    /\ UNCHANGED <<stores, locals, reply, now>>

FindExisting(r) == /\ Goto(r, "find", "decide")
                   /\ seen' = [seen EXCEPT ![r] = Row(r)]
                   /\ UNCHANGED <<stores, lease, asOf, deadline, reply, now>>

\* Seeded fault: the stored context is not compared.
SameContext_unchecked(r) == TRUE

SameContext(r) == ContextOf[seen[r].creator] = ContextOf[r]

\* Seeded fault: the handler waits for the other request instead of refusing.
RefuseNow_polls(r) == /\ Goto(r, "decide", "find")
                      /\ seen[r].status = "PROCESSING" /\ seen[r].expiresAt > now
                      /\ UNCHANGED <<stores, locals, reply, now>>

\* 409: another context's key, or a lease that still runs.
RefuseNow(r) == /\ Finish(r, "decide", Error)
                /\ \/ ~SameContext(r)
                   \/ seen[r].status = "PROCESSING" /\ seen[r].expiresAt > now
                /\ UNCHANGED stores

ReplayCompleted(r) == /\ Finish(r, "decide", Success(seen[r].by))
                      /\ SameContext(r)
                      /\ seen[r].status = "COMPLETED"
                      /\ UNCHANGED stores

\* Seeded fault: a record in progress falls through to the error of the last failure.
ReplayBusinessFailure_fallsThrough(r) ==
    /\ Finish(r, "decide", Refusal)
    /\ SameContext(r)
    /\ seen[r].status \in {"PROCESSING", "FAILED_BUSINESS"}
    /\ UNCHANGED stores

ReplayBusinessFailure(r) == /\ Finish(r, "decide", Refusal)
                            /\ SameContext(r)
                            /\ seen[r].status = "FAILED_BUSINESS"
                            /\ UNCHANGED stores

\* The two conditional updates are issued at once with the test that asks for them.
WantReclaim(r) == /\ Goto(r, "decide", "reclaim")
                  /\ SameContext(r)
                  /\ seen[r].status = "PROCESSING" /\ seen[r].expiresAt <= now
                  /\ asOf' = [asOf EXCEPT ![r] = now]
                  /\ seen' = [seen EXCEPT ![r] = NoRecord]
                  /\ UNCHANGED <<stores, lease, deadline, reply, now>>

WantRetake(r) == /\ Goto(r, "decide", "retake")
                 /\ SameContext(r)
                 /\ seen[r].status = "FAILED_TRANSIENT"
                 /\ seen' = [seen EXCEPT ![r] = NoRecord]
                 /\ UNCHANGED <<stores, lease, asOf, deadline, reply, now>>

LeaseExpired(r) == Row(r).status = "PROCESSING" /\ Row(r).expiresAt <= asOf[r]

Reclaim(r) == /\ Goto(r, "reclaim", "run")
              /\ Matches(r, LeaseExpired(r))
              /\ Update(r, "PROCESSING", Row(r).by, lease[r])
              /\ UNCHANGED <<rowLock, effects, locals, reply, now>>

ReclaimMissed(r) == /\ ~LeaseExpired(r)
                    /\ Finish(r, "reclaim", Error)
                    /\ UNCHANGED stores

Retake(r) == /\ Goto(r, "retake", "run")
             /\ Matches(r, Row(r).status = "FAILED_TRANSIENT")
             /\ Update(r, "PROCESSING", NoOne, lease[r])
             /\ UNCHANGED <<rowLock, effects, locals, reply, now>>

RetakeMissed(r) == /\ Row(r).status # "FAILED_TRANSIENT"
                   /\ Finish(r, "retake", Error)
                   /\ UNCHANGED stores

-----------------------------------------------------------------------------
(* The business transaction and markCompletedTx *)

BeginTx(r) == /\ Goto(r, "run", "body")
              /\ deadline' = [deadline EXCEPT ![r] = now + TxTimeout]
              /\ asOf' = [asOf EXCEPT ![r] = 0]
              /\ UNCHANGED <<stores, lease, seen, reply, now>>

InTime(r) == now <= deadline[r]

\* Seeded fault: the update of the record has no status in its WHERE clause.
MarkCompleted_anyStatus(r) == /\ Goto(r, "body", "marked")
                              /\ InTime(r)
                              /\ Matches(r, TRUE)
                              /\ rowLock' = [rowLock EXCEPT ![KeyOf[r]] = r]
                              /\ UNCHANGED <<record, effects, locals, reply, now>>

\* The body ran to its end; the update of the record locks the row.
MarkCompleted(r) == /\ Goto(r, "body", "marked")
                    /\ InTime(r)
                    /\ Matches(r, Row(r).status = "PROCESSING")
                    /\ rowLock' = [rowLock EXCEPT ![KeyOf[r]] = r]
                    /\ UNCHANGED <<record, effects, locals, reply, now>>

\* IDEMPOTENCY_LEASE_LOST: the callers file it under either kind of failure.
LeaseLost(r) == /\ \E to \in {"failBusiness", "failTransient"} : Goto(r, "body", to)
                /\ InTime(r)
                /\ Row(r).status # "PROCESSING"
                /\ UNCHANGED <<stores, locals, reply, now>>

\* The body threw one of the errors its caller files as a business failure, or
\* any other; the connection may also fail before there is a transaction.
BodyThrows(r) == /\ \/ \E to \in {"failBusiness", "failTransient"} : Goto(r, "body", to)
                    \/ Goto(r, "run", "failTransient")
                 /\ UNCHANGED <<stores, locals, reply, now>>

\* Effect, response and COMPLETED become visible together.
Commit(r) == /\ Goto(r, "marked", "committed")
             /\ InTime(r)
             /\ Update(r, "COMPLETED", r, Row(r).expiresAt)
             /\ effects' = effects \cup {r}
             /\ rowLock' = [rowLock EXCEPT ![KeyOf[r]] = NoOne]
             /\ UNCHANGED <<locals, reply, now>>

\* The engine rolls back a transaction past its timeout, or one whose COMMIT failed.
RollBack(r) == /\ \/ Goto(r, "marked", "failTransient")
                  \/ ~InTime(r) /\ Goto(r, "body", "failTransient")
               /\ rowLock' = [k \in Keys |-> IF rowLock[k] = r THEN NoOne ELSE rowLock[k]]
               /\ UNCHANGED <<record, effects, locals, reply, now>>

AnswerCommitted(r) == /\ Finish(r, "committed", Success(r))
                      /\ UNCHANGED stores

\* The COMMIT took effect but its acknowledgement was lost: the handler sees an error.
CommitAckLost(r) == /\ Goto(r, "committed", "failTransient")
                    /\ UNCHANGED <<stores, locals, reply, now>>

-----------------------------------------------------------------------------
(* markFailedBusiness and markFailedTransient: safeUpdateFromProcessing *)

\* Seeded fault: the failure is recorded whatever the record says.
MarkFailed_anyStatus(r, from, status) ==
    /\ Goto(r, from, "failed")
    /\ Matches(r, TRUE)
    /\ Update(r, status, NoOne, Row(r).expiresAt)
    /\ UNCHANGED <<rowLock, effects, locals, reply, now>>

MarkFailed(r, from, status) ==
    /\ Goto(r, from, "failed")
    /\ Matches(r, Row(r).status = "PROCESSING")
    /\ Update(r, status, NoOne, Row(r).expiresAt)
    /\ UNCHANGED <<rowLock, effects, locals, reply, now>>

MarkFailedBusiness(r) == MarkFailed(r, "failBusiness", "FAILED_BUSINESS")
MarkFailedTransient(r) == MarkFailed(r, "failTransient", "FAILED_TRANSIENT")

\* No row matches, or the database fails and safeUpdateFromProcessing swallows it.
FailureUnrecorded(r) == /\ \E from \in {"failBusiness", "failTransient"} :
                              Goto(r, from, "failed")
                        /\ UNCHANGED <<stores, locals, reply, now>>

AnswerFailed(r) == /\ Finish(r, "failed", Error)
                   /\ UNCHANGED stores

-----------------------------------------------------------------------------
\* A statement outside the business transaction fails: the handler's error
\* leaves through the caller, which records nothing.
StatementFails(r) == /\ \E at \in {"insert", "find", "reclaim", "retake"} :
                           Finish(r, at, Error)
                     /\ UNCHANGED stores

\* The process dies: the server rolls back its open transaction.
Crash(r) == /\ pc[r] \notin {"idle", "done", "crashed"}
            /\ pc' = [pc EXCEPT ![r] = "crashed"]
            /\ rowLock' = [k \in Keys |-> IF rowLock[k] = r THEN NoOne ELSE rowLock[k]]
            /\ Forget(r)
            /\ UNCHANGED <<record, effects, reply, now>>

Tick == /\ now < MaxTime
        /\ now' = now + 1
        /\ UNCHANGED <<stores, locals, pc, reply>>

Acquire(r) == \/ InsertRecord(r) \/ InsertRefused(r) \/ FindExisting(r)
              \/ RefuseNow(r) \/ ReplayCompleted(r) \/ ReplayBusinessFailure(r)
              \/ WantReclaim(r) \/ Reclaim(r) \/ ReclaimMissed(r)
              \/ WantRetake(r) \/ Retake(r) \/ RetakeMissed(r)

Execute(r) == \/ BeginTx(r) \/ MarkCompleted(r) \/ LeaseLost(r) \/ BodyThrows(r)
              \/ Commit(r) \/ RollBack(r) \/ AnswerCommitted(r)
              \/ MarkFailedBusiness(r) \/ MarkFailedTransient(r)
              \/ FailureUnrecorded(r) \/ AnswerFailed(r)

Next == \/ \E r \in Requests : \/ Arrive(r) \/ Acquire(r) \/ Execute(r)
                               \/ CommitAckLost(r) \/ StatementFails(r) \/ Crash(r)
        \/ Tick

Spec == Init /\ [][Next]_vars

\* Once a request has arrived the server and the database keep serving it.
Fairness == \A r \in Requests : WF_vars(Acquire(r) \/ Execute(r))

FairSpec == Spec /\ Fairness

-----------------------------------------------------------------------------
Records == [status : {"NONE", "PROCESSING", "COMPLETED", "FAILED_BUSINESS",
                      "FAILED_TRANSIENT"},
            creator : Requests \cup {NoOne}, by : Requests \cup {NoOne},
            expiresAt : Nat]

Places == {"idle", "insert", "find", "decide", "reclaim", "retake", "run", "body",
           "marked", "committed", "failBusiness", "failTransient", "failed",
           "done", "crashed"}

\* The types of the variables.
TypeOK == /\ record \in [Keys -> Records]
          /\ rowLock \in [Keys -> Requests \cup {NoOne}]
          /\ effects \subseteq Requests
          /\ pc \in [Requests -> Places]
          /\ lease \in [Requests -> Nat]
          /\ seen \in [Requests -> Records]
          /\ asOf \in [Requests -> Nat]
          /\ deadline \in [Requests -> Nat]
          /\ reply \in [Requests -> {NoReply, Refusal, Error} \cup
                                    {Success(r) : r \in Requests \cup {NoOne}}]
          /\ now \in Nat

EffectsOf(k) == {r \in effects : KeyOf[r] = k}

\* However often a client repeats a request under one key, and whatever fails,
\* expires or is reclaimed meanwhile, the operation takes effect at most once,
\* and the record says COMPLETED exactly when it has.
EffectOnceAndRecorded ==
    \A k \in Keys : EffectsOf(k) = IF record[k].status = "COMPLETED"
                                   THEN {record[k].by} ELSE {}

\* A client told of success, by its own request or by a replay, is told of an
\* effect that is committed and that a request in the client's own context made.
SuccessIsReal ==
    \A r \in Requests, by \in Requests \cup {NoOne} : reply[r] = Success(by) =>
        /\ by \in effects
        /\ KeyOf[by] = KeyOf[r]
        /\ ContextOf[by] = ContextOf[r]

\* Once a client has been sent the error on record, no later request under that
\* key can make the operation happen after all.
RefusalIsFinal ==
    \A r \in Requests : reply[r] = Refusal => EffectsOf(KeyOf[r]) = {}

\* Every request that arrives is answered, unless its process dies: nobody waits
\* for ever on the record's row lock.
EveryRequestAnswered ==
    \A r \in Requests : pc[r] # "idle" ~> pc[r] \in {"done", "crashed"}

\* The comment on markCompletedTx: the record cannot be lost to another request
\* while the lease runs.
LeaseHolds ==
    [][\A r \in Requests : LeaseLost(r) => now >= lease[r]]_vars

-----------------------------------------------------------------------------
Fate(k) == IF record[k].status = "COMPLETED"
           THEN [fate |-> "applied", by |-> record[k].by]
           ELSE IF record[k].status = "FAILED_BUSINESS"
                THEN [fate |-> "refused"]
                ELSE [fate |-> "open"]

Promise == INSTANCE AtMostOnce WITH outcome <- [k \in Keys |-> Fate(k)]

\* The service keeps the promise of AtMostOnce: under the mapping of records to
\* fates each of its steps is a step of the promise or changes nothing in it.
KeepsPromise == Promise!Spec
=============================================================================
