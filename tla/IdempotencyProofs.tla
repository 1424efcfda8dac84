------------------------- MODULE IdempotencyProofs -------------------------
(***************************************************************************)
(* For any number of requests, keys and contexts and any lease: the        *)
(* service applies an operation at most once per key, answers truthfully,  *)
(* and implements AtMostOnce.  Neither the clock nor the length of the     *)
(* lease is used: what the leases decide is who may try, and the row lock  *)
(* and the status test of markCompletedTx decide who succeeds.             *)
(***************************************************************************)
EXTENDS Idempotency, TLAPS

\* The row lock of a record is held exactly by the request that has marked it and
\* not yet committed, and the row still reads PROCESSING meanwhile.
LockInv == /\ \A k \in Keys : rowLock[k] # NoOne =>
                 /\ pc[rowLock[k]] = "marked"
                 /\ KeyOf[rowLock[k]] = k
                 /\ record[k].status = "PROCESSING"
           /\ \A r \in Requests : pc[r] = "marked" => rowLock[KeyOf[r]] = r

\* A request that may still write the record shares the context it was made in.
HasReserved(r) == pc[r] \in {"reclaim", "retake", "run", "body", "marked"}

ContextInv ==
    /\ \A k \in Keys : record[k].status # "NONE" => record[k].creator \in Requests
    /\ \A r \in Requests : pc[r] = "find" => Row(r).status # "NONE"
    /\ \A r \in Requests : HasReserved(r) =>
          /\ Row(r).status # "NONE"
          /\ ContextOf[Row(r).creator] = ContextOf[r]
    /\ \A k \in Keys : record[k].status = "COMPLETED" =>
          /\ record[k].by \in Requests
          /\ ContextOf[record[k].by] = ContextOf[record[k].creator]

\* What a handler has read of a verdict is still so, whenever it acts on it.
SeenInv == \A r \in Requests : pc[r] = "decide" =>
              /\ seen[r].status # "NONE"
              /\ Row(r).status # "NONE"
              /\ seen[r].creator = Row(r).creator
              /\ seen[r].status = "COMPLETED" =>
                    Row(r).status = "COMPLETED" /\ Row(r).by = seen[r].by
              /\ seen[r].status = "FAILED_BUSINESS" => Row(r).status = "FAILED_BUSINESS"

\* A handler past its commit has its effect in the database, and one that has not
\* ended has told its client nothing.
HandlerInv ==
    /\ \A r \in Requests : pc[r] = "committed" => r \in effects
    /\ \A r \in Requests : pc[r] \notin {"done", "crashed"} => reply[r] = NoReply

\* What clients have been told is on record.
ReplyInv ==
    /\ \A r \in Requests, by \in Requests \cup {NoOne} : reply[r] = Success(by) =>
          /\ Row(r).status = "COMPLETED"
          /\ Row(r).by = by
          /\ ContextOf[Row(r).creator] = ContextOf[r]
    /\ \A r \in Requests : reply[r] = Refusal => Row(r).status = "FAILED_BUSINESS"

IInv == /\ TypeOK /\ EffectOnceAndRecorded
        /\ LockInv /\ ContextInv /\ SeenInv /\ HandlerInv /\ ReplyInv

-----------------------------------------------------------------------------
\* The steps that move a handler along and write nothing in the database, ...
Moves(r) == \/ Arrive(r) \/ InsertRefused(r) \/ FindExisting(r)
            \/ WantReclaim(r) \/ WantRetake(r) \/ BeginTx(r) \/ LeaseLost(r)
            \/ BodyThrows(r) \/ CommitAckLost(r) \/ FailureUnrecorded(r)

\* ... those that answer the client, ...
Answers(r) == \/ RefuseNow(r) \/ ReplayCompleted(r) \/ ReplayBusinessFailure(r)
              \/ ReclaimMissed(r) \/ RetakeMissed(r) \/ AnswerCommitted(r)
              \/ AnswerFailed(r) \/ StatementFails(r)

\* ... those that take or drop the row lock, and those that write the record.
Locks(r) == MarkCompleted(r) \/ RollBack(r) \/ Crash(r)

Reserves(r) == InsertRecord(r) \/ Reclaim(r) \/ Retake(r)

Fails(r) == MarkFailedBusiness(r) \/ MarkFailedTransient(r)

\* Every step of the service is of one of eight sorts.
LEMMA StepCases ==
  ASSUME [Next]_vars
  PROVE  \/ \E r \in Requests : \/ Moves(r) \/ Answers(r) \/ Locks(r)
                                \/ Reserves(r) \/ Commit(r) \/ Fails(r)
         \/ Tick \/ UNCHANGED vars
  BY DEF Next, Acquire, Execute, Moves, Answers, Locks, Reserves, Fails

\* Every step keeps the types.
LEMMA TypeStep == TypeOK /\ [Next]_vars => TypeOK'
<1> SUFFICES ASSUME TypeOK, [Next]_vars PROVE TypeOK'
  OBVIOUS
<1> USE IdempotencyAssumption DEF TypeOK, Records, Places, stores, locals, Row, Goto,
        Forget, Finish, Matches, Update, NoRecord, NoReply, Refusal, Error, Success
<1>1. ASSUME NEW r \in Requests, Moves(r) PROVE TypeOK'
  <2>1. CASE Arrive(r)
    BY <2>1 DEF Arrive
  <2>2. CASE InsertRefused(r)
    BY <2>2 DEF InsertRefused
  <2>3. CASE FindExisting(r)
    BY <2>3 DEF FindExisting
  <2>4. CASE WantReclaim(r)
    BY <2>4 DEF WantReclaim
  <2>5. CASE WantRetake(r)
    BY <2>5 DEF WantRetake
  <2>6. CASE BeginTx(r)
    BY <2>6 DEF BeginTx
  <2>7. CASE LeaseLost(r)
    BY <2>7 DEF LeaseLost
  <2>8. CASE BodyThrows(r)
    <3>1. pc \in [Requests -> Places] /\ {"failBusiness", "failTransient"} \subseteq Places
      OBVIOUS
    <3> HIDE DEF TypeOK, Places
    <3>2. /\ \E to \in Places : pc' = [pc EXCEPT ![r] = to]
          /\ UNCHANGED <<stores, locals, reply, now>>
      BY <2>8, <3>1 DEF BodyThrows
    <3>3. pc' \in [Requests -> Places]
      BY <3>1, <3>2
    <3> QED
      BY <3>2, <3>3 DEF TypeOK
  <2>9. CASE CommitAckLost(r)
    BY <2>9 DEF CommitAckLost
  <2>10. CASE FailureUnrecorded(r)
    BY <2>10 DEF FailureUnrecorded
  <2> QED
    BY <2>1, <2>2, <2>3, <2>4, <2>5, <2>6, <2>7, <2>8, <2>9, <2>10, <1>1 DEF Moves
<1>2. ASSUME NEW r \in Requests, Answers(r) PROVE TypeOK'
  <2>1. CASE RefuseNow(r)
    BY <2>1 DEF RefuseNow
  <2>2. CASE ReplayCompleted(r)
    BY <2>2 DEF ReplayCompleted
  <2>3. CASE ReplayBusinessFailure(r)
    BY <2>3 DEF ReplayBusinessFailure
  <2>4. CASE ReclaimMissed(r)
    BY <2>4 DEF ReclaimMissed, LeaseExpired
  <2>5. CASE RetakeMissed(r)
    BY <2>5 DEF RetakeMissed
  <2>6. CASE AnswerCommitted(r)
    BY <2>6 DEF AnswerCommitted
  <2>7. CASE AnswerFailed(r)
    BY <2>7 DEF AnswerFailed
  <2>8. CASE StatementFails(r)
    BY <2>8 DEF StatementFails
  <2> QED
    BY <2>1, <2>2, <2>3, <2>4, <2>5, <2>6, <2>7, <2>8, <1>2 DEF Answers
<1>3. ASSUME NEW r \in Requests, Locks(r) PROVE TypeOK'
  <2>1. CASE MarkCompleted(r)
    BY <2>1 DEF MarkCompleted
  <2>2. CASE RollBack(r)
    <3>1. /\ pc \in [Requests -> Places] /\ "failTransient" \in Places
          /\ rowLock \in [Keys -> Requests \cup {NoOne}]
      OBVIOUS
    <3> HIDE DEF TypeOK, Places
    <3>2. /\ pc' = [pc EXCEPT ![r] = "failTransient"]
          /\ rowLock' = [k \in Keys |-> IF rowLock[k] = r THEN NoOne ELSE rowLock[k]]
          /\ UNCHANGED <<record, effects, locals, reply, now>>
      BY <2>2 DEF RollBack
    <3>3. pc' \in [Requests -> Places] /\ rowLock' \in [Keys -> Requests \cup {NoOne}]
      BY <3>1, <3>2
    <3> QED
      BY <3>2, <3>3 DEF TypeOK
  <2>3. CASE Crash(r)
    BY <2>3 DEF Crash
  <2> QED
    BY <2>1, <2>2, <2>3, <1>3 DEF Locks
<1>4. ASSUME NEW r \in Requests, Reserves(r) PROVE TypeOK'
  <2>1. CASE InsertRecord(r)
    BY <2>1 DEF InsertRecord
  <2>2. CASE Reclaim(r)
    BY <2>2 DEF Reclaim, LeaseExpired
  <2>3. CASE Retake(r)
    BY <2>3 DEF Retake
  <2> QED
    BY <2>1, <2>2, <2>3, <1>4 DEF Reserves
<1>5. ASSUME NEW r \in Requests, Commit(r) PROVE TypeOK'
  BY <1>5 DEF Commit
<1>6. ASSUME NEW r \in Requests, Fails(r) PROVE TypeOK'
  <2>1. CASE MarkFailedBusiness(r)
    BY <2>1 DEF MarkFailedBusiness, MarkFailed
  <2>2. CASE MarkFailedTransient(r)
    BY <2>2 DEF MarkFailedTransient, MarkFailed
  <2> QED
    BY <2>1, <2>2, <1>6 DEF Fails
<1>7. CASE Tick
  BY <1>7 DEF Tick
<1>8. CASE UNCHANGED vars
  BY <1>8 DEF vars
<1> QED
  BY StepCases, <1>1, <1>2, <1>3, <1>4, <1>5, <1>6, <1>7, <1>8

\* Only Commit adds an effect, under the row lock, on a record still PROCESSING; and
\* no write guarded by the status touches a COMPLETED record.
LEMMA EffectOnceAndRecordedStep == IInv /\ [Next]_vars => EffectOnceAndRecorded'
<1> SUFFICES ASSUME IInv, [Next]_vars, TypeOK' PROVE EffectOnceAndRecorded'
  BY TypeStep DEF IInv
<1> USE IdempotencyAssumption DEF IInv, TypeOK, Records, Places, stores, locals, Row, Goto,
        Forget, Finish, Matches, Update, NoRecord, NoReply, Refusal, Error, Success,
        EffectOnceAndRecorded, EffectsOf, LockInv, ContextInv
<1>1. ASSUME NEW r \in Requests, Moves(r) PROVE EffectOnceAndRecorded'
  BY <1>1 DEF Moves, Arrive, InsertRefused, FindExisting, WantReclaim,
         WantRetake, BeginTx, LeaseLost, BodyThrows, CommitAckLost,
         FailureUnrecorded
<1>2. ASSUME NEW r \in Requests, Answers(r) PROVE EffectOnceAndRecorded'
  <2>1. CASE RefuseNow(r)
    BY <2>1 DEF RefuseNow
  <2>2. CASE ReplayCompleted(r)
    BY <2>2 DEF ReplayCompleted
  <2>3. CASE ReplayBusinessFailure(r)
    BY <2>3 DEF ReplayBusinessFailure
  <2>4. CASE ReclaimMissed(r)
    BY <2>4 DEF ReclaimMissed, LeaseExpired
  <2>5. CASE RetakeMissed(r)
    BY <2>5 DEF RetakeMissed
  <2>6. CASE AnswerCommitted(r)
    BY <2>6 DEF AnswerCommitted
  <2>7. CASE AnswerFailed(r)
    BY <2>7 DEF AnswerFailed
  <2>8. CASE StatementFails(r)
    BY <2>8 DEF StatementFails
  <2> QED
    BY <2>1, <2>2, <2>3, <2>4, <2>5, <2>6, <2>7, <2>8, <1>2 DEF Answers
<1>3. ASSUME NEW r \in Requests, Locks(r) PROVE EffectOnceAndRecorded'
  BY <1>3 DEF Locks, MarkCompleted, RollBack, Crash
<1>4. ASSUME NEW r \in Requests, Reserves(r) PROVE EffectOnceAndRecorded'
  BY <1>4 DEF Reserves, InsertRecord, Reclaim, LeaseExpired, Retake
<1>5. ASSUME NEW r \in Requests, Commit(r) PROVE EffectOnceAndRecorded'
  BY <1>5 DEF Commit
<1>6. ASSUME NEW r \in Requests, Fails(r) PROVE EffectOnceAndRecorded'
  <2>1. CASE MarkFailedBusiness(r)
    BY <2>1 DEF MarkFailedBusiness, MarkFailed
  <2>2. CASE MarkFailedTransient(r)
    BY <2>2 DEF MarkFailedTransient, MarkFailed
  <2> QED
    BY <2>1, <2>2, <1>6 DEF Fails
<1>7. CASE Tick
  BY <1>7 DEF Tick
<1>8. CASE UNCHANGED vars
  BY <1>8 DEF vars
<1> QED
  BY StepCases, <1>1, <1>2, <1>3, <1>4, <1>5, <1>6, <1>7, <1>8

\* A marked record waits for its transaction: no other statement changes a locked row.
LEMMA LockInvStep == IInv /\ [Next]_vars => LockInv'
<1> SUFFICES ASSUME IInv, [Next]_vars, TypeOK' PROVE LockInv'
  BY TypeStep DEF IInv
<1> USE IdempotencyAssumption DEF IInv, TypeOK, Records, Places, stores, locals, Row, Goto,
        Forget, Finish, Matches, Update, NoRecord, NoReply, Refusal, Error, Success,
        LockInv
<1>1. ASSUME NEW r \in Requests, Moves(r) PROVE LockInv'
  <2>1. CASE Arrive(r)
    BY <2>1 DEF Arrive
  <2>2. CASE InsertRefused(r)
    BY <2>2 DEF InsertRefused
  <2>3. CASE FindExisting(r)
    BY <2>3 DEF FindExisting
  <2>4. CASE WantReclaim(r)
    BY <2>4 DEF WantReclaim
  <2>5. CASE WantRetake(r)
    BY <2>5 DEF WantRetake
  <2>6. CASE BeginTx(r)
    BY <2>6 DEF BeginTx
  <2>7. CASE LeaseLost(r)
    BY <2>7 DEF LeaseLost
  <2>8. CASE BodyThrows(r)
    BY <2>8 DEF BodyThrows
  <2>9. CASE CommitAckLost(r)
    BY <2>9 DEF CommitAckLost
  <2>10. CASE FailureUnrecorded(r)
    BY <2>10 DEF FailureUnrecorded
  <2> QED
    BY <2>1, <2>2, <2>3, <2>4, <2>5, <2>6, <2>7, <2>8, <2>9, <2>10, <1>1 DEF Moves
<1>2. ASSUME NEW r \in Requests, Answers(r) PROVE LockInv'
  <2>1. CASE RefuseNow(r)
    BY <2>1 DEF RefuseNow
  <2>2. CASE ReplayCompleted(r)
    BY <2>2 DEF ReplayCompleted
  <2>3. CASE ReplayBusinessFailure(r)
    BY <2>3 DEF ReplayBusinessFailure
  <2>4. CASE ReclaimMissed(r)
    BY <2>4 DEF ReclaimMissed, LeaseExpired
  <2>5. CASE RetakeMissed(r)
    BY <2>5 DEF RetakeMissed
  <2>6. CASE AnswerCommitted(r)
    BY <2>6 DEF AnswerCommitted
  <2>7. CASE AnswerFailed(r)
    BY <2>7 DEF AnswerFailed
  <2>8. CASE StatementFails(r)
    BY <2>8 DEF StatementFails
  <2> QED
    BY <2>1, <2>2, <2>3, <2>4, <2>5, <2>6, <2>7, <2>8, <1>2 DEF Answers
<1>3. ASSUME NEW r \in Requests, Locks(r) PROVE LockInv'
  <2>1. CASE MarkCompleted(r)
    BY <2>1 DEF MarkCompleted
  <2>2. CASE RollBack(r)
    BY <2>2 DEF RollBack
  <2>3. CASE Crash(r)
    BY <2>3 DEF Crash
  <2> QED
    BY <2>1, <2>2, <2>3, <1>3 DEF Locks
<1>4. ASSUME NEW r \in Requests, Reserves(r) PROVE LockInv'
  BY <1>4 DEF Reserves, InsertRecord, Reclaim, LeaseExpired, Retake
<1>5. ASSUME NEW r \in Requests, Commit(r) PROVE LockInv'
  BY <1>5 DEF Commit
<1>6. ASSUME NEW r \in Requests, Fails(r) PROVE LockInv'
  <2>1. CASE MarkFailedBusiness(r)
    BY <2>1 DEF MarkFailedBusiness, MarkFailed
  <2>2. CASE MarkFailedTransient(r)
    BY <2>2 DEF MarkFailedTransient, MarkFailed
  <2> QED
    BY <2>1, <2>2, <1>6 DEF Fails
<1>7. CASE Tick
  BY <1>7 DEF Tick
<1>8. CASE UNCHANGED vars
  BY <1>8 DEF vars
<1> QED
  BY StepCases, <1>1, <1>2, <1>3, <1>4, <1>5, <1>6, <1>7, <1>8

\* The creator of a record never changes, and who goes on has compared contexts.
LEMMA ContextInvStep == IInv /\ [Next]_vars => ContextInv'
<1> SUFFICES ASSUME IInv, [Next]_vars, TypeOK' PROVE ContextInv'
  BY TypeStep DEF IInv
<1> USE IdempotencyAssumption DEF IInv, TypeOK, Records, Places, stores, locals, Row, Goto,
        Forget, Finish, Matches, Update, NoRecord, NoReply, Refusal, Error, Success,
        ContextInv, HasReserved, SameContext, SeenInv
<1>1. ASSUME NEW r \in Requests, Moves(r) PROVE ContextInv'
  <2>1. CASE Arrive(r)
    BY <2>1 DEF Arrive
  <2>2. CASE InsertRefused(r)
    BY <2>2 DEF InsertRefused
  <2>3. CASE FindExisting(r)
    BY <2>3 DEF FindExisting
  <2>4. CASE WantReclaim(r)
    BY <2>4 DEF WantReclaim
  <2>5. CASE WantRetake(r)
    BY <2>5 DEF WantRetake
  <2>6. CASE BeginTx(r)
    BY <2>6 DEF BeginTx
  <2>7. CASE LeaseLost(r)
    BY <2>7 DEF LeaseLost
  <2>8. CASE BodyThrows(r)
    BY <2>8 DEF BodyThrows
  <2>9. CASE CommitAckLost(r)
    BY <2>9 DEF CommitAckLost
  <2>10. CASE FailureUnrecorded(r)
    BY <2>10 DEF FailureUnrecorded
  <2> QED
    BY <2>1, <2>2, <2>3, <2>4, <2>5, <2>6, <2>7, <2>8, <2>9, <2>10, <1>1 DEF Moves
<1>2. ASSUME NEW r \in Requests, Answers(r) PROVE ContextInv'
  <2>1. CASE RefuseNow(r)
    BY <2>1 DEF RefuseNow
  <2>2. CASE ReplayCompleted(r)
    BY <2>2 DEF ReplayCompleted
  <2>3. CASE ReplayBusinessFailure(r)
    BY <2>3 DEF ReplayBusinessFailure
  <2>4. CASE ReclaimMissed(r)
    BY <2>4 DEF ReclaimMissed, LeaseExpired
  <2>5. CASE RetakeMissed(r)
    BY <2>5 DEF RetakeMissed
  <2>6. CASE AnswerCommitted(r)
    BY <2>6 DEF AnswerCommitted
  <2>7. CASE AnswerFailed(r)
    BY <2>7 DEF AnswerFailed
  <2>8. CASE StatementFails(r)
    BY <2>8 DEF StatementFails
  <2> QED
    BY <2>1, <2>2, <2>3, <2>4, <2>5, <2>6, <2>7, <2>8, <1>2 DEF Answers
<1>3. ASSUME NEW r \in Requests, Locks(r) PROVE ContextInv'
  BY <1>3 DEF Locks, MarkCompleted, RollBack, Crash
<1>4. ASSUME NEW r \in Requests, Reserves(r) PROVE ContextInv'
  <2>1. CASE InsertRecord(r)
    BY <2>1 DEF InsertRecord
  <2>2. CASE Reclaim(r)
    BY <2>2 DEF Reclaim, LeaseExpired
  <2>3. CASE Retake(r)
    BY <2>3 DEF Retake
  <2> QED
    BY <2>1, <2>2, <2>3, <1>4 DEF Reserves
<1>5. ASSUME NEW r \in Requests, Commit(r) PROVE ContextInv'
  BY <1>5 DEF Commit
<1>6. ASSUME NEW r \in Requests, Fails(r) PROVE ContextInv'
  <2>1. CASE MarkFailedBusiness(r)
    BY <2>1 DEF MarkFailedBusiness, MarkFailed
  <2>2. CASE MarkFailedTransient(r)
    BY <2>2 DEF MarkFailedTransient, MarkFailed
  <2> QED
    BY <2>1, <2>2, <1>6 DEF Fails
<1>7. CASE Tick
  BY <1>7 DEF Tick
<1>8. CASE UNCHANGED vars
  BY <1>8 DEF vars
<1> QED
  BY StepCases, <1>1, <1>2, <1>3, <1>4, <1>5, <1>6, <1>7, <1>8

\* The verdicts COMPLETED and FAILED_BUSINESS are never overwritten, so what a
\* handler read of one is not stale.
LEMMA SeenInvStep == IInv /\ [Next]_vars => SeenInv'
<1> SUFFICES ASSUME IInv, [Next]_vars, TypeOK' PROVE SeenInv'
  BY TypeStep DEF IInv
<1> USE IdempotencyAssumption DEF IInv, TypeOK, Records, Places, stores, locals, Row, Goto,
        Forget, Finish, Matches, Update, NoRecord, NoReply, Refusal, Error, Success,
        SeenInv, LockInv, ContextInv
<1>1. ASSUME NEW r \in Requests, Moves(r) PROVE SeenInv'
  <2>1. CASE Arrive(r)
    BY <2>1 DEF Arrive
  <2>2. CASE InsertRefused(r)
    BY <2>2 DEF InsertRefused
  <2>3. CASE FindExisting(r)
    BY <2>3 DEF FindExisting
  <2>4. CASE WantReclaim(r)
    BY <2>4 DEF WantReclaim
  <2>5. CASE WantRetake(r)
    BY <2>5 DEF WantRetake
  <2>6. CASE BeginTx(r)
    BY <2>6 DEF BeginTx
  <2>7. CASE LeaseLost(r)
    BY <2>7 DEF LeaseLost
  <2>8. CASE BodyThrows(r)
    BY <2>8 DEF BodyThrows
  <2>9. CASE CommitAckLost(r)
    BY <2>9 DEF CommitAckLost
  <2>10. CASE FailureUnrecorded(r)
    BY <2>10 DEF FailureUnrecorded
  <2> QED
    BY <2>1, <2>2, <2>3, <2>4, <2>5, <2>6, <2>7, <2>8, <2>9, <2>10, <1>1 DEF Moves
<1>2. ASSUME NEW r \in Requests, Answers(r) PROVE SeenInv'
  <2>1. CASE RefuseNow(r)
    BY <2>1 DEF RefuseNow
  <2>2. CASE ReplayCompleted(r)
    BY <2>2 DEF ReplayCompleted
  <2>3. CASE ReplayBusinessFailure(r)
    BY <2>3 DEF ReplayBusinessFailure
  <2>4. CASE ReclaimMissed(r)
    BY <2>4 DEF ReclaimMissed, LeaseExpired
  <2>5. CASE RetakeMissed(r)
    BY <2>5 DEF RetakeMissed
  <2>6. CASE AnswerCommitted(r)
    BY <2>6 DEF AnswerCommitted
  <2>7. CASE AnswerFailed(r)
    BY <2>7 DEF AnswerFailed
  <2>8. CASE StatementFails(r)
    BY <2>8 DEF StatementFails
  <2> QED
    BY <2>1, <2>2, <2>3, <2>4, <2>5, <2>6, <2>7, <2>8, <1>2 DEF Answers
<1>3. ASSUME NEW r \in Requests, Locks(r) PROVE SeenInv'
  BY <1>3 DEF Locks, MarkCompleted, RollBack, Crash
<1>4. ASSUME NEW r \in Requests, Reserves(r) PROVE SeenInv'
  <2>1. CASE InsertRecord(r)
    BY <2>1 DEF InsertRecord
  <2>2. CASE Reclaim(r)
    BY <2>2 DEF Reclaim, LeaseExpired
  <2>3. CASE Retake(r)
    BY <2>3 DEF Retake
  <2> QED
    BY <2>1, <2>2, <2>3, <1>4 DEF Reserves
<1>5. ASSUME NEW r \in Requests, Commit(r) PROVE SeenInv'
  BY <1>5 DEF Commit
<1>6. ASSUME NEW r \in Requests, Fails(r) PROVE SeenInv'
  <2>1. CASE MarkFailedBusiness(r)
    BY <2>1 DEF MarkFailedBusiness, MarkFailed
  <2>2. CASE MarkFailedTransient(r)
    BY <2>2 DEF MarkFailedTransient, MarkFailed
  <2> QED
    BY <2>1, <2>2, <1>6 DEF Fails
<1>7. CASE Tick
  BY <1>7 DEF Tick
<1>8. CASE UNCHANGED vars
  BY <1>8 DEF vars
<1> QED
  BY StepCases, <1>1, <1>2, <1>3, <1>4, <1>5, <1>6, <1>7, <1>8

\* A handler answers once, and only when it ends.
LEMMA HandlerInvStep == IInv /\ [Next]_vars => HandlerInv'
<1> SUFFICES ASSUME IInv, [Next]_vars, TypeOK' PROVE HandlerInv'
  BY TypeStep DEF IInv
<1> USE IdempotencyAssumption DEF IInv, TypeOK, Records, Places, stores, locals, Row, Goto,
        Forget, Finish, Matches, Update, NoRecord, NoReply, Refusal, Error, Success,
        HandlerInv
<1>1. ASSUME NEW r \in Requests, Moves(r) PROVE HandlerInv'
  <2>1. CASE Arrive(r)
    BY <2>1 DEF Arrive
  <2>2. CASE InsertRefused(r)
    BY <2>2 DEF InsertRefused
  <2>3. CASE FindExisting(r)
    BY <2>3 DEF FindExisting
  <2>4. CASE WantReclaim(r)
    BY <2>4 DEF WantReclaim
  <2>5. CASE WantRetake(r)
    BY <2>5 DEF WantRetake
  <2>6. CASE BeginTx(r)
    BY <2>6 DEF BeginTx
  <2>7. CASE LeaseLost(r)
    BY <2>7 DEF LeaseLost
  <2>8. CASE BodyThrows(r)
    BY <2>8 DEF BodyThrows
  <2>9. CASE CommitAckLost(r)
    BY <2>9 DEF CommitAckLost
  <2>10. CASE FailureUnrecorded(r)
    BY <2>10 DEF FailureUnrecorded
  <2> QED
    BY <2>1, <2>2, <2>3, <2>4, <2>5, <2>6, <2>7, <2>8, <2>9, <2>10, <1>1 DEF Moves
<1>2. ASSUME NEW r \in Requests, Answers(r) PROVE HandlerInv'
  <2>1. CASE RefuseNow(r)
    BY <2>1 DEF RefuseNow
  <2>2. CASE ReplayCompleted(r)
    BY <2>2 DEF ReplayCompleted
  <2>3. CASE ReplayBusinessFailure(r)
    BY <2>3 DEF ReplayBusinessFailure
  <2>4. CASE ReclaimMissed(r)
    BY <2>4 DEF ReclaimMissed, LeaseExpired
  <2>5. CASE RetakeMissed(r)
    BY <2>5 DEF RetakeMissed
  <2>6. CASE AnswerCommitted(r)
    BY <2>6 DEF AnswerCommitted
  <2>7. CASE AnswerFailed(r)
    BY <2>7 DEF AnswerFailed
  <2>8. CASE StatementFails(r)
    BY <2>8 DEF StatementFails
  <2> QED
    BY <2>1, <2>2, <2>3, <2>4, <2>5, <2>6, <2>7, <2>8, <1>2 DEF Answers
<1>3. ASSUME NEW r \in Requests, Locks(r) PROVE HandlerInv'
  <2>1. CASE MarkCompleted(r)
    BY <2>1 DEF MarkCompleted
  <2>2. CASE RollBack(r)
    BY <2>2 DEF RollBack
  <2>3. CASE Crash(r)
    BY <2>3 DEF Crash
  <2> QED
    BY <2>1, <2>2, <2>3, <1>3 DEF Locks
<1>4. ASSUME NEW r \in Requests, Reserves(r) PROVE HandlerInv'
  <2>1. CASE InsertRecord(r)
    BY <2>1 DEF InsertRecord
  <2>2. CASE Reclaim(r)
    BY <2>2 DEF Reclaim, LeaseExpired
  <2>3. CASE Retake(r)
    BY <2>3 DEF Retake
  <2> QED
    BY <2>1, <2>2, <2>3, <1>4 DEF Reserves
<1>5. ASSUME NEW r \in Requests, Commit(r) PROVE HandlerInv'
  BY <1>5 DEF Commit
<1>6. ASSUME NEW r \in Requests, Fails(r) PROVE HandlerInv'
  <2>1. CASE MarkFailedBusiness(r)
    BY <2>1 DEF MarkFailedBusiness, MarkFailed
  <2>2. CASE MarkFailedTransient(r)
    BY <2>2 DEF MarkFailedTransient, MarkFailed
  <2> QED
    BY <2>1, <2>2, <1>6 DEF Fails
<1>7. CASE Tick
  BY <1>7 DEF Tick
<1>8. CASE UNCHANGED vars
  BY <1>8 DEF vars
<1> QED
  BY StepCases, <1>1, <1>2, <1>3, <1>4, <1>5, <1>6, <1>7, <1>8

\* What a client was told stays on record.
LEMMA ReplyInvStep == IInv /\ [Next]_vars => ReplyInv'
<1> SUFFICES ASSUME IInv, [Next]_vars, TypeOK' PROVE ReplyInv'
  BY TypeStep DEF IInv
<1> USE IdempotencyAssumption DEF IInv, TypeOK, Records, Places, stores, locals, Row, Goto,
        Forget, Finish, Matches, Update, NoRecord, NoReply, Refusal, Error, Success,
        ReplyInv, SeenInv, SameContext, ContextInv, LockInv, HandlerInv,
        EffectOnceAndRecorded, EffectsOf
<1>1. ASSUME NEW r \in Requests, Moves(r) PROVE ReplyInv'
  <2>1. CASE Arrive(r)
    BY <2>1 DEF Arrive
  <2>2. CASE InsertRefused(r)
    BY <2>2 DEF InsertRefused
  <2>3. CASE FindExisting(r)
    BY <2>3 DEF FindExisting
  <2>4. CASE WantReclaim(r)
    BY <2>4 DEF WantReclaim
  <2>5. CASE WantRetake(r)
    BY <2>5 DEF WantRetake
  <2>6. CASE BeginTx(r)
    BY <2>6 DEF BeginTx
  <2>7. CASE LeaseLost(r)
    BY <2>7 DEF LeaseLost
  <2>8. CASE BodyThrows(r)
    BY <2>8 DEF BodyThrows
  <2>9. CASE CommitAckLost(r)
    BY <2>9 DEF CommitAckLost
  <2>10. CASE FailureUnrecorded(r)
    BY <2>10 DEF FailureUnrecorded
  <2> QED
    BY <2>1, <2>2, <2>3, <2>4, <2>5, <2>6, <2>7, <2>8, <2>9, <2>10, <1>1 DEF Moves
<1>2. ASSUME NEW r \in Requests, Answers(r) PROVE ReplyInv'
  <2>1. CASE RefuseNow(r)
    BY <2>1 DEF RefuseNow
  <2>2. CASE ReplayCompleted(r)
    BY <2>2 DEF ReplayCompleted
  <2>3. CASE ReplayBusinessFailure(r)
    BY <2>3 DEF ReplayBusinessFailure
  <2>4. CASE ReclaimMissed(r)
    BY <2>4 DEF ReclaimMissed, LeaseExpired
  <2>5. CASE RetakeMissed(r)
    BY <2>5 DEF RetakeMissed
  <2>6. CASE AnswerCommitted(r)
    BY <2>6 DEF AnswerCommitted
  <2>7. CASE AnswerFailed(r)
    BY <2>7 DEF AnswerFailed
  <2>8. CASE StatementFails(r)
    BY <2>8 DEF StatementFails
  <2> QED
    BY <2>1, <2>2, <2>3, <2>4, <2>5, <2>6, <2>7, <2>8, <1>2 DEF Answers
<1>3. ASSUME NEW r \in Requests, Locks(r) PROVE ReplyInv'
  <2>1. CASE MarkCompleted(r)
    BY <2>1 DEF MarkCompleted
  <2>2. CASE RollBack(r)
    BY <2>2 DEF RollBack
  <2>3. CASE Crash(r)
    BY <2>3 DEF Crash
  <2> QED
    BY <2>1, <2>2, <2>3, <1>3 DEF Locks
<1>4. ASSUME NEW r \in Requests, Reserves(r) PROVE ReplyInv'
  <2>1. CASE InsertRecord(r)
    BY <2>1 DEF InsertRecord
  <2>2. CASE Reclaim(r)
    BY <2>2 DEF Reclaim, LeaseExpired
  <2>3. CASE Retake(r)
    BY <2>3 DEF Retake
  <2> QED
    BY <2>1, <2>2, <2>3, <1>4 DEF Reserves
<1>5. ASSUME NEW r \in Requests, Commit(r) PROVE ReplyInv'
  BY <1>5 DEF Commit
<1>6. ASSUME NEW r \in Requests, Fails(r) PROVE ReplyInv'
  <2>1. CASE MarkFailedBusiness(r)
    BY <2>1 DEF MarkFailedBusiness, MarkFailed
  <2>2. CASE MarkFailedTransient(r)
    BY <2>2 DEF MarkFailedTransient, MarkFailed
  <2> QED
    BY <2>1, <2>2, <1>6 DEF Fails
<1>7. CASE Tick
  BY <1>7 DEF Tick
<1>8. CASE UNCHANGED vars
  BY <1>8 DEF vars
<1> QED
  BY StepCases, <1>1, <1>2, <1>3, <1>4, <1>5, <1>6, <1>7, <1>8

-----------------------------------------------------------------------------
\* The empty table satisfies the invariant.
LEMMA InitIInv == Init => IInv
  BY IdempotencyAssumption
     DEF Init, IInv, TypeOK, Records, Places, NoRecord, EffectOnceAndRecorded, EffectsOf,
         LockInv, ContextInv, HasReserved, Row, SeenInv, HandlerInv, ReplyInv, NoReply, Success,
         Refusal

\* The inductive invariant holds in every reachable state of the service.
THEOREM Invariance == Spec => []IInv
<1>1. IInv /\ [Next]_vars => IInv'
  BY TypeStep, EffectOnceAndRecordedStep, LockInvStep, ContextInvStep, SeenInvStep,
     HandlerInvStep, ReplyInvStep DEF IInv
<1> QED
  BY InitIInv, <1>1, PTL DEF Spec

\* Type correctness of every reachable state.
THEOREM TypeCorrect == Spec => []TypeOK
<1>1. IInv => TypeOK
  BY DEF IInv
<1> QED
  BY Invariance, <1>1, PTL

\* One effect per key at most, and the record tells: for every number of requests
\* and every interleaving, crash, rollback and reclaim.
THEOREM EffectOnce == Spec => []EffectOnceAndRecorded
<1>1. IInv => EffectOnceAndRecorded
  BY DEF IInv
<1> QED
  BY Invariance, <1>1, PTL

\* No client is told of a success that is not committed or not its own context's.
THEOREM SuccessTheorem == Spec => []SuccessIsReal
<1>1. IInv => SuccessIsReal
  BY IdempotencyAssumption
     DEF IInv, TypeOK, EffectOnceAndRecorded, EffectsOf, ContextInv, ReplyInv,
         SuccessIsReal, Row
<1> QED
  BY Invariance, <1>1, PTL

\* A refusal a client was sent is the last word on its key.
THEOREM RefusalTheorem == Spec => []RefusalIsFinal
<1>1. IInv => RefusalIsFinal
  BY IdempotencyAssumption
     DEF IInv, TypeOK, EffectOnceAndRecorded, ReplyInv, RefusalIsFinal, Row
<1> QED
  BY Invariance, <1>1, PTL

-----------------------------------------------------------------------------
(* The refinement of AtMostOnce *)

\* The empty table is the promise's initial state.
LEMMA PromiseInit == Init => Promise!Init
  BY DEF Init, Promise!Init, Fate, NoRecord, NoReply, Promise!NoReply, Promise!Open

\* Every answer of the service is one that AtMostOnce allows.
LEMMA AnswerStep ==
  ASSUME IInv, NEW r \in Requests, Answers(r)
  PROVE  Promise!AnswerSuccess(r) \/ Promise!AnswerRefusal(r) \/ Promise!AnswerError(r)
<1> USE IdempotencyAssumption DEF IInv, TypeOK, Finish, Goto, stores, Fate, Row,
        HandlerInv, NoReply, Promise!NoReply, Promise!Answer
<1>1. reply[r] = NoReply /\ UNCHANGED record
  BY DEF Answers, RefuseNow, ReplayCompleted, ReplayBusinessFailure, ReclaimMissed,
         RetakeMissed, AnswerCommitted, AnswerFailed, StatementFails
<1>2. CASE ReplayCompleted(r)
  <2>1. /\ Fate(KeyOf[r]) = Promise!Applied(seen[r].by)
        /\ seen[r].by \in Requests
    BY <1>2 DEF ReplayCompleted, SeenInv, ContextInv, Promise!Applied
  <2> QED
    BY <1>1, <1>2, <2>1 DEF ReplayCompleted, Success, Promise!AnswerSuccess,
                            Promise!Success
<1>3. CASE AnswerCommitted(r)
  <2>1. Fate(KeyOf[r]) = Promise!Applied(r)
    BY <1>3 DEF AnswerCommitted, EffectOnceAndRecorded, EffectsOf, Promise!Applied
  <2> QED
    BY <1>1, <1>3, <2>1 DEF AnswerCommitted, Success, Promise!AnswerSuccess,
                            Promise!Success
<1>4. CASE ReplayBusinessFailure(r)
  BY <1>1, <1>4 DEF ReplayBusinessFailure, SeenInv, Refusal, Promise!AnswerRefusal,
                    Promise!Refusal, Promise!Refused
<1>5. CASE RefuseNow(r) \/ ReclaimMissed(r) \/ RetakeMissed(r) \/ AnswerFailed(r)
           \/ StatementFails(r)
  BY <1>1, <1>5 DEF RefuseNow, ReclaimMissed, RetakeMissed, AnswerFailed,
                    StatementFails, Error, Promise!AnswerError, Promise!Error
<1> QED
  BY <1>2, <1>3, <1>4, <1>5 DEF Answers

\* Every step of the service is a step of AtMostOnce or leaves its variables alone.
LEMMA PromiseStep ==
  ASSUME IInv, [Next]_vars
  PROVE  [Promise!Next]_(Promise!vars)
<1> USE DEF Promise!vars
<1>1. ASSUME NEW r \in Requests, Moves(r) \/ Locks(r) PROVE UNCHANGED Promise!vars
  <2>1. UNCHANGED <<record, reply>>
    BY <1>1 DEF Moves, Arrive, InsertRefused, FindExisting, WantReclaim, WantRetake,
                BeginTx, LeaseLost, BodyThrows, CommitAckLost, FailureUnrecorded,
                Locks, MarkCompleted, RollBack, Crash, stores
  <2> QED
    BY <2>1 DEF Fate
<1>2. ASSUME NEW r \in Requests, Answers(r) PROVE Promise!Next
  BY <1>2, AnswerStep DEF Promise!Next
<1>3. ASSUME NEW r \in Requests, Reserves(r) PROVE UNCHANGED Promise!vars
  <2>1. /\ UNCHANGED reply
        /\ \A k \in Keys : Fate(k)' = Fate(k)
    BY <1>3, IdempotencyAssumption
       DEF Reserves, InsertRecord, Reclaim, Retake, LeaseExpired, Matches, Update, Row,
           Fate, IInv, TypeOK
  <2> QED
    BY <2>1
<1>4. ASSUME NEW r \in Requests, Commit(r) PROVE Promise!Next
  <2>1. Fate(KeyOf[r]) = Promise!Open
    <3>1. pc[r] = "marked" /\ KeyOf[r] \in Keys /\ r # NoOne
      BY <1>4, IdempotencyAssumption DEF Commit, Goto
    <3>2. record[KeyOf[r]].status = "PROCESSING"
      BY <3>1 DEF IInv, LockInv
    <3> QED
      BY <3>2 DEF Fate, Promise!Open
  <2>2. /\ Fate(KeyOf[r])' = Promise!Applied(r)
        /\ \A k \in Keys \ {KeyOf[r]} : Fate(k)' = Fate(k)
        /\ UNCHANGED reply
    BY <1>4, IdempotencyAssumption
       DEF Commit, Update, Row, IInv, TypeOK, Fate, Promise!Applied
  <2>3. Promise!Apply(r)
    BY <2>1, <2>2, IdempotencyAssumption DEF Promise!Apply
  <2> QED
    BY <2>3 DEF Promise!Next
<1>5. ASSUME NEW r \in Requests, MarkFailedBusiness(r) PROVE Promise!Next
  <2>1. Promise!Refuse(r)
    BY <1>5, IdempotencyAssumption
       DEF MarkFailedBusiness, MarkFailed, Matches, Goto, Update, Row, IInv, TypeOK, Fate,
           Promise!Refuse, Promise!Refused, Promise!Open
  <2> QED
    BY <2>1 DEF Promise!Next
<1>6. ASSUME NEW r \in Requests, MarkFailedTransient(r) PROVE UNCHANGED Promise!vars
  <2>1. /\ UNCHANGED reply
        /\ \A k \in Keys : Fate(k)' = Fate(k)
    BY <1>6, IdempotencyAssumption
       DEF MarkFailedTransient, MarkFailed, Matches, Update, Row, Fate, IInv, TypeOK
  <2> QED
    BY <2>1
<1>7. ASSUME Tick \/ UNCHANGED vars PROVE UNCHANGED Promise!vars
  BY <1>7 DEF Tick, vars, stores, Fate
<1> QED
  BY StepCases, <1>1, <1>2, <1>3, <1>4, <1>5, <1>6, <1>7 DEF Fails

\* The service implements the promise it makes to its clients.
THEOREM Refinement == Spec => KeepsPromise
<1>1. IInv /\ [Next]_vars => [Promise!Next]_(Promise!vars)
  BY PromiseStep
<1> QED
  BY PromiseInit, Invariance, <1>1, PTL DEF Spec, KeepsPromise, Promise!Spec

=============================================================================
