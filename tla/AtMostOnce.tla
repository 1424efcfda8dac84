----------------------------- MODULE AtMostOnce -----------------------------
(***************************************************************************)
(* What the idempotency service promises to the clients of one critical    *)
(* operation, with no database, lease, clock or transaction in sight.  A   *)
(* key is open until its operation is either applied, by one request, or   *)
(* refused; that fate is final, and a client is told of a success, or of   *)
(* a refusal on record, only when that is its key's fate.                  *)
(***************************************************************************)
EXTENDS Naturals

CONSTANTS Keys,      \* the idempotency keys clients send
          Requests,  \* the attempts: a client's retry is another request
          KeyOf      \* the key each request carries

VARIABLES outcome,   \* the fate of each key
          reply      \* what each request's client has been told

vars == <<outcome, reply>>

Open == [fate |-> "open"]
Applied(r) == [fate |-> "applied", by |-> r]
Refused == [fate |-> "refused"]

\* A success carries the response of the request that applied the operation, a
\* refusal is the error on record, an error tells the client nothing final.
Success(r) == [kind |-> "success", of |-> r]
Refusal == [kind |-> "refusal"]
Error == [kind |-> "error"]
NoReply == [kind |-> "none"]

Init == /\ outcome = [k \in Keys |-> Open]
        /\ reply = [r \in Requests |-> NoReply]

Apply(r) == /\ outcome[KeyOf[r]] = Open
            /\ outcome' = [outcome EXCEPT ![KeyOf[r]] = Applied(r)]
            /\ UNCHANGED reply

Refuse(r) == /\ outcome[KeyOf[r]] = Open
             /\ outcome' = [outcome EXCEPT ![KeyOf[r]] = Refused]
             /\ UNCHANGED reply

Answer(r, a) == /\ reply[r] = NoReply
                /\ reply' = [reply EXCEPT ![r] = a]
                /\ UNCHANGED outcome

AnswerSuccess(r) == \E by \in Requests : /\ outcome[KeyOf[r]] = Applied(by)
                                         /\ Answer(r, Success(by))

AnswerRefusal(r) == outcome[KeyOf[r]] = Refused /\ Answer(r, Refusal)

AnswerError(r) == Answer(r, Error)

Next == \E r \in Requests : \/ Apply(r) \/ Refuse(r)
                            \/ AnswerSuccess(r) \/ AnswerRefusal(r) \/ AnswerError(r)

Spec == Init /\ [][Next]_vars
=============================================================================
