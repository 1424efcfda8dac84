--------------------------- MODULE MCIdempotency ---------------------------
(***************************************************************************)
(* Requests under one key: the retries of one client, or one of them and a *)
(* request of another context, a stranger who happens to send the same     *)
(* key.  Keys do not meet: no statement reads the row of another one.      *)
(***************************************************************************)
EXTENDS Idempotency, TLC

CONSTANTS k1, Stranger,
          Retries  \* the requests that never meet the stranger

MCKeyOf == [r \in Requests |-> k1]
OneStranger == [r \in Requests |-> IF r = Stranger THEN "stranger" ELSE "client"]

Arrived == {r \in Requests : pc[r] # "idle"}
StrangerMeetsOne == Stranger \in Arrived => Arrived \cap Retries = {}

MCSpec == Init /\ [][Next /\ StrangerMeetsOne']_vars /\ Fairness

Symmetry == Permutations(Requests)
=============================================================================
