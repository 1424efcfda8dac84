--------------------------- MODULE MCSubscription ---------------------------
(***************************************************************************)
(* Two students of one school, two codes, two requests at a time.          *)
(***************************************************************************)
EXTENDS Subscription, TLC

Symmetry == Permutations(Jobs) \cup Permutations(Students)
=============================================================================
