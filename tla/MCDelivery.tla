------------------------------- MODULE MCDelivery -------------------------------
(***************************************************************************)
(* One lesson for two sections, with two lesson hours each.  The clock     *)
(* goes on for a day after the last hour: an hour that is deleted moves a  *)
(* lesson to the day after another one.                                    *)
(***************************************************************************)
EXTENDS LessonDelivery
=============================================================================
