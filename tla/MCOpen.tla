------------------------------- MODULE MCOpen -------------------------------
(***************************************************************************)
(* Instances of MMLogOpen: three processes open a log that is not there.   *)
(***************************************************************************)
EXTENDS MMLogOpen

CONSTANTS p1, p2, p3

=============================================================================
