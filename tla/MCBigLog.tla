------------------------------ MODULE MCBigLog ------------------------------
(***************************************************************************)
(* An instance of MMLogCheckout whose cursor passes the largest size that  *)
(* ALIGN can return.                                                       *)
(***************************************************************************)
EXTENDS MMLogCheckout

CONSTANTS t1, p1

Alone == [t \in {t1} |-> p1]

=============================================================================
