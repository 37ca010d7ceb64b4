------------------------------ MODULE LogSpan -------------------------------
(***************************************************************************)
(* Logs that stay below the width of chunk_size (4 GiB): the reservation   *)
(* protocol as long as ALIGN does not lose the upper half of a file size.  *)
(* MCBigLog shows what happens to a log that grows past it.                *)
(***************************************************************************)
EXTENDS MMLogCheckout

ASSUME SpanAssumption == MaxCursor + ChunkSize <= Pow2[Bits]

=============================================================================
