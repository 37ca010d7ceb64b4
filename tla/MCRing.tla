------------------------------- MODULE MCRing -------------------------------
(* An instance of RingBuffer for TLC. *)
EXTENDS RingBuffer
CONSTANT p1
=============================================================================
