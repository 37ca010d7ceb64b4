------------------------------- MODULE Align -------------------------------
(***************************************************************************)
(* The macro of fastlog/include/mmlog.h that rounds sizes up, with the     *)
(* width it has where it is used: the file size is a uint64_t and          *)
(* chunk_size a uint32_t, so the mask is a word of Bits bits, and the bits *)
(* of the sum above it are lost.                                           *)
(***************************************************************************)
EXTENDS Integers

CONSTANT Bits  \* the width of metadata->chunk_size (32)

ASSUME BitsAssumption == Bits \in Nat

Pow2[i \in 0 .. Bits] == IF i = 0 THEN 1 ELSE 2 * Pow2[i - 1]

Bit(x, i) == (x \div Pow2[i]) % 2

\* x & ~m, where m and with it ~m is a word: the bits of x, up to that width,
\* that m does not have.
AndNot(x, m) ==
  LET low[i \in 0 .. Bits] ==
        IF i = 0 THEN 0
        ELSE low[i - 1] + IF Bit(m, i - 1) = 0 THEN Pow2[i - 1] * Bit(x, i - 1) ELSE 0
  IN  low[Bits]

\* ((x + a - 1) & ~(a - 1))
ALIGN(x, a) == AndNot(x + a - 1, a - 1)

=============================================================================
