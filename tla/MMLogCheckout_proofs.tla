------------------------ MODULE MMLogCheckout_proofs ------------------------
(***************************************************************************)
(* Theorems on the reservation protocol of fastlog/include/mmlog.h, for    *)
(* any number of threads and processes and any sizes, and on the macro     *)
(* that rounds the size of the file up.                                    *)
(***************************************************************************)
EXTENDS LogSpan, Induction

-----------------------------------------------------------------------------
(* ALIGN *)

\* The powers of two.
LEMMA Powers ==
  /\ Pow2[0] = 1
  /\ \A i \in 1 .. Bits : Pow2[i] = 2 * Pow2[i - 1]
  /\ \A i \in 0 .. Bits : Pow2[i] \in Nat /\ Pow2[i] > 0
<1> DEFINE F == [i \in 1 .. Bits |-> [s \in Int |-> 2 * s]]
           Solves(g) == g = [i \in 0 .. Bits |-> IF i = 0 THEN 1 ELSE 2 * g[i - 1]]
<1>1. Bits \in Nat
  BY BitsAssumption
<1>2. \E g : Solves(g)
  <2> DEFINE S == Int
  <2>1. F \in Bodies(Bits, S) /\ 1 \in S
    BY DEF Bodies
  <2> HIDE DEF F, S
  <2>2. PICK g : Runs(g, Bits, S, 1, F)
    BY <1>1, <2>1, Recursion
  <2>3. ASSUME NEW i \in 0 .. Bits PROVE g[i] = IF i = 0 THEN 1 ELSE 2 * g[i - 1]
    <3>1. ASSUME i # 0 PROVE F[i][g[i - 1]] = 2 * g[i - 1]
      <4>1. i \in 1 .. Bits /\ g[i - 1] \in Int
        BY <1>1, <2>2, <3>1 DEF Runs, S
      <4>2. F[i] = [s \in Int |-> 2 * s]
        BY <4>1 DEF F
      <4> QED
        BY <4>1, <4>2
    <3>2. g[i] = IF i = 0 THEN 1 ELSE F[i][g[i - 1]]
      BY <1>1, <2>2 DEF Runs
    <3> QED
      BY <3>1, <3>2
  <2>4. Solves(g)
    BY <2>2, <2>3 DEF Runs
  <2> QED
    BY <2>4
<1>3. Solves(Pow2)
  <2>1. Pow2 = CHOOSE g : Solves(g)
    BY DEF Pow2
  <2> HIDE DEF Solves
  <2> QED
    BY <1>2, <2>1
<1>4. Pow2[0] = 1 /\ \A i \in 1 .. Bits : Pow2[i] = 2 * Pow2[i - 1]
  <2>1. ASSUME NEW i \in 0 .. Bits PROVE Pow2[i] = IF i = 0 THEN 1 ELSE 2 * Pow2[i - 1]
    BY <1>3
  <2>2. 0 \in 0 .. Bits /\ \A i \in 1 .. Bits : i \in 0 .. Bits /\ i # 0
    BY <1>1
  <2> QED
    BY <2>1, <2>2
<1>5. \A i \in 0 .. Bits : Pow2[i] \in Nat /\ Pow2[i] > 0
  <2> DEFINE S == {i \in 0 .. Bits : Pow2[i] \in Nat /\ Pow2[i] > 0}
  <2>1. 0 \in S
    BY <1>1, <1>4
  <2>2. ASSUME NEW i \in 0 .. Bits - 1, i \in S PROVE i + 1 \in S
    <3>1. i + 1 \in 1 .. Bits /\ (i + 1) - 1 = i
      BY <1>1
    <3>2. Pow2[i + 1] = 2 * Pow2[i]
      BY <1>4, <3>1
    <3> QED
      BY <2>2, <3>1, <3>2
  <2> HIDE DEF S
  <2>3. 0 .. Bits \subseteq S
    BY <1>1, <2>1, <2>2, UpTo
  <2> QED
    BY <2>3 DEF S
<1> QED
  BY <1>4, <1>5

\* Quotient and remainder are the only way to write y as a multiple of p and a rest.
LEMMA OneRemainder ==
  ASSUME NEW y \in Nat, NEW p \in Nat, p > 0, NEW k \in Nat, NEW r \in 0 .. p - 1, y = k * p + r
  PROVE  y % p = r /\ y \div p = k
<1> DEFINE q == y \div p
           s == y % p
<1>1. q \in Nat /\ s \in 0 .. p - 1 /\ y = q * p + s
  OBVIOUS
<1> HIDE DEF q, s
<1>2. ASSUME NEW a \in Nat, NEW b \in Nat, a < b
      PROVE  a * p + p <= b * p /\ a * p \in Nat
  <2>1. PICK d \in Nat : b = a + 1 + d
    BY <1>2
  <2>2. b * p = a * p + p + d * p /\ d * p \in Nat /\ a * p \in Nat
    BY <2>1
  <2> QED
    BY <2>2
<1>3. ~(q < k) /\ ~(k < q)
  <2>1. q * p \in Nat /\ k * p \in Nat
    BY <1>1
  <2> QED
    BY <1>1, <1>2, <2>1
<1>4. q = k /\ s = r
  <2>1. q = k
    BY <1>1, <1>3
  <2>2. q * p \in Nat
    BY <1>1
  <2> QED
    BY <1>1, <2>1, <2>2
<1> QED
  BY <1>4 DEF q, s

\* A bit is 0 or 1, and the bits below i + 1 are those below i and bit i.
LEMMA NextBit ==
  ASSUME NEW y \in Nat, NEW i \in 0 .. Bits - 1
  PROVE  /\ Bit(y, i) \in {0, 1}
         /\ y % Pow2[i] \in 0 .. Pow2[i] - 1
         /\ y % Pow2[i + 1] = (y % Pow2[i]) + Pow2[i] * Bit(y, i)
<1>1. Bits \in Nat /\ i \in 0 .. Bits /\ i + 1 \in 1 .. Bits /\ (i + 1) - 1 = i
  BY BitsAssumption
<1> DEFINE p == Pow2[i]
           q == y \div p
           r == y % p
           k == q \div 2
           b == q % 2
<1>2. p \in Nat /\ p > 0 /\ Pow2[i + 1] = 2 * p
  BY <1>1, Powers
<1> HIDE DEF p
<1>3. q \in Nat /\ r \in 0 .. p - 1 /\ y = q * p + r
  BY <1>2
<1> HIDE DEF q, r
<1>4. k \in Nat /\ b \in {0, 1} /\ q = 2 * k + b
  BY <1>3
<1> HIDE DEF k, b
<1>5. q * p = k * (2 * p) + b * p
  BY <1>2, <1>4
<1>6. b * p \in {0, p} /\ b * p + r \in 0 .. 2 * p - 1 /\ p * b = b * p
  BY <1>2, <1>3, <1>4
<1>7. y = k * (2 * p) + (b * p + r)
  <2>1. k * (2 * p) \in Nat
    BY <1>2, <1>4
  <2> QED
    BY <1>2, <1>3, <1>5, <1>6, <2>1
<1>8. y % (2 * p) = b * p + r
  <2> DEFINE w == 2 * p
             v == b * p + r
  <2>1. w \in Nat /\ w > 0 /\ v \in 0 .. w - 1 /\ y = k * w + v
    BY <1>2, <1>6, <1>7
  <2> HIDE DEF w, v
  <2>2. y % w = v
    BY <1>4, <2>1, OneRemainder
  <2> QED
    BY <2>2 DEF w, v
<1>9. Bit(y, i) = b
  BY DEF Bit, b, q, p
<1> QED
  BY <1>2, <1>3, <1>4, <1>6, <1>8, <1>9 DEF r, p

\* What AndNot adds up, bit by bit.
Masked(low, x, m) ==
  /\ low[0] = 0
  /\ \A i \in 1 .. Bits :
       low[i] = low[i - 1] + IF Bit(m, i - 1) = 0 THEN Pow2[i - 1] * Bit(x, i - 1) ELSE 0
  /\ \A i \in 0 .. Bits : low[i] \in Nat

\* The sum over the bits of a word exists.
LEMMA MaskedSum ==
  ASSUME NEW x \in Nat, NEW m \in Nat
  PROVE  \E low : Masked(low, x, m) /\ AndNot(x, m) = low[Bits]
<1> DEFINE Part(i) == IF Bit(m, i - 1) = 0 THEN Pow2[i - 1] * Bit(x, i - 1) ELSE 0
           F == [i \in 1 .. Bits |-> [s \in Nat |-> s + Part(i)]]
           Solves(g) == g = [i \in 0 .. Bits |-> IF i = 0 THEN 0 ELSE g[i - 1] + Part(i)]
           low == CHOOSE g : Solves(g)
<1>1. Bits \in Nat
  BY BitsAssumption
<1>2. ASSUME NEW i \in 1 .. Bits PROVE Part(i) \in Nat
  <2>1. i - 1 \in 0 .. Bits - 1 /\ i - 1 \in 0 .. Bits
    BY <1>1
  <2>2. Bit(x, i - 1) \in Nat /\ Pow2[i - 1] \in Nat
    <3> DEFINE j == i - 1
    <3>1. j \in 0 .. Bits - 1 /\ j \in 0 .. Bits
      BY <2>1
    <3> HIDE DEF j
    <3>2. Bit(x, j) \in {0, 1} /\ Pow2[j] \in Nat
      BY <3>1, NextBit, Powers
    <3> QED
      BY <3>2 DEF j
  <2>3. Pow2[i - 1] * Bit(x, i - 1) \in Nat
    BY <2>2
  <2> QED
    BY <2>3
<1>3. AndNot(x, m) = low[Bits]
  BY DEF AndNot
<1> HIDE DEF Part
<1>4. \E g : Solves(g)
  <2> DEFINE S == Nat
  <2>1. F \in Bodies(Bits, S) /\ 0 \in S
    BY <1>2 DEF Bodies
  <2> HIDE DEF F, S
  <2>2. PICK g : Runs(g, Bits, S, 0, F)
    BY <1>1, <2>1, Recursion
  <2>3. ASSUME NEW i \in 0 .. Bits PROVE g[i] = IF i = 0 THEN 0 ELSE g[i - 1] + Part(i)
    <3>1. ASSUME i # 0 PROVE F[i][g[i - 1]] = g[i - 1] + Part(i)
      <4>1. i \in 1 .. Bits /\ g[i - 1] \in Nat
        BY <1>1, <2>2, <3>1 DEF Runs, S
      <4>2. F[i] = [s \in Nat |-> s + Part(i)]
        BY <4>1 DEF F
      <4> QED
        BY <4>1, <4>2
    <3>2. g[i] = IF i = 0 THEN 0 ELSE F[i][g[i - 1]]
      BY <1>1, <2>2 DEF Runs
    <3> QED
      BY <3>1, <3>2
  <2>4. Solves(g)
    BY <2>2, <2>3 DEF Runs
  <2> QED
    BY <2>4
<1>5. Solves(low)
  <2> HIDE DEF Solves
  <2> QED
    BY <1>4
<1> HIDE DEF low
<1>6. low[0] = 0 /\ \A i \in 1 .. Bits : low[i] = low[i - 1] + Part(i)
  <2>1. ASSUME NEW i \in 0 .. Bits PROVE low[i] = IF i = 0 THEN 0 ELSE low[i - 1] + Part(i)
    BY <1>5
  <2>2. 0 \in 0 .. Bits /\ \A i \in 1 .. Bits : i \in 0 .. Bits /\ i # 0
    BY <1>1
  <2> QED
    BY <2>1, <2>2
<1>7. \A i \in 0 .. Bits : low[i] \in Nat
  <2> DEFINE S == {i \in 0 .. Bits : low[i] \in Nat}
  <2>1. 0 \in S
    BY <1>1, <1>6
  <2>2. ASSUME NEW i \in 0 .. Bits - 1, i \in S PROVE i + 1 \in S
    <3>1. i + 1 \in 1 .. Bits /\ (i + 1) - 1 = i
      BY <1>1
    <3>2. low[i + 1] = low[i] + Part(i + 1) /\ Part(i + 1) \in Nat
      BY <1>2, <1>6, <3>1
    <3> QED
      BY <2>2, <3>1, <3>2
  <2> HIDE DEF S
  <2>3. 0 .. Bits \subseteq S
    BY <1>1, <2>1, <2>2, UpTo
  <2> QED
    BY <2>3 DEF S
<1>8. Masked(low, x, m)
  BY <1>6, <1>7 DEF Masked, Part
<1> QED
  BY <1>3, <1>8

\* Masking takes away at most what the mask has, and works on the low word only.
LEMMA MaskBounds ==
  ASSUME NEW y \in Nat, NEW m \in Nat
  PROVE  /\ AndNot(y, m) \in Nat
         /\ AndNot(y, m) <= y % Pow2[Bits]
         /\ y % Pow2[Bits] <= AndNot(y, m) + (m % Pow2[Bits])
<1>1. Bits \in Nat
  BY BitsAssumption
<1>2. PICK low : Masked(low, y, m) /\ AndNot(y, m) = low[Bits]
  BY MaskedSum
<1> DEFINE Low(x, i) == x % Pow2[i]
           S == {i \in 0 .. Bits : low[i] <= Low(y, i) /\ Low(y, i) <= low[i] + Low(m, i)}
<1>3. \A i \in 0 .. Bits : Low(y, i) \in Nat /\ Low(m, i) \in Nat
  <2> TAKE i \in 0 .. Bits
  <2>1. Pow2[i] \in Nat /\ Pow2[i] > 0
    BY Powers
  <2> QED
    BY <2>1
<1>4. 0 \in S
  <2>1. Low(y, 0) = 0 /\ Low(m, 0) = 0 /\ low[0] = 0
    BY <1>2, Powers DEF Masked
  <2> HIDE DEF Low
  <2> QED
    BY <1>1, <2>1
<1>5. ASSUME NEW i \in 0 .. Bits - 1, i \in S PROVE i + 1 \in S
  <2> DEFINE p == Pow2[i]
             b == Bit(y, i)
             c == Bit(m, i)
  <2>1. i + 1 \in 1 .. Bits /\ (i + 1) - 1 = i /\ i \in 0 .. Bits /\ i + 1 \in 0 .. Bits
    BY <1>1
  <2>2. p \in Nat /\ p > 0 /\ b \in {0, 1} /\ c \in {0, 1}
    BY <2>1, Powers, NextBit
  <2>3. Low(y, i + 1) = Low(y, i) + p * b /\ Low(m, i + 1) = Low(m, i) + p * c
    BY NextBit
  <2>4. low[i + 1] = low[i] + IF c = 0 THEN p * b ELSE 0
    BY <1>2, <2>1 DEF Masked
  <2>5. low[i] \in Nat /\ Low(y, i) \in Nat /\ Low(m, i) \in Nat
    BY <1>2, <1>3, <2>1 DEF Masked
  <2>6. low[i] <= Low(y, i) /\ Low(y, i) <= low[i] + Low(m, i)
    BY <1>5
  <2> HIDE DEF Low, p, b, c
  <2>7. low[i + 1] <= Low(y, i + 1) /\ Low(y, i + 1) <= low[i + 1] + Low(m, i + 1)
    BY <2>2, <2>3, <2>4, <2>5, <2>6
  <2> QED
    BY <2>1, <2>7
<1>6. Bits \in S
  <2> HIDE DEF S
  <2>1. 0 .. Bits \subseteq S
    BY <1>1, <1>4, <1>5, UpTo
  <2> QED
    BY <1>1, <2>1
<1> QED
  BY <1>1, <1>2, <1>6 DEF Masked

\* A number below the word is its own low word.
LEMMA BelowWord ==
  ASSUME NEW y \in Nat, NEW p \in Nat, p > 0, y < p
  PROVE  y % p = y /\ y \div p = 0
<1>1. y = 0 * p + y /\ y \in 0 .. p - 1 /\ 0 \in Nat
  OBVIOUS
<1> QED
  BY <1>1, OneRemainder

\* As long as end and chunk fit the word, ALIGN rounds up and by less than a chunk,
\* for any chunk size that mmlog_open accepts, a power of two or not.
THEOREM AlignRoundsUp ==
  ASSUME NEW x \in Nat, NEW a \in Nat, a > 0, x + a <= Pow2[Bits]
  PROVE  ALIGN(x, a) \in x .. x + a - 1
<1> DEFINE p == Pow2[Bits]
           y == x + a - 1
           m == a - 1
           v == AndNot(y, m)
<1>1. p \in Nat /\ p > 0
  BY BitsAssumption, Powers
<1>2. y \in Nat /\ m \in Nat /\ y < p /\ m < p
  BY <1>1
<1>3. v \in Nat /\ v <= y % p /\ y % p <= v + (m % p)
  BY <1>2, MaskBounds
<1>4. y % p = y /\ m % p = m
  BY <1>1, <1>2, BelowWord
<1>5. ALIGN(x, a) = v
  BY DEF ALIGN
<1> HIDE DEF v, p
<1>6. v <= y /\ y <= v + m
  BY <1>3, <1>4
<1> QED
  BY <1>3, <1>5, <1>6

\* Whatever the size of the log, ALIGN returns less than the word: the size it gives
\* a log whose end has passed the word is not above that end.
THEOREM AlignLosesUpperHalf ==
  ASSUME NEW x \in Nat, NEW a \in Nat, a > 0
  PROVE  ALIGN(x, a) \in 0 .. Pow2[Bits] - 1
<1> DEFINE p == Pow2[Bits]
           y == x + a - 1
           v == AndNot(y, a - 1)
<1>1. p \in Nat /\ p > 0
  BY BitsAssumption, Powers
<1>2. y \in Nat /\ a - 1 \in Nat
  OBVIOUS
<1>3. v \in Nat /\ v <= y % p
  BY <1>2, MaskBounds
<1>4. y % p \in 0 .. p - 1
  BY <1>1, <1>2
<1>5. ALIGN(x, a) = v
  BY DEF ALIGN
<1> HIDE DEF v, y, p
<1>6. v \in 0 .. p - 1
  BY <1>1, <1>3, <1>4
<1> QED
  BY <1>5, <1>6 DEF p

\* The mask of a power of two: its lower bits are set and the others are not.
LEMMA MaskOfPower ==
  ASSUME NEW k \in 0 .. Bits, NEW i \in 0 .. Bits - 1
  PROVE  Bit(Pow2[k] - 1, i) = IF i < k THEN 1 ELSE 0
<1> DEFINE m == Pow2[k] - 1
<1>1. Bits \in Nat /\ k \in Nat /\ Pow2[k] \in Nat /\ Pow2[k] > 0 /\ m \in Nat /\ m < Pow2[k]
  BY BitsAssumption, Powers
<1> HIDE DEF m
<1>2. CASE i < k
  <2> DEFINE S == {j \in 0 .. k : m % Pow2[k - j] = Pow2[k - j] - 1}
  <2>1. 0 \in S
    <3>1. m % Pow2[k] = m /\ k - 0 = k
      BY <1>1, BelowWord
    <3> QED
      BY <1>1, <3>1 DEF m
  <2>2. ASSUME NEW j \in 0 .. k - 1, m % Pow2[k - j] = Pow2[k - j] - 1
        PROVE  /\ Bit(m, k - j - 1) = 1
               /\ m % Pow2[k - (j + 1)] = Pow2[k - (j + 1)] - 1
    <3> DEFINE h == k - j - 1
    <3>1. /\ h \in 0 .. Bits - 1 /\ h \in 0 .. Bits /\ h + 1 \in 1 .. Bits
          /\ (h + 1) - 1 = h /\ k - j = h + 1 /\ k - (j + 1) = h
      BY <1>1
    <3> HIDE DEF h
    <3> DEFINE p == Pow2[h]
               r == m % p
               b == Bit(m, h)
    <3>2. p \in Nat /\ p > 0 /\ Pow2[h + 1] = 2 * p
      BY <3>1, Powers
    <3>3. b \in {0, 1} /\ r \in 0 .. p - 1 /\ m % Pow2[h + 1] = r + p * b
      BY <1>1, <3>1, NextBit
    <3>4. r + p * b = 2 * p - 1
      BY <2>2, <3>1, <3>2, <3>3
    <3> HIDE DEF p, r, b
    <3>5. b = 1 /\ r = p - 1
      BY <3>2, <3>3, <3>4
    <3> QED
      BY <3>1, <3>5 DEF p, r, b, h
  <2>3. 0 .. k \subseteq S
    <3>1. ASSUME NEW j \in 0 .. k - 1, j \in S PROVE j + 1 \in S
      BY <1>1, <2>2, <3>1
    <3> HIDE DEF S
    <3> QED
      BY <1>1, <2>1, <3>1, UpTo
  <2>4. k - i - 1 \in 0 .. k - 1 /\ k - i - 1 \in 0 .. k /\ k - (k - i - 1) - 1 = i
    BY <1>1, <1>2
  <2> DEFINE j == k - i - 1
  <2>5. j \in 0 .. k - 1 /\ j \in S /\ k - j - 1 = i
    BY <2>3, <2>4
  <2> HIDE DEF j
  <2>6. Bit(m, k - j - 1) = 1
    BY <2>2, <2>5
  <2> QED
    BY <1>2, <2>5, <2>6 DEF m
<1>3. CASE i >= k
  <2> DEFINE S == {j \in 0 .. Bits - k : Pow2[k] <= Pow2[k + j]}
  <2>1. 0 \in S
    BY <1>1
  <2>2. ASSUME NEW j \in 0 .. (Bits - k) - 1, j \in S PROVE j + 1 \in S
    <3>1. k + j \in 0 .. Bits /\ (k + j) + 1 \in 1 .. Bits /\ ((k + j) + 1) - 1 = k + j
          /\ k + (j + 1) = (k + j) + 1
      BY <1>1
    <3>2. Pow2[(k + j) + 1] = 2 * Pow2[k + j] /\ Pow2[k + j] \in Nat
      BY <3>1, Powers
    <3> QED
      BY <1>1, <2>2, <3>1, <3>2
  <2>3. Bits - k \in Nat
    BY <1>1
  <2>4. 0 .. Bits - k \subseteq S
    <3> DEFINE n == Bits - k
    <3> HIDE DEF S, n
    <3>1. n \in Nat /\ \A j \in 0 .. n - 1 : j \in S => j + 1 \in S
      BY <2>2, <2>3 DEF n
    <3>2. 0 .. n \subseteq S
      BY <2>1, <3>1, UpTo
    <3> QED
      BY <3>2 DEF n
  <2>5. i - k \in S /\ k + (i - k) = i
    BY <1>1, <1>3, <2>4
  <2>6. Pow2[i] \in Nat /\ Pow2[k] <= Pow2[i]
    <3>1. Pow2[i] \in Nat
      BY <1>1, Powers
    <3> QED
      BY <2>5, <3>1
  <2>7. m \div Pow2[i] = 0
    BY <1>1, <2>6, BelowWord
  <2> QED
    BY <1>1, <1>3, <2>7 DEF Bit, m
<1> QED
  BY <1>1, <1>2, <1>3

\* For a chunk size that is a power of two the size is a multiple of it: with
\* AlignRoundsUp, the least one that is not below the end.
THEOREM AlignIsMultiple ==
  ASSUME NEW x \in Nat, NEW k \in 0 .. Bits, x + Pow2[k] <= Pow2[Bits]
  PROVE  ALIGN(x, Pow2[k]) % Pow2[k] = 0
<1> DEFINE a == Pow2[k]
           m == a - 1
           y == x + a - 1
<1>1. Bits \in Nat /\ k \in Nat /\ a \in Nat /\ a > 0 /\ m \in Nat /\ y \in Nat
  BY BitsAssumption, Powers
<1>2. Pow2[Bits] \in Nat /\ y < Pow2[Bits]
  BY <1>1, Powers
<1>3. \A i \in 0 .. Bits - 1 : Bit(m, i) = IF i < k THEN 1 ELSE 0
  BY MaskOfPower
<1>4. ALIGN(x, a) = AndNot(y, m)
  BY DEF ALIGN
<1> HIDE DEF m, y, a
<1>5. PICK low : Masked(low, y, m) /\ AndNot(y, m) = low[Bits]
  BY <1>1, MaskedSum
<1> DEFINE r == y % a
<1>6. r \in 0 .. a - 1 /\ y \div a \in Nat /\ y = (y \div a) * a + r
  BY <1>1
<1> HIDE DEF r
<1> DEFINE S == {i \in 0 .. Bits : /\ i <= k => low[i] = 0
                                   /\ i >= k => low[i] + r = y % Pow2[i]}
<1>7. 0 \in S
  <2>1. low[0] = 0
    BY <1>5 DEF Masked
  <2>2. 0 >= k => Pow2[0] = a
    BY <1>1 DEF a
  <2> QED
    BY <1>1, <1>6, <2>1, <2>2 DEF r
<1>8. ASSUME NEW i \in 0 .. Bits - 1, i \in S PROVE i + 1 \in S
  <2>1. i + 1 \in 1 .. Bits /\ (i + 1) - 1 = i /\ i \in 0 .. Bits /\ i + 1 \in 0 .. Bits
    BY <1>1
  <2>2. low[i + 1] = low[i] + IF Bit(m, i) = 0 THEN Pow2[i] * Bit(y, i) ELSE 0
    BY <1>5, <2>1 DEF Masked
  <2>3. low[i] \in Nat
    BY <1>5, <2>1 DEF Masked
  <2>4. CASE i < k
    <3>1. Bit(m, i) = 1 /\ low[i] = 0
      BY <1>1, <1>3, <1>8, <2>4
    <3>2. low[i + 1] = 0
      BY <2>2, <3>1
    <3>3. i + 1 >= k => Pow2[i + 1] = a
      BY <1>1, <2>4 DEF a
    <3> QED
      BY <1>1, <1>6, <2>1, <3>2, <3>3 DEF r
  <2>5. CASE i >= k
    <3>1. Bit(m, i) = 0 /\ low[i] + r = y % Pow2[i]
      BY <1>1, <1>3, <1>8, <2>5
    <3> DEFINE d == Pow2[i] * Bit(y, i)
               z == y % Pow2[i]
    <3>2. y % Pow2[i + 1] = z + d /\ d \in Nat /\ z \in Nat
      <4>1. Pow2[i] \in Nat /\ Bit(y, i) \in {0, 1}
        BY <1>1, <2>1, Powers, NextBit
      <4>2. d \in Nat
        BY <4>1
      <4> QED
        BY <1>1, <4>2, NextBit
    <3>3. low[i + 1] = low[i] + d
      BY <2>2, <3>1
    <3> HIDE DEF d
    <3>4. low[i + 1] + r = y % Pow2[i + 1]
      BY <1>1, <1>6, <2>3, <3>1, <3>2, <3>3
    <3>5. ~(i + 1 <= k)
      BY <1>1, <2>5
    <3> QED
      BY <2>1, <3>4, <3>5
  <2> QED
    BY <1>1, <2>4, <2>5
<1>9. low[Bits] + r = y
  <2>1. 0 .. Bits \subseteq S
    <3> HIDE DEF S
    <3> QED
      BY <1>1, <1>7, <1>8, UpTo
  <2>2. low[Bits] + r = y % Pow2[Bits]
    BY <1>1, <2>1
  <2>3. y % Pow2[Bits] = y
    BY <1>1, <1>2, BelowWord
  <2> QED
    BY <2>2, <2>3
<1>10. low[Bits] \in Nat
  BY <1>1, <1>5 DEF Masked
<1> DEFINE q == y \div a
<1>11. low[Bits] = q * a + 0 /\ q \in Nat /\ 0 \in 0 .. a - 1
  <2>1. q * a \in Nat
    BY <1>1, <1>6
  <2> QED
    BY <1>1, <1>6, <1>9, <1>10, <2>1
<1> HIDE DEF q
<1>12. low[Bits] % a = 0
  BY <1>1, <1>10, <1>11, OneRemainder
<1> QED
  BY <1>4, <1>5, <1>12 DEF a

\* Every file size that an expansion asks for covers the range it is for, in a log
\* below the word.
LEMMA AlignCovers ==
  \A x \in 0 .. MaxCursor : ALIGN(x, ChunkSize) \in Nat /\ x <= ALIGN(x, ChunkSize)
<1> TAKE x \in 0 .. MaxCursor
<1>1. x \in Nat /\ ChunkSize \in Nat /\ ChunkSize > 0 /\ MaxCursor \in Nat
  BY SizesAssumption
<1>2. Pow2[Bits] \in Nat
  BY BitsAssumption, Powers
<1>3. x + ChunkSize <= Pow2[Bits]
  BY <1>1, <1>2, SpanAssumption
<1>4. ALIGN(x, ChunkSize) \in x .. x + ChunkSize - 1
  BY <1>1, <1>3, AlignRoundsUp
<1> QED
  BY <1>1, <1>4

USE ThreadsAssumption, SizesAssumption

-----------------------------------------------------------------------------
(* Types *)

\* The initial metadata page and threads have their types.
LEMMA TypeInit == Init => TypeOK
<1> SUFFICES ASSUME Init PROVE TypeOK
  OBVIOUS
<1>1. req \in [Threads -> [start : Nat, size : Nat]] /\ \A t \in Threads : End(t) <= MaxCursor
  BY DEF Init, End
<1>2. pc \in [Threads -> Labels] /\ calls \in [Threads -> Nat]
  BY DEF Init, Labels
<1>3. cursor \in 0 .. MaxCursor /\ file_size \in Nat /\ phys \in Nat
  BY DEF Init
<1>4. is_locked \in BOOLEAN /\ is_panicked \in BOOLEAN /\ trimmed \in BOOLEAN
      /\ reserved \subseteq Reservations
  BY DEF Init
<1> QED BY <1>1, <1>2, <1>3, <1>4 DEF TypeOK

\* No step of a thread, a trim or a crash leaves the types.
LEMMA TypeStep == TypeOK /\ [Next]_cvars => TypeOK'
<1> SUFFICES ASSUME TypeOK, [Next]_cvars PROVE TypeOK'
  OBVIOUS
<1> USE DEF TypeOK, End, Goto, Labels, Critical, meta, Reservations
<1>1. ASSUME NEW t \in Threads, NEW size \in Sizes, CheckoutFetchAdd(t, size)
      PROVE  TypeOK'
  <2>1. size \in Nat /\ cursor \in Nat /\ cursor + size \in 0 .. MaxCursor
    BY <1>1 DEF CheckoutFetchAdd
  <2>2. [owner |-> t, call |-> calls[t] + 1, start |-> cursor, size |-> size] \in Reservations
    BY <2>1
  <2> QED BY <1>1, <2>1, <2>2 DEF CheckoutFetchAdd
<1>2. ASSUME NEW t \in Threads, CheckoutStep(t) PROVE TypeOK'
  <2>1. CASE CheckoutLoadSize(t) BY <2>1 DEF CheckoutLoadSize
  <2>2. CASE ExpandTryLock(t) BY <2>2 DEF ExpandTryLock
  <2>3. CASE ExpandTimeout(t) BY <2>3 DEF ExpandTimeout
  <2>4. CASE ExpandCheckPanic(t) BY <2>4 DEF ExpandCheckPanic
  <2>5. CASE ExpandLoadSize(t) BY <2>5 DEF ExpandLoadSize
  <2>6. CASE ExpandFtruncate(t) BY <2>6, AlignCovers DEF ExpandFtruncate
  <2>7. CASE ExpandStoreSize(t) BY <2>7, AlignCovers DEF ExpandStoreSize
  <2>8. CASE ExpandStorePanic(t) BY <2>8 DEF ExpandStorePanic
  <2>9. CASE ExpandUnlock(t) BY <2>9 DEF ExpandUnlock
  <2>10. CASE ExpandReturn(t) BY <2>10 DEF ExpandReturn
  <2> QED BY <1>2, <2>1, <2>2, <2>3, <2>4, <2>5, <2>6, <2>7, <2>8, <2>9, <2>10 DEF CheckoutStep
<1>3. ASSUME NEW t \in Threads, Return(t) PROVE TypeOK'
  BY <1>3 DEF Return
<1>4. ASSUME NEW t \in Threads, TrimLoad(t) PROVE TypeOK'
  BY <1>4 DEF TrimLoad
<1>5. ASSUME NEW t \in Threads, TrimFtruncate(t) PROVE TypeOK'
  BY <1>5 DEF TrimFtruncate
<1>6. ASSUME NEW p \in Procs, Crash(p) PROVE TypeOK'
  BY <1>6 DEF Crash
<1>7. CASE UNCHANGED cvars
  BY <1>7 DEF cvars
<1> QED BY <1>1, <1>2, <1>3, <1>4, <1>5, <1>6, <1>7 DEF Next

\* The types hold in every state of the protocol, trims and crashes included.
THEOREM TypeCorrect == Spec => []TypeOK
BY TypeInit, TypeStep, PTL DEF Spec

-----------------------------------------------------------------------------
(* Ranges *)

\* A reservation starts at the cursor, above every range, and nothing else
\* changes the ranges.
LEMMA RangesStep == TypeOK /\ RangesDisjoint /\ [Next]_cvars => RangesDisjoint'
<1> SUFFICES ASSUME TypeOK, RangesDisjoint, [Next]_cvars PROVE RangesDisjoint'
  OBVIOUS
<1>1. ASSUME NEW t \in Threads, NEW size \in Sizes, CheckoutFetchAdd(t, size)
      PROVE  RangesDisjoint'
  <2> DEFINE new == [owner |-> t, call |-> calls[t] + 1, start |-> cursor, size |-> size]
  <2>1. cursor \in Nat /\ size \in Nat
    BY DEF TypeOK
  <2>2. reserved' = reserved \cup {new} /\ cursor' = cursor + size
    BY <1>1 DEF CheckoutFetchAdd
  <2>3. \A r \in reserved : r.start \in Nat /\ r.size \in Nat /\ r.start + r.size <= cursor
    BY DEF TypeOK, Reservations, RangesDisjoint
  <2>4. new.start = cursor /\ new.size = size
    OBVIOUS
  <2> HIDE DEF new
  <2> QED BY <2>1, <2>2, <2>3, <2>4 DEF RangesDisjoint
<1>2. CASE UNCHANGED <<cursor, reserved>>
  BY <1>2 DEF RangesDisjoint
<1>3. ASSUME NEW t \in Threads, CheckoutStep(t) PROVE UNCHANGED <<cursor, reserved>>
  BY <1>3 DEF CheckoutStep, CheckoutLoadSize, ExpandTryLock, ExpandTimeout, ExpandCheckPanic,
    ExpandLoadSize, ExpandFtruncate, ExpandStoreSize, ExpandStorePanic, ExpandUnlock,
    ExpandReturn, meta
<1>4. ASSUME NEW t \in Threads, Return(t) \/ TrimLoad(t) \/ TrimFtruncate(t)
      PROVE  UNCHANGED <<cursor, reserved>>
  BY <1>4 DEF Return, TrimLoad, TrimFtruncate, meta
<1>5. ASSUME NEW p \in Procs, Crash(p) PROVE UNCHANGED <<cursor, reserved>>
  BY <1>5 DEF Crash, meta
<1>6. CASE UNCHANGED cvars
  BY <1>2, <1>6 DEF cvars, meta
<1> QED BY <1>1, <1>2, <1>3, <1>4, <1>5, <1>6 DEF Next

\* atomic_fetch_add gives every call of mmlog_checkout, of any thread of any
\* process, a range that no other call has or will get.
THEOREM RangesAreDisjoint == Spec => []RangesDisjoint
<1>1. Init => RangesDisjoint
  BY DEF Init, RangesDisjoint
<1> QED BY <1>1, RangesStep, TypeCorrect, PTL DEF Spec

\* A trim starts at the cursor, above every range there is, and later ranges start
\* at a later cursor.
LEMMA TrimStep ==
  TypeOK /\ RangesDisjoint /\ TrimCutsBetween /\ [Next]_cvars => TrimCutsBetween'
<1> SUFFICES ASSUME TypeOK, RangesDisjoint, TrimCutsBetween, [Next]_cvars,
                    NEW t \in Threads, pc'[t] = "trim"
             PROVE  /\ req'[t].start <= cursor'
                    /\ \A r \in reserved' : \/ r.start + r.size <= req'[t].start
                                            \/ req'[t].start <= r.start
  BY DEF TrimCutsBetween
<1> USE DEF Goto, meta
<1>1. /\ cursor \in Nat /\ pc \in [Threads -> Labels]
      /\ req \in [Threads -> [start : Nat, size : Nat]]
  BY DEF TypeOK
<1>2. \A r \in reserved : r.start \in Nat /\ r.size \in Nat /\ r.start + r.size <= cursor
  BY DEF TypeOK, Reservations, RangesDisjoint
<1>3. CASE TrimLoad(t)
  <2>1. req'[t].start = cursor /\ UNCHANGED <<cursor, reserved>>
    BY <1>1, <1>3 DEF TrimLoad
  <2> QED BY <1>1, <1>2, <2>1
<1>4. ASSUME NEW u \in Threads, NEW size \in Sizes, CheckoutFetchAdd(u, size)
      PROVE  /\ req'[t].start <= cursor'
             /\ \A r \in reserved' : r.start + r.size <= req'[t].start \/ req'[t].start <= r.start
  <2> DEFINE new == [owner |-> u, call |-> calls[u] + 1, start |-> cursor, size |-> size]
  <2>1. u # t
    BY <1>1, <1>4 DEF CheckoutFetchAdd
  <2>2. req'[t] = req[t] /\ pc[t] = "trim" /\ req[t].start \in Nat
    BY <1>1, <1>4, <2>1 DEF CheckoutFetchAdd
  <2>3. reserved' = reserved \cup {new} /\ cursor' = cursor + size /\ size \in Nat
    BY <1>4 DEF CheckoutFetchAdd
  <2>4. new.start = cursor
    OBVIOUS
  <2> HIDE DEF new
  <2>5. /\ req[t].start <= cursor
        /\ \A r \in reserved : r.start + r.size <= req[t].start \/ req[t].start <= r.start
    BY <2>2 DEF TrimCutsBetween
  <2> QED BY <1>1, <2>2, <2>3, <2>4, <2>5
<1>5. CASE UNCHANGED <<cursor, reserved>> /\ req'[t] = req[t] /\ pc[t] = "trim"
  BY <1>5 DEF TrimCutsBetween
<1>6. ASSUME NEW u \in Threads, CheckoutStep(u) \/ Return(u) \/ TrimFtruncate(u)
      PROVE  UNCHANGED <<cursor, reserved, req>> /\ pc[t] = "trim"
  BY <1>1, <1>6 DEF CheckoutStep, CheckoutLoadSize, ExpandTryLock, ExpandTimeout,
    ExpandCheckPanic, ExpandLoadSize, ExpandFtruncate, ExpandStoreSize, ExpandStorePanic,
    ExpandUnlock, ExpandReturn, Return, TrimFtruncate
<1>7. ASSUME NEW u \in Threads, TrimLoad(u), u # t
      PROVE  UNCHANGED <<cursor, reserved>> /\ req'[t] = req[t] /\ pc[t] = "trim"
  BY <1>1, <1>7 DEF TrimLoad
<1>8. ASSUME NEW p \in Procs, Crash(p)
      PROVE  UNCHANGED <<cursor, reserved, req>> /\ pc[t] = "trim"
  BY <1>1, <1>8 DEF Crash
<1>9. CASE UNCHANGED cvars
  BY <1>5, <1>9 DEF cvars
<1> QED BY <1>3, <1>4, <1>5, <1>6, <1>7, <1>8, <1>9 DEF Next

\* A trim may cut off messages that were reserved after it read the cursor, but it
\* never cuts one in two, for any number of threads that insert or trim.
THEOREM TrimTearsNoMessage == Spec => []TrimCutsBetween
<1>1. Init => RangesDisjoint /\ TrimCutsBetween
  BY DEF Init, RangesDisjoint, TrimCutsBetween
<1> QED BY <1>1, RangesStep, TrimStep, TypeCorrect, PTL DEF Spec

-----------------------------------------------------------------------------
(* Coverage *)

\* The inductive invariant.
IInv == TypeOK /\ CheckoutInv

\* The parts of the invariant hold of a new log.
LEMMA IInvInit == Init => IInv
<1> SUFFICES ASSUME Init PROVE IInv
  OBVIOUS
<1>1. TypeOK
  BY TypeInit
<1>2. \A t \in Threads : pc[t] = "idle"
  BY DEF Init
<1>3. file_size = phys /\ ~is_panicked /\ file_size \in Nat
  BY DEF Init
<1> QED BY <1>1, <1>2, <1>3
  DEF IInv, CheckoutInv, LockInv, SizeInv, CoverInv, PanicInv, FileSizeIsPhysical, Critical

\* Every step inside mmlog_checkout keeps the parts of the invariant.
LEMMA CheckoutStepInv ==
  ASSUME IInv, NEW t \in Threads, CheckoutStep(t), TypeOK'
  PROVE  IInv'
<1> USE DEF Goto, meta, End
<1>1. TypeOK /\ LockInv /\ SizeInv /\ CoverInv /\ PanicInv
  BY DEF IInv, CheckoutInv
<1>2. ALIGN(End(t), ChunkSize) \in Nat /\ End(t) <= ALIGN(End(t), ChunkSize)
  BY <1>1, AlignCovers DEF TypeOK
<1>3. SUFFICES LockInv' /\ SizeInv' /\ CoverInv' /\ PanicInv'
  BY DEF IInv, CheckoutInv
<1> USE DEF Critical, FileSizeIsPhysical
<1>4. CASE CheckoutLoadSize(t)
  BY <1>1, <1>4 DEF CheckoutLoadSize, TypeOK, LockInv, SizeInv, CoverInv, PanicInv
<1>5. CASE ExpandTryLock(t)
  BY <1>1, <1>5 DEF ExpandTryLock, TypeOK, LockInv, SizeInv, CoverInv, PanicInv
<1>6. CASE ExpandTimeout(t)
  BY <1>1, <1>6 DEF ExpandTimeout, TypeOK, LockInv, SizeInv, CoverInv, PanicInv
<1>7. CASE ExpandCheckPanic(t)
  BY <1>1, <1>7 DEF ExpandCheckPanic, TypeOK, LockInv, SizeInv, CoverInv, PanicInv
<1>8. CASE ExpandLoadSize(t)
  BY <1>1, <1>8 DEF ExpandLoadSize, TypeOK, LockInv, SizeInv, CoverInv, PanicInv
<1>9. CASE ExpandFtruncate(t)
  BY <1>1, <1>2, <1>9 DEF ExpandFtruncate, TypeOK, LockInv, SizeInv, CoverInv, PanicInv
<1>10. CASE ExpandStoreSize(t)
  BY <1>1, <1>2, <1>10 DEF ExpandStoreSize, TypeOK, LockInv, SizeInv, CoverInv, PanicInv
<1>11. CASE ExpandStorePanic(t)
  BY <1>1, <1>11 DEF ExpandStorePanic, TypeOK, LockInv, SizeInv, CoverInv, PanicInv
<1>12. CASE ExpandUnlock(t)
  BY <1>1, <1>12 DEF ExpandUnlock, TypeOK, LockInv, SizeInv, CoverInv, PanicInv
<1>13. CASE ExpandReturn(t)
  BY <1>1, <1>13 DEF ExpandReturn, TypeOK, LockInv, SizeInv, CoverInv, PanicInv
<1> QED BY <1>4, <1>5, <1>6, <1>7, <1>8, <1>9, <1>10, <1>11, <1>12, <1>13 DEF CheckoutStep

\* A reservation, a return, a trim or a crash keeps them as well.
LEMMA OtherStepInv ==
  ASSUME IInv, [Next]_cvars, TypeOK',
         \A t \in Threads : ~CheckoutStep(t)
  PROVE  IInv'
<1> USE DEF Goto, meta, End, Critical, FileSizeIsPhysical
<1>1. TypeOK /\ LockInv /\ SizeInv /\ CoverInv /\ PanicInv
  BY DEF IInv, CheckoutInv
<1>2. SUFFICES LockInv' /\ SizeInv' /\ CoverInv' /\ PanicInv'
  BY DEF IInv, CheckoutInv
<1>3. ASSUME NEW t \in Threads, NEW size \in Sizes, CheckoutFetchAdd(t, size)
      PROVE  LockInv' /\ SizeInv' /\ CoverInv' /\ PanicInv'
  BY <1>1, <1>3 DEF CheckoutFetchAdd, TypeOK, LockInv, SizeInv, CoverInv, PanicInv
<1>4. ASSUME NEW t \in Threads, Return(t)
      PROVE  LockInv' /\ SizeInv' /\ CoverInv' /\ PanicInv'
  BY <1>1, <1>4 DEF Return, TypeOK, LockInv, SizeInv, CoverInv, PanicInv
<1>5. ASSUME NEW t \in Threads, TrimLoad(t)
      PROVE  LockInv' /\ SizeInv' /\ CoverInv' /\ PanicInv'
  BY <1>1, <1>5 DEF TrimLoad, TypeOK, LockInv, SizeInv, CoverInv, PanicInv
<1>6. ASSUME NEW t \in Threads, TrimFtruncate(t)
      PROVE  LockInv' /\ SizeInv' /\ CoverInv' /\ PanicInv'
  BY <1>1, <1>6 DEF TrimFtruncate, TypeOK, LockInv, SizeInv, CoverInv, PanicInv
<1>7. ASSUME NEW p \in Procs, Crash(p)
      PROVE  LockInv' /\ SizeInv' /\ CoverInv' /\ PanicInv'
  BY <1>1, <1>7 DEF Crash, TypeOK, LockInv, SizeInv, CoverInv, PanicInv
<1>8. CASE UNCHANGED cvars
  BY <1>1, <1>8 DEF cvars, LockInv, SizeInv, CoverInv, PanicInv
<1> QED BY <1>3, <1>4, <1>5, <1>7, <1>8, <1>6 DEF Next

\* The invariant is inductive.
LEMMA IInvStep == IInv /\ [Next]_cvars => IInv'
<1> SUFFICES ASSUME IInv, [Next]_cvars PROVE IInv'
  OBVIOUS
<1>1. TypeOK'
  BY TypeStep DEF IInv
<1>2. CASE \E t \in Threads : CheckoutStep(t)
  BY <1>1, <1>2, CheckoutStepInv
<1>3. CASE \A t \in Threads : ~CheckoutStep(t)
  BY <1>1, <1>3, OtherStepInv
<1> QED BY <1>2, <1>3

\* The expansion lock excludes, file_size tracks the file and every thread
\* knows what it should about its range, whatever threads trim and whatever
\* processes die.
THEOREM CheckoutInvariant == Spec => []CheckoutInv
<1>1. Init => IInv
  BY IInvInit
<1>2. IInv /\ [Next]_cvars => IInv'
  BY IInvStep
<1>3. IInv => CheckoutInv
  BY DEF IInv
<1> QED BY <1>1, <1>2, <1>3, PTL DEF Spec

\* A position that mmlog_checkout returns is inside the file up to the end of
\* the range, although the decision may rest on a file_size read before other
\* threads grew the file, until somebody trims it.
THEOREM GrantsAreCovered == Spec => []GrantCovered
<1>1. IInv => GrantCovered
  BY DEF IInv, TypeOK, CheckoutInv, SizeInv, CoverInv, GrantCovered, End
<1> QED BY <1>1, IInvInit, IInvStep, PTL DEF Spec

\* Only an expansion and a trim change the size of the file, and an expansion
\* starts from the size that file_size tells.
LEMMA GrowStep == IInv /\ [Next]_cvars => [~trimmed' => phys' >= phys]_phys
<1> SUFFICES ASSUME IInv, [Next]_cvars, phys' # phys, ~trimmed' PROVE phys' >= phys
  OBVIOUS
<1>1. ASSUME NEW t \in Threads, ExpandFtruncate(t) PROVE phys' >= phys
  <2>1. file_size = phys /\ file_size < End(t) /\ phys' = ALIGN(End(t), ChunkSize)
    BY <1>1 DEF ExpandFtruncate, IInv, CheckoutInv, SizeInv, Critical
  <2>2. End(t) \in 0 .. MaxCursor /\ phys \in Nat
    BY DEF IInv, TypeOK, End
  <2> QED BY <2>1, <2>2, AlignCovers
<1>2. \E t \in Threads : ExpandFtruncate(t)
  BY DEF Next, CheckoutFetchAdd, CheckoutStep, CheckoutLoadSize, ExpandTryLock,
    ExpandTimeout, ExpandCheckPanic, ExpandLoadSize, ExpandStoreSize, ExpandStorePanic,
    ExpandUnlock, ExpandReturn, Return, TrimLoad, TrimFtruncate, Crash, meta, cvars
<1> QED BY <1>1, <1>2

\* No expansion cuts off a part of the file that another one added.
THEOREM ExpansionOnlyGrows == Spec => FileNeverShrinks
BY GrowStep, IInvInit, IInvStep, PTL DEF Spec, FileNeverShrinks

\* After an ftruncate failed no thread that was waiting for the lock, or was
\* already past its own test, grows the file; only a trim still changes it.
THEOREM PanicIsForGood == Spec => PanicIsFinal
<1> DEFINE A == is_panicked =>
                  /\ is_panicked' /\ file_size' = file_size
                  /\ phys' = phys \/ \E t \in Threads : pc[t] = "trim" /\ pc'[t] = "idle"
<1>1. IInv /\ [Next]_cvars => [A]_cvars
  <2> SUFFICES ASSUME IInv, Next, is_panicked PROVE A
    OBVIOUS
  <2>1. ASSUME NEW t \in Threads PROVE ~ExpandFtruncate(t) /\ ~ExpandStoreSize(t)
    BY DEF ExpandFtruncate, ExpandStoreSize, IInv, CheckoutInv, PanicInv
  <2>2. CASE \E t \in Threads : TrimFtruncate(t)
    BY <2>2 DEF TrimFtruncate, Goto, IInv, TypeOK
  <2>3. CASE \A t \in Threads : ~TrimFtruncate(t)
    BY <2>1, <2>3 DEF Next, CheckoutFetchAdd, CheckoutStep, CheckoutLoadSize, ExpandTryLock,
      ExpandTimeout, ExpandCheckPanic, ExpandLoadSize, ExpandStorePanic,
      ExpandUnlock, ExpandReturn, Return, TrimLoad, Crash, meta
  <2> QED BY <2>2, <2>3
<1> QED BY <1>1, IInvInit, IInvStep, PTL DEF Spec, PanicIsFinal

=============================================================================
