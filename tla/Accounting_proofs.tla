------------------------- MODULE Accounting_proofs --------------------------
(***************************************************************************)
(* Theorems about Accounting: however many threads construct the counter   *)
(* at once, one of them calibrates and nobody converts with half a rate;   *)
(* update_buckets runs at most once per thread for each Period operations, *)
(* although the count is incremented and tested in two steps; and what the *)
(* buckets average stays in the range of what was put into them.           *)
(***************************************************************************)
EXTENDS Accounting, Induction, FiniteSetTheorems

\* The shapes that the steps of a thread rely on.
Steps == {"construct", "calibrate", "flag", "idle", "operation", "duration", "count", "check",
          "update"}

Shape ==
  /\ th \in [Threads -> [at : Steps, end : Int, duration : Int, ops : Int]]
  /\ clock \in Int /\ op_start \in Int
  /\ initialized \in BOOLEAN /\ is_calibrated \in BOOLEAN
  /\ cycles_per_ns \in {0, Rate}

Calibrating(t) == th[t].at \in {"calibrate", "flag"}

\* A thread calibrates only once initialized is set, alone and before any rate is
\* stored, and it has stored the rate when it comes to the flag.
CalInv ==
  /\ calibrations \in {0, 1}
  /\ ~initialized => calibrations = 0
  /\ \A t \in Threads : th[t].at = "calibrate" => calibrations = 0
  /\ \A t \in Threads : Calibrating(t) => initialized /\ ~is_calibrated
  /\ \A t, u \in Threads : Calibrating(t) /\ Calibrating(u) => t = u
  /\ \A t \in Threads : th[t].at = "flag" => cycles_per_ns = Rate
  /\ is_calibrated => initialized /\ cycles_per_ns = Rate

AInv == Shape /\ CalInv

\* Cycles convert to a whole number once the counter is calibrated, and to 0 before.
LEMMA ConversionIsInt ==
  ASSUME AInv, NEW c \in Int
  PROVE  cycles_to_ns(c) \in Int
BY AccountingAssumption DEF AInv, Shape, CalInv, cycles_to_ns

\* A wrapped difference of cycle counts is a whole number.
LEMMA MinusIsInt ==
  ASSUME NEW x \in Int, NEW y \in Int
  PROVE  Minus(x, y) \in Int
<1>1. Word \in Nat /\ Word > 0
  BY AccountingAssumption
<1> QED
  BY <1>1 DEF Minus

\* A thread that returns from end_operation leaves the others where they are.
LEMMA RestMoves ==
  ASSUME Shape, NEW t \in Threads, Rest(t)
  PROVE  /\ th' \in [Threads -> [at : Steps, end : Int, duration : Int, ops : Int]]
         /\ th'[t].at = "idle"
         /\ \A u \in Threads \ {t} : th'[u] = th[u]
<1> DEFINE a == [th EXCEPT ![t].at = "idle"]
           e == [a EXCEPT ![t].end = 0]
           d == [e EXCEPT ![t].duration = 0]
           Threaded == [Threads -> [at : Steps, end : Int, duration : Int, ops : Int]]
<1>1. a \in Threaded /\ a[t].at = "idle" /\ \A u \in Threads \ {t} : a[u] = th[u]
  BY DEF Shape, Steps
<1> HIDE DEF a
<1>2. e \in Threaded /\ e[t].at = "idle" /\ \A u \in Threads \ {t} : e[u] = th[u]
  BY <1>1
<1> HIDE DEF e
<1>3. d \in Threaded /\ d[t].at = "idle" /\ \A u \in Threads \ {t} : d[u] = th[u]
  BY <1>2
<1>4. th' = d
  BY DEF Rest, e, a
<1> QED
  BY <1>3, <1>4

\* Before any thread has run, nobody calibrates.
LEMMA AccountingStarts == AcctInit => AInv
<1> SUFFICES ASSUME AcctInit
             PROVE  AInv
  OBVIOUS
<1>1. Shape
  <2>1. th \in [Threads -> [at : Steps, end : Int, duration : Int, ops : Int]]
    BY DEF AcctInit, Steps
  <2>2. clock \in Int /\ op_start \in Int
    BY DEF AcctInit
  <2>3. initialized \in BOOLEAN /\ is_calibrated \in BOOLEAN /\ cycles_per_ns \in {0, Rate}
    BY DEF AcctInit
  <2> QED
    BY <2>1, <2>2, <2>3 DEF Shape
<1>2. \A t \in Threads : th[t].at = "construct"
  BY DEF AcctInit
<1>3. ~is_calibrated /\ calibrations = 0
  BY DEF AcctInit
<1> QED
  BY <1>1, <1>2, <1>3 DEF AInv, CalInv, Calibrating

\* No step of any thread lets a second one calibrate.
LEMMA AccountingSteps == AInv /\ [AcctNext]_avars => AInv'
<1> SUFFICES ASSUME AInv, [AcctNext]_avars
             PROVE  AInv'
  OBVIOUS
<1> USE DEF AInv, Shape, Steps, CalInv, Calibrating, Goto
<1>1. CASE Tick
  BY <1>1 DEF Tick, calib, ahist
<1>2. ASSUME NEW t \in Threads, ThreadStep(t)
      PROVE  AInv'
  <2>1. CASE Initialize(t)
    <3>1. /\ initialized'
          /\ th' \in [Threads -> [at : Steps, end : Int, duration : Int, ops : Int]]
          /\ \A u \in Threads \ {t} : th'[u] = th[u]
      BY <2>1 DEF Initialize
    <3>2. CASE initialized
      <4>1. th'[t].at = "idle"
        BY <2>1, <3>2 DEF Initialize
      <4> QED
        BY <2>1, <3>1, <4>1 DEF Initialize, ahist
    <3>3. CASE ~initialized
      <4>1. th'[t].at = "calibrate"
        BY <2>1, <3>3 DEF Initialize
      <4>2. ~is_calibrated'
        BY <2>1, <3>3 DEF Initialize
      <4> QED
        BY <2>1, <3>1, <3>3, <4>1, <4>2 DEF Initialize, ahist
    <3> QED
      BY <3>2, <3>3
  <2>2. CASE StoreRate(t)
    BY <2>2 DEF StoreRate
  <2>3. CASE StoreFlag(t)
    BY <2>3 DEF StoreFlag, ahist
  <2>4. CASE StartOperation(t)
    BY <2>4 DEF StartOperation, calib, ahist
  <2>5. CASE ReadEnd(t)
    BY <2>5 DEF ReadEnd, calib, ahist
  <2>6. CASE StoreLatency(t)
    <3>1. cycles_to_ns(Minus(th[t].end, op_start)) \in Int
      BY ConversionIsInt, MinusIsInt
    <3> QED
      BY <2>6, <3>1 DEF StoreLatency, calib, ahist
  <2>7. CASE CountOperation(t)
    BY <2>7 DEF CountOperation, calib, ahist
  <2>8. CASE NotDue(t)
    BY <2>8, RestMoves DEF NotDue, calib, ahist
  <2>9. CASE UpdateBuckets(t)
    BY <2>9, RestMoves DEF UpdateBuckets, calib
  <2>10. CASE IsDue(t)
    BY <2>10 DEF IsDue, calib, ahist
  <2> QED
    BY <1>2, <2>1, <2>2, <2>3, <2>4, <2>5, <2>6, <2>7, <2>8, <2>9, <2>10 DEF ThreadStep
<1>3. CASE UNCHANGED avars
  BY <1>3 DEF avars, calib, ahist
<1> QED
  BY <1>1, <1>2, <1>3 DEF AcctNext

\* initialize "ensures calibration only runs once", for any number of threads: the
\* exchange on initialized lets one of them in, ever, and is_calibrated is stored
\* after the rate.
THEOREM OneCalibration == AcctSpec => []CalibratesOnce
<1>1. AInv => CalibratesOnce
  BY DEF AInv, CalInv, Calibrating, CalibratesOnce
<1> QED
  BY <1>1, AccountingStarts, AccountingSteps, PTL DEF AcctSpec

-----------------------------------------------------------------------------
(* The number of updates *)

\* Threads that have counted their operation and not yet tested the count.
Checking == {t \in Threads : th[t].at = "check"}

\* Threads that have found the count due and wait for the mutex.
Updating == {t \in Threads : th[t].at = "update"}

\* Updates done or under way: while the count stands at a multiple of Period,
\* every thread that is about to test it will update.
Claimed == updates + Cardinality(Updating) + IF Due THEN Cardinality(Checking) ELSE 0

CountInv ==
  /\ updates \in Nat /\ operation_count \in Nat
  /\ Claimed <= Cardinality(Threads) * (operation_count \div Period)

\* One more operation: the quotient by Period goes up when the new count is a
\* multiple of Period, and never goes down.
LEMMA NextQuotient ==
  ASSUME NEW c \in Nat
  PROVE  /\ c \div Period \in Nat /\ (c + 1) \div Period \in Nat
         /\ c \div Period <= (c + 1) \div Period
         /\ (c + 1) % Period = 0 => (c + 1) \div Period = c \div Period + 1
<1>1. Period \in Nat /\ Period > 0
  BY AccountingAssumption
<1> DEFINE q == c \div Period
           m == c % Period
           r == (c + 1) \div Period
           n == (c + 1) % Period
<1>2. q \in Nat /\ m \in 0 .. Period - 1 /\ c = q * Period + m
  BY <1>1
<1>3. r \in Nat /\ n \in 0 .. Period - 1 /\ c + 1 = r * Period + n
  BY <1>1
<1> HIDE DEF q, m, r, n
<1>4. ASSUME NEW a \in Nat, NEW b \in Nat, a < b
      PROVE  a * Period \in Nat /\ a * Period + Period <= b * Period
  <2>1. PICK d \in Nat : b = a + 1 + d
    BY <1>4
  <2>2. b * Period = a * Period + Period + d * Period
    BY <1>1, <2>1
  <2>3. d * Period \in Nat /\ a * Period \in Nat
    BY <1>1
  <2> QED
    BY <1>1, <2>2, <2>3
<1>5. q * Period \in Nat /\ r * Period \in Nat
  BY <1>1, <1>2, <1>3
<1>6. ~(r < q)
  BY <1>1, <1>2, <1>3, <1>4, <1>5
<1>7. (q + 1) * Period = q * Period + Period
  BY <1>1, <1>2
<1>8. n = 0 => q # r /\ ~(q + 1 < r)
  BY <1>1, <1>2, <1>3, <1>4, <1>5, <1>7
<1> QED
  BY <1>2, <1>3, <1>6, <1>8 DEF q, r, n

\* The threads about to test or to update are finitely many.
LEMMA CheckingFinite ==
  /\ IsFiniteSet(Checking) /\ Cardinality(Checking) \in Nat
  /\ IsFiniteSet(Updating) /\ Cardinality(Updating) \in Nat
  /\ IsFiniteSet(Updating)' /\ Cardinality(Updating') \in Nat
  /\ Cardinality(Threads) \in Nat /\ Cardinality(Checking) <= Cardinality(Threads)
  /\ IsFiniteSet(Checking)' /\ Cardinality(Checking') \in Nat
  /\ Cardinality(Checking') <= Cardinality(Threads)
<1>1. /\ IsFiniteSet(Threads) /\ Checking \subseteq Threads /\ Checking' \subseteq Threads
      /\ Updating \subseteq Threads /\ Updating' \subseteq Threads
  BY AccountingAssumption DEF Checking, Updating
<1> QED
  BY <1>1, FS_Subset, FS_CardinalityType

\* A step that does not count, test or update leaves the updates as they were.
LEMMA ClaimedSame ==
  ASSUME CountInv, UNCHANGED <<updates, operation_count>>, Checking' = Checking,
         Updating' = Updating
  PROVE  CountInv'
BY DEF CountInv, Claimed, Due

\* No step claims more updates than the count allows.
LEMMA CountSteps == AInv /\ CountInv /\ [AcctNext]_avars => CountInv'
<1> SUFFICES ASSUME AInv, CountInv, [AcctNext]_avars
             PROVE  CountInv'
  OBVIOUS
<1>1. th \in [Threads -> [at : Steps, end : Int, duration : Int, ops : Int]]
  BY DEF AInv, Shape
<1>2. CASE Tick
  BY <1>2, ClaimedSame DEF Tick, ahist, Checking, Updating
<1>3. ASSUME NEW t \in Threads, ThreadStep(t)
      PROVE  CountInv'
  <2>1. CASE Initialize(t) \/ StoreRate(t) \/ StoreFlag(t) \/ StartOperation(t)
    <3>1. /\ \E l \in {"idle", "calibrate", "flag", "operation"} : Goto(t, l)
          /\ th[t].at \notin {"check", "update"} /\ UNCHANGED <<updates, operation_count>>
      BY <2>1 DEF Initialize, StoreRate, StoreFlag, StartOperation, ahist
    <3>2. th'[t].at \notin {"check", "update"} /\ \A u \in Threads \ {t} : th'[u] = th[u]
      BY <1>1, <3>1 DEF Goto
    <3>3. Checking' = Checking /\ Updating' = Updating
      BY <3>1, <3>2 DEF Checking, Updating
    <3> QED
      BY <3>1, <3>3, ClaimedSame
  <2>2. CASE ReadEnd(t)
    <3>1. th'[t].at \notin {"check", "update"} /\ \A u \in Threads \ {t} : th'[u] = th[u]
      BY <1>1, <2>2 DEF ReadEnd
    <3>2. Checking' = Checking /\ Updating' = Updating
      BY <2>2, <3>1 DEF Checking, Updating, ReadEnd
    <3> QED
      BY <2>2, <3>2, ClaimedSame DEF ReadEnd, ahist
  <2>3. CASE StoreLatency(t)
    <3>1. th'[t].at \notin {"check", "update"} /\ \A u \in Threads \ {t} : th'[u] = th[u]
      BY <1>1, <2>3 DEF StoreLatency
    <3>2. Checking' = Checking /\ Updating' = Updating
      BY <2>3, <3>1 DEF Checking, Updating, StoreLatency
    <3> QED
      BY <2>3, <3>2, ClaimedSame DEF StoreLatency, ahist
  <2>4. CASE CountOperation(t)
    <3> DEFINE c == operation_count
               q == c \div Period
               r == (c + 1) \div Period
               n == Cardinality(Threads)
               w == updates + Cardinality(Updating)
    <3>0. Updating' = Updating
      <4>1. th'[t].at = "check" /\ th[t].at = "count" /\ \A u \in Threads \ {t} : th'[u] = th[u]
        BY <1>1, <2>4 DEF CountOperation
      <4> QED
        BY <4>1 DEF Updating
    <3>1. /\ operation_count' = c + 1 /\ UNCHANGED updates
          /\ c \in Nat /\ updates \in Nat /\ w \in Nat
      BY <2>4, CheckingFinite DEF CountOperation, ahist, CountInv
    <3>2. /\ q \in Nat /\ r \in Nat /\ q <= r
          /\ (c + 1) % Period = 0 => r = q + 1
      BY <3>1, NextQuotient
    <3>3. w <= n * q
      <4>1. Claimed \in Nat /\ w <= Claimed
        BY <3>1, CheckingFinite DEF Claimed
      <4>2. Claimed <= n * q /\ n \in Nat
        BY CheckingFinite DEF CountInv
      <4>3. n * q \in Nat
        BY <3>2, <4>2
      <4> HIDE DEF n, q, w
      <4> QED
        BY <3>1, <4>1, <4>2, <4>3
    <3>4. Due' <=> (c + 1) % Period = 0
      BY <3>1 DEF Due
    <3>5. n \in Nat
      BY CheckingFinite
    <3>6. Claimed' = w + IF Due' THEN Cardinality(Checking') ELSE 0
      BY <3>0, <3>1 DEF Claimed
    <3>7. operation_count' \div Period = r
      BY <3>1
    <3> HIDE DEF c, q, r, n, w
    <3>8. n * q \in Nat /\ n * (q + 1) = n * q + n
      BY <3>2, <3>5
    <3>9. n * q <= n * r
      <4>1. PICK d \in Nat : r = q + d
        BY <3>2
      <4>2. n * r = n * q + n * d /\ n * d \in Nat
        BY <3>2, <3>5, <4>1
      <4> QED
        BY <3>8, <4>2
    <3>10. Claimed' <= n * r
      <4>1. CASE Due'
        <5>1. r = q + 1 /\ n * r = n * q + n
          BY <3>2, <3>4, <3>8, <4>1
        <5>2. Cardinality(Checking') \in Nat /\ Cardinality(Checking') <= n
          BY CheckingFinite DEF n
        <5> QED
          BY <3>1, <3>3, <3>5, <3>6, <3>8, <4>1, <5>1, <5>2
      <4>2. CASE ~Due'
        <5>1. n * r \in Nat
          BY <3>2, <3>5
        <5> QED
          BY <3>1, <3>3, <3>6, <3>8, <3>9, <4>2, <5>1
      <4> QED
        BY <4>1, <4>2
    <3>11. updates' \in Nat /\ operation_count' \in Nat
      BY <3>1
    <3> QED
      BY <3>7, <3>10, <3>11 DEF CountInv, n
  <2>5. CASE NotDue(t)
    <3>1. ~Due /\ ~Due' /\ Rest(t) /\ th[t].at = "check" /\ UNCHANGED <<updates, operation_count>>
      BY <2>5 DEF NotDue, Due, ahist
    <3>2. th'[t].at = "idle" /\ \A u \in Threads \ {t} : th'[u] = th[u]
      BY <3>1, RestMoves DEF AInv
    <3>3. Updating' = Updating
      BY <3>1, <3>2 DEF Updating
    <3> QED
      BY <3>1, <3>3 DEF CountInv, Claimed
  <2>6. CASE UpdateBuckets(t)
    <3>1. /\ Rest(t) /\ t \in Updating /\ th[t].at = "update"
          /\ updates' = updates + 1 /\ operation_count' = operation_count
      BY <2>6 DEF UpdateBuckets, Updating
    <3>2. th'[t].at = "idle" /\ \A u \in Threads \ {t} : th'[u] = th[u]
      BY <3>1, RestMoves DEF AInv
    <3>3. Updating' = Updating \ {t} /\ Checking' = Checking
      BY <3>1, <3>2 DEF Updating, Checking
    <3>4. Cardinality(Updating') = Cardinality(Updating) - 1 /\ Cardinality(Updating) \in Nat
      BY <3>1, <3>3, CheckingFinite, FS_RemoveElement
    <3>5. Cardinality(Checking) \in Nat /\ updates \in Nat /\ (Due' <=> Due)
      BY <3>1, CheckingFinite DEF CountInv, Due
    <3>6. Claimed' = Claimed
      BY <3>1, <3>3, <3>4, <3>5 DEF Claimed
    <3> QED
      BY <3>1, <3>5, <3>6 DEF CountInv
  <2>7. CASE IsDue(t)
    <3>1. /\ Due /\ Due' /\ t \in Checking /\ t \notin Updating
          /\ UNCHANGED <<updates, operation_count>>
      BY <2>7 DEF IsDue, Due, Checking, Updating, ahist
    <3>2. th'[t].at = "update" /\ \A u \in Threads \ {t} : th'[u] = th[u]
      BY <1>1, <2>7 DEF IsDue, Goto
    <3>3. Checking' = Checking \ {t} /\ Updating' = Updating \cup {t}
      BY <3>2 DEF Checking, Updating
    <3>4. Cardinality(Checking') = Cardinality(Checking) - 1 /\ Cardinality(Checking) \in Nat
      BY <3>1, <3>3, CheckingFinite, FS_RemoveElement
    <3>5. Cardinality(Updating') = Cardinality(Updating) + 1 /\ Cardinality(Updating) \in Nat
      BY <3>1, <3>3, CheckingFinite, FS_AddElement
    <3>6. updates \in Nat /\ Claimed' = Claimed
      BY <3>1, <3>4, <3>5 DEF Claimed, CountInv
    <3> QED
      BY <3>1, <3>6 DEF CountInv
  <2> QED
    BY <1>3, <2>1, <2>2, <2>3, <2>4, <2>5, <2>6, <2>7 DEF ThreadStep
<1>4. CASE UNCHANGED avars
  BY <1>4, ClaimedSame DEF avars, ahist, Checking, Updating
<1> QED
  BY <1>2, <1>3, <1>4 DEF AcctNext

\* Before any operation nobody is about to test the count.
LEMMA CountStarts == AcctInit => CountInv
<1> SUFFICES ASSUME AcctInit
             PROVE  CountInv
  OBVIOUS
<1>1. updates = 0 /\ operation_count = 0 /\ Checking = {} /\ Updating = {}
  BY DEF AcctInit, Checking, Updating
<1>2. Claimed = 0
  BY <1>1, FS_EmptySet DEF Claimed
<1>3. Period \in Nat /\ Period > 0 /\ Cardinality(Threads) \in Nat
  BY AccountingAssumption, CheckingFinite
<1>4. 0 \div Period = 0 /\ Cardinality(Threads) * 0 = 0
  BY <1>3
<1> QED
  BY <1>1, <1>2, <1>4 DEF CountInv

\* However the increments and the tests of operation_count interleave, no Period
\* operations make more updates than there are threads.
THEOREM UpdatesAreBounded == AcctSpec => []UpdatesBounded
<1>1. CountInv => UpdatesBounded
  <2> SUFFICES ASSUME CountInv
               PROVE  UpdatesBounded
    OBVIOUS
  <2>1. /\ updates \in Nat /\ operation_count \in Nat
        /\ Cardinality(Checking) \in Nat /\ Cardinality(Updating) \in Nat
    BY CheckingFinite DEF CountInv
  <2>2. operation_count \div Period \in Nat /\ Cardinality(Threads) \in Nat
    BY <2>1, NextQuotient, CheckingFinite
  <2> DEFINE bound == Cardinality(Threads) * (operation_count \div Period)
  <2>3. bound \in Nat /\ Claimed <= bound
    BY <2>2 DEF CountInv
  <2>4. updates <= Claimed /\ Claimed \in Nat
    BY <2>1 DEF Claimed
  <2> HIDE DEF bound
  <2>5. updates <= bound
    BY <2>1, <2>3, <2>4
  <2> QED
    BY <2>5 DEF UpdatesBounded, bound
<1> QED
  BY <1>1, AccountingStarts, AccountingSteps, CountStarts, CountSteps, PTL DEF AcctSpec

-----------------------------------------------------------------------------
(* The buckets *)

Bucket == [sum : Nat, count : Nat, last : Nat]

AllBuckets == [1 .. NumBuckets -> Bucket]

\* Before a duration is put in there is no range, then a least and a greatest one.
BucketShape ==
  /\ buckets \in AllBuckets
  /\ range = <<>> \/ range \in Nat \X Nat
  /\ clock \in Nat /\ clock <= MaxClock
  /\ \A t \in Threads : th[t].end \in 0 .. clock /\ th[t].duration \in Nat

\* The average of what bucket b holds lies in lo .. hi.
Fits(b, lo, hi) == b.count * lo <= b.sum /\ b.sum <= b.count * hi

\* What the loop of update_buckets keeps: every bucket fits the range, none is
\* newer than now, and one that is empty is no newer than the next, to which it
\* gave its average when it was emptied.
Layered(bs, now, lo, hi) ==
  /\ bs \in AllBuckets
  /\ \A j \in 1 .. NumBuckets : Fits(bs[j], lo, hi) /\ bs[j].last <= now
  /\ \A j \in 1 .. NumBuckets - 1 : bs[j].count = 0 => bs[j].last <= bs[j + 1].last

\* No bucket averages above hi: what the loop keeps in whatever order the updates
\* come, since an empty bucket passes on zero.
Capped(bs, hi) == bs \in AllBuckets /\ \A j \in 1 .. NumBuckets : Fits(bs[j], 0, hi)

\* The buckets are capped, and layered as long as updates come in the order of
\* their time stamps.
BucketInv ==
  /\ BucketShape
  /\ range = <<>> => \A j \in 1 .. NumBuckets :
                       buckets[j] = [sum |-> 0, count |-> 0, last |-> 0]
  /\ range # <<>> => Capped(buckets, range[2])
  /\ ~stale => /\ range # <<>> => Layered(buckets, buckets[1].last, range[1], range[2])
               /\ buckets[1].last <= clock

\* Multiplying keeps the order.
LEMMA TimesMonotone ==
  ASSUME NEW a \in Nat, NEW b \in Nat, NEW c \in Nat, a <= b
  PROVE  /\ a * c \in Nat /\ b * c \in Nat /\ a * c <= b * c
         /\ c * a \in Nat /\ c * b \in Nat /\ c * a <= c * b
<1>1. PICK d \in Nat : b = a + d
  OBVIOUS
<1>2. b * c = a * c + d * c /\ d * c \in Nat /\ a * c \in Nat
  BY <1>1
<1>3. c * a = a * c /\ c * b = b * c
  OBVIOUS
<1> QED
  BY <1>2, <1>3

\* The average of a bucket that fits the range and is not empty lies in the range,
\* although it is rounded down.
LEMMA AverageFits ==
  ASSUME NEW s \in Nat, NEW c \in Nat, NEW lo \in Nat, NEW hi \in Nat,
         c > 0, c * lo <= s, s <= c * hi
  PROVE  s \div c \in lo .. hi
<1> DEFINE q == s \div c
           m == s % c
<1>1. q \in Nat /\ m \in 0 .. c - 1 /\ s = q * c + m
  OBVIOUS
<1> HIDE DEF q, m
<1>2. ASSUME q < lo PROVE FALSE
  <2>1. (q + 1) * c <= lo * c /\ lo * c \in Nat /\ (q + 1) * c = q * c + c
    BY <1>1, <1>2, TimesMonotone
  <2>2. lo * c = c * lo /\ q * c \in Nat
    BY <1>1
  <2> QED
    BY <1>1, <2>1, <2>2
<1>3. ASSUME hi < q PROVE FALSE
  <2>1. (hi + 1) * c <= q * c /\ q * c \in Nat /\ (hi + 1) * c = hi * c + c
    BY <1>1, <1>3, TimesMonotone
  <2>2. hi * c = c * hi /\ hi * c \in Nat
    OBVIOUS
  <2> QED
    BY <1>1, <2>1, <2>2
<1>4. q \in lo .. hi
  BY <1>1, <1>2, <1>3
<1> QED
  BY <1>4 DEF q

\* A bucket's average is a natural number, zero when it is empty.
LEMMA AverageIsNat ==
  ASSUME NEW b, b.sum \in Nat, b.count \in Nat
  PROVE  Average(b) \in Nat
BY DEF Average

\* The spans of the buckets: each is a number, and at least that of the one before.
LEMMA SpansGrow ==
  /\ \A i \in 0 .. NumBuckets - 1 : time_span[i] \in Nat
  /\ \A i \in 1 .. NumBuckets - 1 : time_span[i - 1] <= time_span[i]
<1> DEFINE n == NumBuckets - 1
           F == [i \in 1 .. n |-> [s \in Nat |-> Factor * s]]
           Solves(g) == g = [i \in 0 .. n |-> IF i = 0 THEN Base ELSE Factor * g[i - 1]]
<1>1. n \in Nat /\ Base \in Nat /\ Factor \in Nat /\ Factor > 0
  BY AccountingAssumption
<1>2. F \in [1 .. n -> [Nat -> Nat]]
  BY <1>1
<1>3. \E g : Solves(g)
  <2> DEFINE S == Nat
  <2>1. F \in Bodies(n, S)
    BY <1>2 DEF Bodies
  <2>2. Base \in S
    BY <1>1
  <2> HIDE DEF F, n, S
  <2>3. PICK g : Runs(g, n, S, Base, F)
    BY <1>1, <2>1, <2>2, Recursion
  <2>4. ASSUME NEW i \in 0 .. n PROVE g[i] = IF i = 0 THEN Base ELSE Factor * g[i - 1]
    <3>1. ASSUME i # 0 PROVE F[i][g[i - 1]] = Factor * g[i - 1]
      <4>1. i \in 1 .. n /\ g[i - 1] \in Nat
        BY <1>1, <2>3, <3>1 DEF Runs, S
      <4>2. F[i] = [s \in Nat |-> Factor * s]
        BY <4>1 DEF F
      <4> QED
        BY <4>1, <4>2
    <3>2. g[i] = IF i = 0 THEN Base ELSE F[i][g[i - 1]]
      BY <1>1, <2>3 DEF Runs
    <3> QED
      BY <3>1, <3>2
  <2>5. Solves(g)
    BY <2>3, <2>4 DEF Runs
  <2> QED
    BY <2>5
<1>4. Solves(time_span)
  <2>1. time_span = CHOOSE g : Solves(g)
    BY DEF time_span
  <2> HIDE DEF Solves
  <2> QED
    BY <1>3, <2>1
<1>5. 0 .. n \subseteq {i \in 0 .. n : time_span[i] \in Nat}
  <2> DEFINE S == {i \in 0 .. n : time_span[i] \in Nat}
  <2>1. 0 \in S
    BY <1>1, <1>4
  <2>2. ASSUME NEW i \in 0 .. n - 1, i \in S PROVE i + 1 \in S
    BY <1>1, <1>4, <2>2
  <2> HIDE DEF S, n
  <2>3. 0 .. n \subseteq S
    BY <1>1, <2>1, <2>2, UpTo
  <2> QED
    BY <2>3 DEF S
<1>6. ASSUME NEW i \in 1 .. n PROVE time_span[i - 1] <= time_span[i]
  <2>1. time_span[i] = Factor * time_span[i - 1]
    BY <1>1, <1>4
  <2>2. time_span[i - 1] \in Nat
    BY <1>1, <1>5
  <2>3. 1 * time_span[i - 1] <= Factor * time_span[i - 1]
    BY <1>1, <2>2, TimesMonotone
  <2> QED
    BY <2>1, <2>2, <2>3
<1> QED
  BY <1>5, <1>6

\* The fields of a bucket, and the last bucket's.
LEMMA BucketFields ==
  ASSUME NEW bs \in AllBuckets
  PROVE  /\ \A j \in 1 .. NumBuckets : bs[j] \in Bucket /\ bs[j].sum \in Nat
                                      /\ bs[j].count \in Nat /\ bs[j].last \in Nat
         /\ bs[1].last \in Nat /\ bs[NumBuckets].count \in Nat
<1>1. NumBuckets \in 1 .. NumBuckets /\ 1 \in 1 .. NumBuckets
  BY AccountingAssumption
<1>2. \A j \in 1 .. NumBuckets : bs[j] \in Bucket
  BY DEF AllBuckets
<1>3. \A j \in 1 .. NumBuckets : bs[j].sum \in Nat /\ bs[j].count \in Nat /\ bs[j].last \in Nat
  BY <1>2 DEF Bucket
<1> QED
  BY <1>1, <1>2, <1>3

\* What a shift of bucket i makes of the buckets bs.
Moved(s, bs, i, now) ==
  /\ s \in AllBuckets
  /\ s[i] = Emptied(bs[i])
  /\ s[i + 1] = [sum |-> bs[i + 1].sum + Average(bs[i]), count |-> bs[i + 1].count + 1,
                 last |-> now]
  /\ \A j \in 1 .. NumBuckets : j # i /\ j # i + 1 => s[j] = bs[j]

\* A shift touches bucket i and the next one, and nothing else.
LEMMA ShiftMoves ==
  ASSUME NEW bs \in AllBuckets, NEW i \in 1 .. NumBuckets - 1, NEW now \in Nat
  PROVE  Moved(Shift(bs, i, now), bs, i, now)
<1>1. NumBuckets \in Nat /\ i \in 1 .. NumBuckets /\ i + 1 \in 1 .. NumBuckets /\ i # i + 1
  BY AccountingAssumption
<1>2. bs[i] \in Bucket /\ bs[i + 1] \in Bucket
  BY <1>1 DEF AllBuckets
<1>3. Average(bs[i]) \in Nat
  BY <1>2, AverageIsNat DEF Bucket
<1> DEFINE fed == [sum |-> bs[i + 1].sum + Average(bs[i]),
                   count |-> bs[i + 1].count + 1, last |-> now]
           gone == Emptied(bs[i])
<1>4. fed \in Bucket
  BY <1>2, <1>3 DEF Bucket
<1>5. gone \in Bucket
  BY <1>2 DEF Bucket, Emptied
<1>6. Shift(bs, i, now) = [bs EXCEPT ![i + 1] = fed, ![i] = gone]
  BY <1>1 DEF Shift
<1> HIDE DEF fed, gone
<1>7. /\ [bs EXCEPT ![i + 1] = fed, ![i] = gone] \in AllBuckets
      /\ [bs EXCEPT ![i + 1] = fed, ![i] = gone][i] = gone
      /\ [bs EXCEPT ![i + 1] = fed, ![i] = gone][i + 1] = fed
      /\ \A j \in 1 .. NumBuckets : j # i /\ j # i + 1 =>
                                  [bs EXCEPT ![i + 1] = fed, ![i] = gone][j] = bs[j]
  BY <1>1, <1>4, <1>5 DEF AllBuckets
<1> QED
  BY <1>6, <1>7 DEF Moved, fed, gone

\* An iteration of the loop leaves buckets.
LEMMA CoarsenBuckets ==
  ASSUME NEW bs \in AllBuckets, NEW i \in 1 .. NumBuckets - 1, NEW now \in Nat
  PROVE  Coarsen(bs, i, now) \in AllBuckets
BY ShiftMoves DEF Coarsen, Moved

\* The time since a bucket was updated, as a number: the later it was, the shorter
\* the time, as long as the clock has not wrapped.
LEMMA ElapsedOrder ==
  ASSUME AInv, NEW now \in Nat, now < Word, NEW x \in Nat, NEW y \in Nat, x <= y, y <= now
  PROVE  /\ cycles_to_ns(Minus(now, x)) \in Nat /\ cycles_to_ns(Minus(now, y)) \in Nat
         /\ cycles_to_ns(Minus(now, y)) <= cycles_to_ns(Minus(now, x))
<1>1. Word \in Nat /\ Rate \in Nat /\ Rate > 0
  BY AccountingAssumption
<1>2. Minus(now, x) = now - x /\ Minus(now, y) = now - y
  BY <1>1 DEF Minus
<1> DEFINE a == now - y
           b == now - x
<1>3. a \in Nat /\ b \in Nat /\ a <= b
  OBVIOUS
<1> HIDE DEF a, b
<1>4. a \div Rate \in Nat /\ b \div Rate \in Nat /\ a \div Rate <= b \div Rate
  <2> DEFINE q == a \div Rate
             r == b \div Rate
  <2>1. q \in Nat /\ r \in Nat /\ q * Rate <= a /\ b < r * Rate + Rate
    BY <1>1, <1>3
  <2> HIDE DEF q, r
  <2>2. ASSUME r < q PROVE FALSE
    <3>1. (r + 1) * Rate <= q * Rate /\ (r + 1) * Rate = r * Rate + Rate
      BY <1>1, <2>1, <2>2, TimesMonotone
    <3>2. q * Rate \in Nat /\ r * Rate \in Nat
      BY <1>1, <2>1
    <3> QED
      BY <1>1, <1>3, <2>1, <3>1, <3>2
  <2>3. q <= r
    BY <2>1, <2>2
  <2> QED
    BY <2>1, <2>3 DEF q, r
<1>5. CASE is_calibrated
  BY <1>2, <1>4, <1>5 DEF AInv, CalInv, cycles_to_ns, a, b
<1>6. CASE ~is_calibrated
  BY <1>6 DEF cycles_to_ns
<1> QED
  BY <1>5, <1>6

\* A bucket that fits the range still does with one more value of the range.
LEMMA FitsMore ==
  ASSUME NEW b \in Bucket, NEW lo \in Nat, NEW hi \in Nat, Fits(b, lo, hi),
         NEW v \in lo .. hi, NEW now
  PROVE  Fits([sum |-> b.sum + v, count |-> b.count + 1, last |-> now], lo, hi)
<1> DEFINE c == b.count
           s == b.sum
<1>1. c \in Nat /\ s \in Nat /\ c * lo <= s /\ s <= c * hi
  BY DEF Bucket, Fits
<1> HIDE DEF c, s
<1>2. (c + 1) * lo = c * lo + lo /\ (c + 1) * hi = c * hi + hi /\ c * lo \in Nat /\ c * hi \in Nat
  BY <1>1
<1>3. (c + 1) * lo <= s + v /\ s + v <= (c + 1) * hi
  BY <1>1, <1>2
<1> QED
  BY <1>3 DEF Fits, c, s

\* Bucket i has something to give, or the loop will not shift it.
Ready(bs, i, now) == bs[i].count = 0 => Elapsed(bs, i + 1, now) <= time_span[i - 1]

\* One iteration of the loop of update_buckets.  A bucket that is not shifted leaves
\* the next one too young to be shifted if it is empty: the next was emptied no
\* later than the one after it was fed, and the spans grow.
LEMMA LayeredStep ==
  ASSUME AInv, NEW now \in Nat, now < Word, NEW lo \in Nat, NEW hi \in Nat,
         NEW bs, Layered(bs, now, lo, hi), NEW i \in 1 .. NumBuckets - 1, Ready(bs, i, now)
  PROVE  /\ Layered(Coarsen(bs, i, now), now, lo, hi)
         /\ Elapsed(Coarsen(bs, i, now), i + 1, now) <= time_span[i - 1]
         /\ i < NumBuckets - 1 => Ready(Coarsen(bs, i, now), i + 1, now)
         /\ Coarsen(bs, i, now)[1].last = bs[1].last
         /\ Coarsen(bs, i, now)[NumBuckets].count >= bs[NumBuckets].count
<1>1. /\ NumBuckets \in Nat /\ NumBuckets > 1
      /\ i \in 1 .. NumBuckets /\ i + 1 \in 1 .. NumBuckets
  BY AccountingAssumption
<1>2. bs \in AllBuckets
  BY DEF Layered
<1>3. \A j \in 1 .. NumBuckets : bs[j] \in Bucket /\ Fits(bs[j], lo, hi) /\ bs[j].last <= now
  BY <1>2 DEF Layered, AllBuckets
<1>4. \A j \in 1 .. NumBuckets : bs[j].last \in Nat /\ bs[j].count \in Nat /\ bs[j].sum \in Nat
  BY <1>3 DEF Bucket
<1>5. /\ time_span[i - 1] \in Nat
      /\ (i < NumBuckets - 1 => time_span[i] \in Nat /\ time_span[i - 1] <= time_span[i])
  BY <1>1, SpansGrow
<1>6. CASE Elapsed(bs, i + 1, now) > time_span[i - 1]
  <2> DEFINE s == Shift(bs, i, now)
  <2>1. Coarsen(bs, i, now) = s
    BY <1>6 DEF Coarsen
  <2>2. Moved(s, bs, i, now)
    BY <1>2, ShiftMoves
  <2> HIDE DEF s
  <2>3. Average(bs[i]) \in lo .. hi
    <3>1. Elapsed(bs, i + 1, now) \in Nat
      BY <1>1, <1>3, <1>4, ElapsedOrder DEF Elapsed
    <3>2. bs[i].count > 0
      BY <1>1, <1>4, <1>5, <1>6, <3>1 DEF Ready
    <3> QED
      BY <1>1, <1>3, <1>4, <3>2, AverageFits DEF Fits, Average
  <2>4. Fits(s[i + 1], lo, hi)
    BY <1>1, <1>3, <2>2, <2>3, FitsMore DEF Moved, Emptied
  <2>5. Fits(s[i], lo, hi)
    BY <2>2 DEF Fits, Moved, Emptied
  <2>6. \A j \in 1 .. NumBuckets : Fits(s[j], lo, hi) /\ s[j].last <= now
    <3> TAKE j \in 1 .. NumBuckets
    <3>1. CASE j \in {i, i + 1}
      BY <1>1, <1>3, <1>4, <2>2, <2>4, <2>5, <3>1 DEF Moved, Emptied
    <3>2. CASE j \notin {i, i + 1}
      BY <1>3, <2>2, <3>2 DEF Moved, Emptied
    <3> QED
      BY <3>1, <3>2
  <2>7. ASSUME NEW j \in 1 .. NumBuckets - 1, s[j].count = 0
        PROVE  s[j].last <= s[j + 1].last
    <3>1. j \in 1 .. NumBuckets /\ j + 1 \in 1 .. NumBuckets
      BY <1>1
    <3>2. CASE j = i
      BY <1>1, <1>3, <1>4, <2>2, <3>2 DEF Moved, Emptied
    <3>3. CASE j = i + 1
      BY <1>1, <1>4, <2>2, <2>7, <3>3 DEF Moved, Emptied
    <3>4. CASE j + 1 = i
      <4>1. s[j] = bs[j] /\ s[j + 1].last = bs[j + 1].last
        BY <1>1, <2>2, <3>1, <3>4 DEF Moved, Emptied
      <4> QED
        BY <2>7, <4>1 DEF Layered
    <3>5. CASE j # i /\ j # i + 1 /\ j + 1 # i
      <4>1. s[j] = bs[j] /\ s[j + 1] = bs[j + 1]
        BY <1>1, <2>2, <3>1, <3>5 DEF Moved, Emptied
      <4> QED
        BY <2>7, <4>1 DEF Layered
    <3> QED
      BY <3>2, <3>3, <3>4, <3>5
  <2>8. Layered(s, now, lo, hi)
    BY <2>2, <2>6, <2>7 DEF Layered, Moved, Emptied
  <2>9. Elapsed(s, i + 1, now) <= time_span[i - 1]
    <3>1. Minus(now, now) = 0
      BY AccountingAssumption DEF Minus
    <3>2. cycles_to_ns(0) = 0
      BY AccountingAssumption DEF cycles_to_ns, AInv, CalInv
    <3>3. Elapsed(s, i + 1, now) = 0
      BY <2>2, <3>1, <3>2 DEF Elapsed, Moved, Emptied
    <3> QED
      BY <1>5, <3>3
  <2>10. Ready(s, i + 1, now)
    BY <1>1, <1>4, <2>2 DEF Ready, Moved, Emptied
  <2>11. s[1].last = bs[1].last
    BY <1>1, <2>2 DEF Moved, Emptied
  <2>12. s[NumBuckets].count >= bs[NumBuckets].count
    BY <1>1, <1>4, <2>2 DEF Moved, Emptied
  <2> QED
    BY <2>1, <2>8, <2>9, <2>10, <2>11, <2>12
<1>7. CASE ~(Elapsed(bs, i + 1, now) > time_span[i - 1])
  <2>1. Coarsen(bs, i, now) = bs
    BY <1>7 DEF Coarsen
  <2>2. Elapsed(bs, i + 1, now) \in Nat /\ Elapsed(bs, i + 1, now) <= time_span[i - 1]
    <3>1. Elapsed(bs, i + 1, now) \in Nat
      BY <1>1, <1>3, <1>4, ElapsedOrder DEF Elapsed
    <3> QED
      BY <1>5, <1>7, <3>1
  <2>3. ASSUME i < NumBuckets - 1, bs[i + 1].count = 0
        PROVE  Elapsed(bs, i + 2, now) <= time_span[i]
    <3>1. i + 1 \in 1 .. NumBuckets - 1 /\ i + 2 \in 1 .. NumBuckets /\ (i + 1) + 1 = i + 2
      BY <1>1, <2>3
    <3>2. bs[i + 1].last <= bs[i + 2].last
      BY <2>3, <3>1 DEF Layered
    <3>3. Elapsed(bs, i + 2, now) \in Nat /\ Elapsed(bs, i + 2, now) <= Elapsed(bs, i + 1, now)
      BY <1>1, <1>3, <1>4, <3>1, <3>2, ElapsedOrder DEF Elapsed
    <3> QED
      BY <1>5, <2>2, <2>3, <3>3
  <2>4. i < NumBuckets - 1 => Ready(bs, i + 1, now)
    <3>1. (i + 1) + 1 = i + 2 /\ (i + 1) - 1 = i
      OBVIOUS
    <3> QED
      BY <2>3, <3>1 DEF Ready
  <2>5. bs[NumBuckets].count >= bs[NumBuckets].count
    BY <1>1, <1>4
  <2> QED
    BY <2>1, <2>2, <2>4, <2>5
<1> QED
  BY <1>6, <1>7

\* The buckets before the loop of update_buckets and after each of its iterations.
Loop(after, bs, now) ==
  /\ after \in [0 .. NumBuckets - 1 -> AllBuckets]
  /\ after[0] = bs
  /\ \A i \in 1 .. NumBuckets - 1 : after[i] = Coarsen(after[i - 1], i, now)

\* The loop runs to its end.
LEMMA LoopRuns ==
  ASSUME NEW bs \in AllBuckets, NEW now \in Nat
  PROVE  \E after : Loop(after, bs, now) /\ Shifted(bs, now) = after[NumBuckets - 1]
<1> DEFINE n == NumBuckets - 1
           F == [i \in 1 .. n |-> [b \in AllBuckets |-> Coarsen(b, i, now)]]
           Solves(g) == g = [i \in 0 .. n |-> IF i = 0 THEN bs ELSE Coarsen(g[i - 1], i, now)]
<1>1. n \in Nat
  BY AccountingAssumption
<1>2. F \in Bodies(n, AllBuckets)
  BY CoarsenBuckets DEF Bodies
<1>3. \E g : Solves(g)
  <2> HIDE DEF n, F
  <2>1. PICK g : Runs(g, n, AllBuckets, bs, F)
    BY <1>1, <1>2, Recursion
  <2>2. ASSUME NEW i \in 0 .. n PROVE g[i] = IF i = 0 THEN bs ELSE Coarsen(g[i - 1], i, now)
    <3>1. ASSUME i # 0 PROVE F[i][g[i - 1]] = Coarsen(g[i - 1], i, now)
      <4>1. i \in 1 .. n /\ g[i - 1] \in AllBuckets
        BY <1>1, <2>1, <3>1 DEF Runs
      <4>2. F[i] = [b \in AllBuckets |-> Coarsen(b, i, now)]
        BY <4>1 DEF F
      <4> QED
        BY <4>1, <4>2
    <3>2. g[i] = IF i = 0 THEN bs ELSE F[i][g[i - 1]]
      BY <1>1, <2>1 DEF Runs
    <3> QED
      BY <3>1, <3>2
  <2>3. Solves(g)
    BY <2>1, <2>2 DEF Runs
  <2> QED
    BY <2>3
<1> DEFINE after == CHOOSE g : Solves(g)
<1>4. Shifted(bs, now) = after[n]
  BY DEF Shifted
<1>5. Solves(after)
  <2> HIDE DEF Solves
  <2> QED
    BY <1>3
<1> HIDE DEF after
<1>6. after[0] = bs
  BY <1>1, <1>5
<1>7. \A i \in 1 .. n : after[i] = Coarsen(after[i - 1], i, now)
  BY <1>1, <1>5
<1>8. 0 .. n \subseteq {i \in 0 .. n : after[i] \in AllBuckets}
  <2> DEFINE S == {i \in 0 .. n : after[i] \in AllBuckets}
  <2>1. 0 \in S
    BY <1>1, <1>6
  <2>2. ASSUME NEW i \in 0 .. n - 1, i \in S PROVE i + 1 \in S
    <3>1. i + 1 \in 1 .. n /\ (i + 1) - 1 = i /\ after[i] \in AllBuckets
      BY <1>1, <2>2
    <3>2. after[i + 1] = Coarsen(after[i], i + 1, now)
      BY <1>7, <3>1
    <3>3. Coarsen(after[i], i + 1, now) \in AllBuckets
      BY <3>1, CoarsenBuckets
    <3> QED
      BY <3>1, <3>2, <3>3
  <2> HIDE DEF S, n
  <2>3. 0 .. n \subseteq S
    BY <1>1, <2>1, <2>2, UpTo
  <2> QED
    BY <2>3 DEF S
<1>9. after \in [0 .. n -> AllBuckets]
  BY <1>5, <1>8
<1>10. Loop(after, bs, now)
  BY <1>6, <1>7, <1>9 DEF Loop
<1> QED
  BY <1>4, <1>10

\* The loop leaves buckets.
LEMMA ShiftedBuckets ==
  ASSUME NEW bs \in AllBuckets, NEW now \in Nat
  PROVE  Shifted(bs, now) \in AllBuckets
<1>1. PICK after : Loop(after, bs, now) /\ Shifted(bs, now) = after[NumBuckets - 1]
  BY LoopRuns
<1>2. NumBuckets - 1 \in 0 .. NumBuckets - 1
  BY AccountingAssumption
<1> QED
  BY <1>1, <1>2 DEF Loop

\* What holds after iteration i, of the buckets b it leaves.
After(b, i, bs, now, lo, hi) ==
  /\ Layered(b, now, lo, hi)
  /\ i < NumBuckets - 1 => Ready(b, i + 1, now)
  /\ i > 0 => Elapsed(b, i + 1, now) <= time_span[i - 1]
  /\ b[1].last = bs[1].last
  /\ b[NumBuckets].count >= bs[NumBuckets].count

\* The whole loop keeps the buckets in range, however many of them shift, and
\* leaves the last one younger than the span of the one before it.
LEMMA ShiftedLayered ==
  ASSUME AInv, NEW now \in Nat, now < Word, NEW lo \in Nat, NEW hi \in Nat,
         NEW bs, Layered(bs, now, lo, hi), Ready(bs, 1, now)
  PROVE  After(Shifted(bs, now), NumBuckets - 1, bs, now, lo, hi)
<1> DEFINE n == NumBuckets - 1
<1>1. n \in Nat /\ n > 0 /\ NumBuckets \in Nat
  BY AccountingAssumption
<1>2. bs \in AllBuckets
  BY DEF Layered
<1>3. PICK after : Loop(after, bs, now) /\ Shifted(bs, now) = after[n]
  BY <1>2, LoopRuns
<1> DEFINE S == {i \in 0 .. n : After(after[i], i, bs, now, lo, hi)}
<1>4. 0 \in S
  <2>1. bs[NumBuckets].count \in Nat
    BY <1>2, BucketFields
  <2>2. After(bs, 0, bs, now, lo, hi)
    BY <1>1, <2>1 DEF After
  <2> QED
    BY <1>1, <1>3, <2>2 DEF Loop
<1>5. ASSUME NEW i \in 0 .. n - 1, i \in S PROVE i + 1 \in S
  <2>1. i + 1 \in 1 .. NumBuckets - 1 /\ (i + 1) - 1 = i /\ i \in 0 .. n /\ i < NumBuckets - 1
    BY <1>1
  <2>2. /\ after[i + 1] = Coarsen(after[i], i + 1, now)
        /\ after[i] \in AllBuckets /\ after[i + 1] \in AllBuckets
    BY <1>1, <1>3, <2>1 DEF Loop
  <2>3. After(after[i], i, bs, now, lo, hi)
    BY <1>5
  <2>4. Layered(after[i], now, lo, hi) /\ Ready(after[i], i + 1, now)
    BY <2>1, <2>3 DEF After
  <2> DEFINE c == after[i + 1]
  <2>5. /\ Layered(c, now, lo, hi)
        /\ Elapsed(c, (i + 1) + 1, now) <= time_span[(i + 1) - 1]
        /\ i + 1 < NumBuckets - 1 => Ready(c, (i + 1) + 1, now)
        /\ c[1].last = after[i][1].last
        /\ c[NumBuckets].count >= after[i][NumBuckets].count
    BY <2>1, <2>2, <2>4, LayeredStep
  <2>6. after[i][1].last = bs[1].last /\ after[i][NumBuckets].count >= bs[NumBuckets].count
    BY <2>3 DEF After
  <2>7. /\ c[NumBuckets].count \in Nat /\ after[i][NumBuckets].count \in Nat
        /\ bs[NumBuckets].count \in Nat
    BY <1>2, <2>2, BucketFields
  <2> HIDE DEF c
  <2>8. After(c, i + 1, bs, now, lo, hi)
    BY <2>5, <2>6, <2>7 DEF After
  <2> QED
    BY <1>1, <2>1, <2>8 DEF c
<1>6. n \in S
  <2> HIDE DEF S, n
  <2>1. 0 .. n \subseteq S
    BY <1>1, <1>4, <1>5, UpTo
  <2> QED
    BY <1>1, <2>1
<1> QED
  BY <1>3, <1>6

\* Forgetting the last bucket's data.
LEMMA DiscardBuckets ==
  ASSUME NEW bs \in AllBuckets, NEW now \in Nat
  PROVE  /\ Discard(bs, now) \in AllBuckets
         /\ \A j \in 1 .. NumBuckets - 1 : Discard(bs, now)[j] = bs[j]
         /\ Discard(bs, now)[NumBuckets].last = bs[NumBuckets].last
         /\ \/ Discard(bs, now)[NumBuckets] = bs[NumBuckets]
            \/ Discard(bs, now)[NumBuckets] = Emptied(bs[NumBuckets])
<1> DEFINE n == NumBuckets
           e == [bs EXCEPT ![n] = Emptied(bs[n])]
<1>1. n \in 1 .. n /\ n \notin 1 .. n - 1 /\ 1 .. n - 1 \subseteq 1 .. n
  BY AccountingAssumption
<1>2. Emptied(bs[n]) \in Bucket /\ Emptied(bs[n]).last = bs[n].last
  BY <1>1, BucketFields DEF Emptied, Bucket
<1>3. /\ e \in AllBuckets /\ e[n] = Emptied(bs[n])
      /\ \A j \in 1 .. n - 1 : e[j] = bs[j]
  BY <1>1, <1>2 DEF AllBuckets
<1>4. Discard(bs, now) \in {bs, e}
  BY DEF Discard
<1> HIDE DEF e
<1>5. CASE Discard(bs, now) = bs
  BY <1>5
<1>6. CASE Discard(bs, now) = e
  BY <1>2, <1>3, <1>6
<1> QED
  BY <1>4, <1>5, <1>6

\* Data in range stays so when the last bucket's is forgotten.
LEMMA DiscardLayered ==
  ASSUME NEW now \in Nat, NEW lo \in Nat, NEW hi \in Nat, NEW bs, Layered(bs, now, lo, hi)
  PROVE  Layered(Discard(bs, now), now, lo, hi) /\ Discard(bs, now)[1].last = bs[1].last
<1> DEFINE d == Discard(bs, now)
           n == NumBuckets
<1>1. n \in Nat /\ n > 1 /\ bs \in AllBuckets
  BY AccountingAssumption DEF Layered
<1>2. /\ d \in AllBuckets
      /\ \A j \in 1 .. n - 1 : d[j] = bs[j]
      /\ d[n].last = bs[n].last
      /\ d[n] = bs[n] \/ d[n] = Emptied(bs[n])
  BY <1>1, DiscardBuckets
<1> HIDE DEF d
<1>3. Fits(d[n], lo, hi)
  BY <1>1, <1>2 DEF Fits, Layered, Emptied
<1>4. \A j \in 1 .. n : d[j].last = bs[j].last
  <2> TAKE j \in 1 .. n
  <2>1. j = n \/ j \in 1 .. n - 1
    BY <1>1
  <2> QED
    BY <1>2, <2>1
<1>5. \A j \in 1 .. n : Fits(d[j], lo, hi) /\ d[j].last <= now
  <2> TAKE j \in 1 .. n
  <2>1. j = n \/ j \in 1 .. n - 1
    BY <1>1
  <2> QED
    BY <1>2, <1>3, <1>4, <2>1 DEF Layered
<1>6. \A j \in 1 .. n - 1 : d[j].count = 0 => d[j].last <= d[j + 1].last
  <2> TAKE j \in 1 .. n - 1
  <2>1. j \in 1 .. n /\ j + 1 \in 1 .. n
    BY <1>1
  <2> QED
    BY <1>2, <1>4, <2>1 DEF Layered
<1>7. 1 \in 1 .. n
  BY <1>1
<1> QED
  BY <1>2, <1>4, <1>5, <1>6, <1>7 DEF Layered, d

\* A bucket that fits a range fits a wider one.
LEMMA FitsWider ==
  ASSUME NEW b \in Bucket, NEW lo \in Nat, NEW hi \in Nat, Fits(b, lo, hi),
         NEW l \in Nat, NEW h \in Nat, l <= lo, hi <= h
  PROVE  Fits(b, l, h)
<1> DEFINE c == b.count
           s == b.sum
<1>1. c \in Nat /\ s \in Nat /\ c * lo <= s /\ s <= c * hi
  BY DEF Bucket, Fits
<1> HIDE DEF c, s
<1>2. c * l <= c * lo /\ c * l \in Nat /\ c * lo \in Nat
  BY <1>1, TimesMonotone
<1>3. c * hi <= c * h /\ c * hi \in Nat /\ c * h \in Nat
  BY <1>1, TimesMonotone
<1>4. c * l <= s /\ s <= c * h
  BY <1>1, <1>2, <1>3
<1> QED
  BY <1>4 DEF Fits, c, s

\* The duration d goes into bucket 1, into buckets that are in order: the range grows
\* by d and everything is still in it.
LEMMA AddedLayered ==
  ASSUME NEW bs \in AllBuckets, NEW before \in Nat, NEW now \in Nat, before <= now,
         NEW lo \in Nat, NEW hi \in Nat, Layered(bs, before, lo, hi),
         NEW l \in Nat, NEW h \in Nat, l <= lo, hi <= h, NEW d \in l .. h
  PROVE  /\ Layered(Added(bs, d, now), now, l, h)
         /\ Added(bs, d, now)[1].last = now /\ Added(bs, d, now)[1].count > 0
         /\ Added(bs, d, now)[NumBuckets] = bs[NumBuckets]
<1> DEFINE added == Added(bs, d, now)
           fed == [sum |-> bs[1].sum + d, count |-> bs[1].count + 1, last |-> now]
<1>1. NumBuckets \in Nat /\ 1 \in 1 .. NumBuckets
  BY AccountingAssumption
<1>2. bs[1] \in Bucket /\ bs[1].sum \in Nat /\ bs[1].count \in Nat /\ d \in Nat
  BY <1>1, BucketFields
<1>3. fed \in Bucket
  BY <1>2 DEF Bucket
<1>4. Fits(fed, l, h)
  BY <1>1, <1>2, FitsWider, FitsMore DEF Layered
<1>5. fed.last = now /\ fed.count > 0
  BY <1>2
<1> HIDE DEF fed
<1>6. added = [bs EXCEPT ![1] = fed]
  BY DEF Added, fed
<1> HIDE DEF added
<1>7. /\ added \in AllBuckets /\ added[1] = fed
      /\ \A j \in 2 .. NumBuckets : j \in 1 .. NumBuckets /\ added[j] = bs[j]
  BY <1>1, <1>3, <1>6 DEF AllBuckets
<1>8. \A j \in 1 .. NumBuckets : Fits(added[j], l, h) /\ added[j].last <= now
  <2> TAKE j \in 1 .. NumBuckets
  <2>1. CASE j = 1
    BY <1>4, <1>5, <1>7, <2>1
  <2>2. CASE j # 1
    <3>1. j \in 2 .. NumBuckets /\ added[j] = bs[j]
      BY <1>1, <1>7, <2>2
    <3>2. Fits(bs[j], lo, hi) /\ bs[j].last <= before /\ bs[j] \in Bucket /\ bs[j].last \in Nat
      BY BucketFields DEF Layered
    <3> QED
      BY <3>1, <3>2, FitsWider
  <2> QED
    BY <2>1, <2>2
<1>9. ASSUME NEW j \in 1 .. NumBuckets - 1, added[j].count = 0
      PROVE  added[j].last <= added[j + 1].last
  <2>1. j # 1
    BY <1>5, <1>7, <1>9
  <2>2. j \in 2 .. NumBuckets /\ j + 1 \in 2 .. NumBuckets
    BY <1>1, <2>1
  <2> QED
    BY <1>7, <1>9, <2>2 DEF Layered
<1>10. NumBuckets \in 2 .. NumBuckets
  BY AccountingAssumption
<1> QED
  BY <1>5, <1>7, <1>8, <1>9, <1>10 DEF Layered, added

\* One iteration of the loop keeps the cap, whether the bucket it shifts is empty
\* or not.
LEMMA CappedStep ==
  ASSUME NEW bs, NEW hi \in Nat, Capped(bs, hi), NEW i \in 1 .. NumBuckets - 1, NEW now \in Nat
  PROVE  Capped(Coarsen(bs, i, now), hi)
<1>1. i \in 1 .. NumBuckets /\ i + 1 \in 1 .. NumBuckets
  BY AccountingAssumption
<1>2. bs \in AllBuckets /\ \A j \in 1 .. NumBuckets : Fits(bs[j], 0, hi)
  BY DEF Capped
<1>3. CASE Coarsen(bs, i, now) = bs
  BY <1>3
<1>4. CASE Coarsen(bs, i, now) = Shift(bs, i, now)
  <2> DEFINE s == Shift(bs, i, now)
  <2>1. Moved(s, bs, i, now)
    BY <1>2, ShiftMoves
  <2> HIDE DEF s
  <2>2. /\ bs[i].sum \in Nat /\ bs[i].count \in Nat /\ bs[i + 1] \in Bucket
        /\ Fits(bs[i], 0, hi) /\ Fits(bs[i + 1], 0, hi)
    BY <1>1, <1>2, BucketFields
  <2>3. Average(bs[i]) \in 0 .. hi
    <3>1. bs[i].count * 0 <= bs[i].sum /\ bs[i].sum <= bs[i].count * hi
      BY <2>2 DEF Fits
    <3>2. ASSUME bs[i].count > 0 PROVE bs[i].sum \div bs[i].count \in 0 .. hi
      BY <2>2, <3>1, <3>2, AverageFits
    <3> QED
      BY <3>2 DEF Average
  <2>4. Fits(s[i + 1], 0, hi)
    BY <2>1, <2>2, <2>3, FitsMore DEF Moved
  <2>5. Fits(s[i], 0, hi)
    BY <2>1 DEF Fits, Moved, Emptied
  <2>6. ASSUME NEW j \in 1 .. NumBuckets PROVE Fits(s[j], 0, hi)
    BY <1>2, <2>1, <2>4, <2>5 DEF Moved
  <2> QED
    BY <1>4, <2>1, <2>6 DEF Capped, Moved, s
<1> QED
  BY <1>3, <1>4 DEF Coarsen

\* So does the whole loop.
LEMMA ShiftedCapped ==
  ASSUME NEW bs, NEW hi \in Nat, Capped(bs, hi), NEW now \in Nat
  PROVE  Capped(Shifted(bs, now), hi)
<1> DEFINE n == NumBuckets - 1
<1>1. n \in Nat /\ bs \in AllBuckets
  BY AccountingAssumption DEF Capped
<1>2. PICK after : Loop(after, bs, now) /\ Shifted(bs, now) = after[n]
  BY <1>1, LoopRuns
<1> DEFINE S == {i \in 0 .. n : Capped(after[i], hi)}
<1>3. 0 \in S
  BY <1>1, <1>2 DEF Loop
<1>4. ASSUME NEW i \in 0 .. n - 1, i \in S PROVE i + 1 \in S
  <2>1. i + 1 \in 1 .. NumBuckets - 1 /\ (i + 1) - 1 = i /\ i + 1 \in 0 .. n
    BY <1>1
  <2>2. after[i + 1] = Coarsen(after[i], i + 1, now) /\ Capped(after[i], hi)
    BY <1>2, <1>4, <2>1 DEF Loop
  <2>3. Capped(Coarsen(after[i], i + 1, now), hi)
    BY <2>1, <2>2, CappedStep
  <2> QED
    BY <2>1, <2>2, <2>3
<1>5. n \in S
  <2> HIDE DEF S, n
  <2>1. 0 .. n \subseteq S
    BY <1>1, <1>3, <1>4, UpTo
  <2> QED
    BY <1>1, <2>1
<1> QED
  BY <1>2, <1>5

\* Forgetting the last bucket's data keeps the cap.
LEMMA DiscardCapped ==
  ASSUME NEW bs, NEW hi \in Nat, Capped(bs, hi), NEW now \in Nat
  PROVE  Capped(Discard(bs, now), hi)
<1> DEFINE d == Discard(bs, now)
           n == NumBuckets
<1>1. n \in Nat /\ n > 1 /\ bs \in AllBuckets /\ \A j \in 1 .. n : Fits(bs[j], 0, hi)
  BY AccountingAssumption DEF Capped
<1>2. /\ d \in AllBuckets
      /\ \A j \in 1 .. n - 1 : d[j] = bs[j]
      /\ d[n] = bs[n] \/ d[n] = Emptied(bs[n])
  BY <1>1, DiscardBuckets
<1> HIDE DEF d
<1>3. Fits(d[n], 0, hi)
  BY <1>1, <1>2 DEF Fits, Emptied
<1>4. ASSUME NEW j \in 1 .. n PROVE Fits(d[j], 0, hi)
  <2>1. j = n \/ j \in 1 .. n - 1
    BY <1>1
  <2> QED
    BY <1>1, <1>2, <1>3, <2>1
<1> QED
  BY <1>2, <1>4 DEF Capped, d

\* A duration d put in raises the cap to d at most.
LEMMA AddedCapped ==
  ASSUME NEW bs, NEW hi \in Nat, Capped(bs, hi), NEW h \in Nat, hi <= h,
         NEW d \in 0 .. h, NEW now \in Nat
  PROVE  Capped(Added(bs, d, now), h)
<1> DEFINE added == Added(bs, d, now)
           fed == [sum |-> bs[1].sum + d, count |-> bs[1].count + 1, last |-> now]
<1>1. 1 \in 1 .. NumBuckets /\ bs \in AllBuckets
  BY AccountingAssumption DEF Capped
<1>2. \A j \in 1 .. NumBuckets : bs[j] \in Bucket /\ Fits(bs[j], 0, h)
  BY <1>1, BucketFields, FitsWider DEF Capped
<1>3. fed \in Bucket
  BY <1>1, BucketFields DEF Bucket
<1>4. Fits(fed, 0, h)
  BY <1>1, <1>2, FitsMore
<1> HIDE DEF fed
<1>5. added = [bs EXCEPT ![1] = fed]
  BY DEF Added, fed
<1> HIDE DEF added
<1>6. added \in AllBuckets /\ added[1] = fed /\ \A j \in 1 .. NumBuckets : j # 1 => added[j] = bs[j]
  BY <1>1, <1>3, <1>5 DEF AllBuckets
<1>7. \A j \in 1 .. NumBuckets : Fits(added[j], 0, h)
  BY <1>2, <1>4, <1>6
<1> QED
  BY <1>6, <1>7 DEF Capped, added

\* No bucket holds anything before the first operation is put in.
LEMMA BucketStarts == AcctInit => BucketInv
<1> SUFFICES ASSUME AcctInit
             PROVE  BucketInv
  OBVIOUS
<1>1. NumBuckets \in Nat /\ 1 \in 1 .. NumBuckets
  BY AccountingAssumption
<1>2. /\ buckets \in AllBuckets
      /\ \A j \in 1 .. NumBuckets : buckets[j] = [sum |-> 0, count |-> 0, last |-> 0]
  BY DEF AcctInit, AllBuckets, Bucket
<1>3. clock = 1 /\ range = <<>> /\ clock <= MaxClock
  BY AccountingAssumption DEF AcctInit
<1>4. \A t \in Threads : th[t].end = 0 /\ th[t].duration = 0
  BY DEF AcctInit
<1>5. BucketShape
  BY <1>2, <1>3, <1>4 DEF BucketShape
<1> QED
  BY <1>1, <1>2, <1>3, <1>5 DEF BucketInv

\* A thread that returns from end_operation has no end and no duration any more.
LEMMA RestClears ==
  ASSUME Shape, NEW t \in Threads, Rest(t)
  PROVE  th'[t].end = 0 /\ th'[t].duration = 0 /\ \A u \in Threads \ {t} : th'[u] = th[u]
<1> DEFINE a == [th EXCEPT ![t].at = "idle"]
           e == [a EXCEPT ![t].end = 0]
           d == [e EXCEPT ![t].duration = 0]
           Threaded == [Threads -> [at : Steps, end : Int, duration : Int, ops : Int]]
<1>1. a \in Threaded /\ \A u \in Threads \ {t} : a[u] = th[u]
  BY DEF Shape, Steps
<1> HIDE DEF a
<1>2. e \in Threaded /\ e[t].end = 0 /\ \A u \in Threads \ {t} : e[u] = th[u]
  BY <1>1
<1> HIDE DEF e
<1>3. d[t].end = 0 /\ d[t].duration = 0 /\ \A u \in Threads \ {t} : d[u] = th[u]
  BY <1>2
<1>4. th' = d
  BY DEF Rest, e, a
<1> QED
  BY <1>3, <1>4

\* A step that touches no bucket keeps them, if the ends of the threads stay behind
\* the clock.
LEMMA BucketsSame ==
  ASSUME BucketInv, UNCHANGED <<buckets, stale, range>>,
         clock' \in Nat, clock <= clock', clock' <= MaxClock,
         \A t \in Threads : th'[t].end \in 0 .. clock' /\ th'[t].duration \in Nat
  PROVE  BucketInv'
<1>1. buckets[1].last \in Nat /\ clock \in Nat
  BY BucketFields DEF BucketInv, BucketShape
<1>2. BucketShape'
  BY DEF BucketInv, BucketShape
<1>3. ~stale' => buckets'[1].last <= clock'
  BY <1>1 DEF BucketInv
<1> QED
  BY <1>2, <1>3 DEF BucketInv, Layered, Capped

\* An update keeps the buckets in order if it comes in the order of the time
\* stamps, and it then finds the last bucket younger than the span of the one
\* before, so that it forgets nothing when max_history is at least that.
LEMMA UpdateKeeps ==
  ASSUME AInv, BucketInv, NEW t \in Threads, UpdateBuckets(t)
  PROVE  /\ BucketInv'
         /\ ~stale' /\ time_span[NumBuckets - 2] <= MaxHistory /\ MaxHistory \in Nat
              => buckets'[NumBuckets].count >= buckets[NumBuckets].count
<1> DEFINE now == th[t].end
           d == th[t].duration
           added == Added(buckets, d, now)
           shifted == Shifted(added, now)
           n == NumBuckets
<1>1. /\ buckets' = Discard(shifted, now)
      /\ range' = IF range = <<>> THEN <<d, d>>
                  ELSE <<IF d < range[1] THEN d ELSE range[1],
                         IF d > range[2] THEN d ELSE range[2]>>
      /\ stale' = (stale \/ now < buckets[1].last)
      /\ Rest(t) /\ clock' = clock
  BY DEF UpdateBuckets
<1>2. /\ buckets \in AllBuckets /\ now \in Nat /\ now <= clock /\ d \in Nat
      /\ clock \in Nat /\ clock <= MaxClock /\ now < Word
      /\ range = <<>> \/ range \in Nat \X Nat
  BY AccountingAssumption DEF BucketInv, BucketShape
<1>3. n \in Nat /\ n > 1 /\ 1 \in 1 .. n /\ n \in 1 .. n
  BY AccountingAssumption
<1>4. added \in AllBuckets
  <2>1. buckets[1].sum \in Nat /\ buckets[1].count \in Nat
    BY <1>2, <1>3, BucketFields
  <2>2. [sum |-> buckets[1].sum + d, count |-> buckets[1].count + 1, last |-> now] \in Bucket
    BY <1>2, <2>1 DEF Bucket
  <2>3. added = [buckets EXCEPT ![1] = [sum |-> buckets[1].sum + d,
                                        count |-> buckets[1].count + 1, last |-> now]]
    BY DEF Added
  <2> QED
    BY <1>2, <2>2, <2>3 DEF AllBuckets
<1>5. shifted \in AllBuckets
  BY <1>2, <1>4, ShiftedBuckets
<1>6. buckets' \in AllBuckets
  BY <1>1, <1>2, <1>5, DiscardBuckets
<1>7. range' \in Nat \X Nat /\ range' # <<>>
  BY <1>1, <1>2
<1>8. BucketShape'
  <2>1. \A u \in Threads : th'[u].end \in 0 .. clock' /\ th'[u].duration \in Nat
    <3>1. th'[t].end = 0 /\ th'[t].duration = 0 /\ \A u \in Threads \ {t} : th'[u] = th[u]
      BY <1>1, RestClears DEF AInv
    <3> QED
      BY <1>1, <1>2, <3>1 DEF BucketInv, BucketShape
  <2> QED
    BY <1>1, <1>2, <1>6, <1>7, <2>1 DEF BucketShape
<1>9. ASSUME ~stale'
      PROVE  /\ Layered(buckets', buckets'[1].last, range'[1], range'[2])
             /\ buckets'[1].last <= clock'
             /\ time_span[n - 2] <= MaxHistory /\ MaxHistory \in Nat
                  => buckets'[n].count >= buckets[n].count
  <2> DEFINE l == range'[1]
             h == range'[2]
  <2>1. ~stale /\ buckets[1].last <= now /\ buckets[1].last \in Nat
    <3>1. ~(stale \/ now < buckets[1].last)
      BY <1>1, <1>9
    <3>2. buckets[1].last \in Nat
      BY <1>2, BucketFields
    <3> QED
      BY <1>2, <3>1, <3>2
  <2>2. l \in Nat /\ h \in Nat /\ d \in l .. h
    BY <1>1, <1>2
  <2>3. /\ Layered(added, now, l, h) /\ added[1].last = now /\ added[1].count > 0
        /\ added[n] = buckets[n]
    <3>1. CASE range = <<>>
      <4>1. \A j \in 1 .. n : buckets[j] = [sum |-> 0, count |-> 0, last |-> 0]
        BY <3>1 DEF BucketInv
      <4>2. Layered(buckets, buckets[1].last, d, d)
        BY <1>2, <1>3, <4>1 DEF Layered, Fits
      <4>3. l = d /\ h = d
        BY <1>1, <3>1
      <4> HIDE DEF l, h
      <4> QED
        BY <1>2, <2>1, <2>2, <4>2, <4>3, AddedLayered, SMTT(30)
    <3>2. CASE range # <<>>
      <4> DEFINE lo == range[1]
                 hi == range[2]
      <4>1. Layered(buckets, buckets[1].last, lo, hi)
        BY <2>1, <3>2 DEF BucketInv
      <4>2. lo \in Nat /\ hi \in Nat /\ l <= lo /\ hi <= h
        BY <1>1, <1>2, <3>2
      <4>3. buckets \in AllBuckets /\ now \in Nat
        BY <1>2
      <4> DEFINE before == buckets[1].last
      <4>4. before \in Nat /\ before <= now /\ Layered(buckets, before, lo, hi)
        BY <2>1, <4>1
      <4> HIDE DEF l, h, lo, hi, now, d, before
      <4>5. /\ Layered(Added(buckets, d, now), now, l, h)
            /\ Added(buckets, d, now)[1].last = now /\ Added(buckets, d, now)[1].count > 0
            /\ Added(buckets, d, now)[NumBuckets] = buckets[NumBuckets]
        BY <2>2, <4>2, <4>3, <4>4, AddedLayered, SMTT(30)
      <4> QED
        BY <4>5
    <3> QED
      BY <3>1, <3>2
  <2> HIDE DEF l, h, added
  <2>4. Ready(added, 1, now)
    BY <2>3 DEF Ready
  <2>5. After(shifted, n - 1, added, now, l, h)
    BY <1>2, <2>2, <2>3, <2>4, ShiftedLayered
  <2> HIDE DEF shifted
  <2>6. Layered(shifted, now, l, h) /\ shifted[1].last = now
    BY <2>3, <2>5 DEF After
  <2>7. Layered(buckets', now, l, h) /\ buckets'[1].last = now
    BY <1>1, <1>2, <2>2, <2>6, DiscardLayered
  <2>8. ASSUME time_span[n - 2] <= MaxHistory, MaxHistory \in Nat
        PROVE  buckets'[n].count >= buckets[n].count
    <3>1. Elapsed(shifted, n, now) <= time_span[n - 2] /\ shifted[n].count >= buckets[n].count
      <4>1. (n - 1) + 1 = n /\ (n - 1) - 1 = n - 2 /\ n - 1 > 0
        BY <1>3
      <4> QED
        BY <2>3, <2>5, <4>1 DEF After
    <3>2. time_span[n - 2] \in Nat
      BY <1>3, SpansGrow
    <3>3. Elapsed(shifted, n, now) \in Nat
      <4>1. shifted[n].last \in Nat /\ shifted[n].last <= now
        BY <1>3, <1>5, <2>6, BucketFields DEF Layered, shifted
      <4> QED
        BY <1>2, <4>1, ElapsedOrder DEF Elapsed
    <3>4. ~(Elapsed(shifted, n, now) > MaxHistory)
      BY <2>8, <3>1, <3>2, <3>3
    <3>5. buckets' = shifted
      BY <1>1, <3>4 DEF Discard
    <3> QED
      BY <3>1, <3>5
  <2> QED
    BY <1>1, <1>2, <2>7, <2>8 DEF l, h
<1>10. Capped(buckets', range'[2])
  <2> DEFINE h == range'[2]
  <2>1. h \in Nat /\ d \in 0 .. h
    BY <1>1, <1>2
  <2>2. Capped(added, h)
    <3>1. CASE range = <<>>
      <4>1. \A j \in 1 .. n : buckets[j] = [sum |-> 0, count |-> 0, last |-> 0]
        BY <3>1 DEF BucketInv
      <4>2. Capped(buckets, h)
        BY <1>2, <2>1, <4>1 DEF Capped, Fits
      <4> HIDE DEF h
      <4> QED
        BY <1>2, <2>1, <4>2, AddedCapped
    <3>2. CASE range # <<>>
      <4> DEFINE hi == range[2]
      <4>1. Capped(buckets, hi)
        BY <3>2 DEF BucketInv
      <4>2. hi \in Nat /\ hi <= h
        BY <1>1, <1>2, <3>2
      <4> HIDE DEF h, hi
      <4> QED
        BY <1>2, <2>1, <4>1, <4>2, AddedCapped
    <3> QED
      BY <3>1, <3>2
  <2> HIDE DEF h, added
  <2>3. Capped(shifted, h)
    BY <1>2, <2>1, <2>2, ShiftedCapped
  <2> HIDE DEF shifted
  <2> QED
    BY <1>1, <1>2, <2>1, <2>3, DiscardCapped DEF h
<1> QED
  BY <1>7, <1>8, <1>9, <1>10 DEF BucketInv

\* Every step keeps the buckets in order.
LEMMA BucketSteps == AInv /\ BucketInv /\ [AcctNext]_avars => BucketInv'
<1> SUFFICES ASSUME AInv, BucketInv, [AcctNext]_avars
             PROVE  BucketInv'
  OBVIOUS
<1>1. /\ th \in [Threads -> [at : Steps, end : Int, duration : Int, ops : Int]]
      /\ clock \in Nat /\ clock <= MaxClock /\ MaxClock \in Nat
      /\ \A t \in Threads : th[t].end \in 0 .. clock /\ th[t].duration \in Nat
  BY AccountingAssumption DEF AInv, Shape, BucketInv, BucketShape
<1>2. CASE Tick
  BY <1>1, <1>2, BucketsSame DEF Tick, ahist
<1>3. ASSUME NEW t \in Threads, ThreadStep(t)
      PROVE  BucketInv'
  <2>1. CASE Initialize(t) \/ StoreRate(t) \/ StoreFlag(t) \/ StartOperation(t) \/ IsDue(t)
    <3>1. /\ \E l \in Steps : Goto(t, l)
          /\ UNCHANGED <<clock, buckets, stale, range>>
      BY <2>1 DEF Initialize, StoreRate, StoreFlag, StartOperation, IsDue, ahist, Steps
    <3>2. \A u \in Threads : th'[u].end = th[u].end /\ th'[u].duration = th[u].duration
      BY <1>1, <3>1 DEF Goto
    <3> QED
      BY <1>1, <3>1, <3>2, BucketsSame
  <2>2. CASE ReadEnd(t)
    <3>1. UNCHANGED <<clock, buckets, stale, range>>
      BY <2>2 DEF ReadEnd, ahist
    <3>2. \A u \in Threads : th'[u].end \in {th[u].end, clock} /\ th'[u].duration = th[u].duration
      BY <1>1, <2>2 DEF ReadEnd
    <3> QED
      BY <1>1, <3>1, <3>2, BucketsSame
  <2>3. CASE StoreLatency(t)
    <3> DEFINE duration == cycles_to_ns(Minus(th[t].end, op_start))
    <3>1. UNCHANGED <<clock, buckets, stale, range>>
      BY <2>3 DEF StoreLatency, ahist
    <3>2. duration \in Nat
      <4>1. Minus(th[t].end, op_start) \in Nat
        BY <1>1, AccountingAssumption DEF Minus, AInv, Shape
      <4> QED
        BY <4>1, AccountingAssumption DEF cycles_to_ns, AInv, CalInv
    <3>3. th' = [th EXCEPT ![t].at = "count", ![t].duration = duration]
      BY <2>3 DEF StoreLatency
    <3> HIDE DEF duration
    <3>4. \A u \in Threads : /\ th'[u].end = th[u].end
                             /\ th'[u].duration \in {th[u].duration, duration}
      BY <1>1, <3>3
    <3> QED
      BY <1>1, <3>1, <3>2, <3>4, BucketsSame
  <2>4. CASE CountOperation(t)
    <3>1. UNCHANGED <<clock, buckets, stale, range>>
      BY <2>4 DEF CountOperation, ahist
    <3>2. \A u \in Threads : th'[u].end = th[u].end /\ th'[u].duration = th[u].duration
      BY <1>1, <2>4 DEF CountOperation
    <3> QED
      BY <1>1, <3>1, <3>2, BucketsSame
  <2>5. CASE NotDue(t)
    <3>1. Rest(t) /\ UNCHANGED <<clock, buckets, stale, range>>
      BY <2>5 DEF NotDue, ahist
    <3>2. th'[t].end = 0 /\ th'[t].duration = 0 /\ \A u \in Threads \ {t} : th'[u] = th[u]
      BY <3>1, RestClears DEF AInv
    <3>3. \A u \in Threads : /\ th'[u].end \in {th[u].end, 0}
                             /\ th'[u].duration \in {th[u].duration, 0}
      BY <3>2
    <3> QED
      BY <1>1, <3>1, <3>3, BucketsSame
  <2>6. CASE UpdateBuckets(t)
    BY <2>6, UpdateKeeps
  <2> QED
    BY <1>3, <2>1, <2>2, <2>3, <2>4, <2>5, <2>6 DEF ThreadStep
<1>4. CASE UNCHANGED avars
  BY <1>1, <1>4, BucketsSame DEF avars, ahist
<1> QED
  BY <1>2, <1>3, <1>4 DEF AcctNext

Total == [sum : Nat, count : Nat]

\* The loop of calculateAverageLatency after its iterations 1 .. i.
Totals(total, n) ==
  /\ total \in [0 .. n -> Total]
  /\ total[0] = [sum |-> 0, count |-> 0]
  /\ \A i \in 1 .. n : total[i] = [sum |-> total[i - 1].sum + buckets[i].sum,
                                  count |-> total[i - 1].count + buckets[i].count]

\* The loop runs to its end.
LEMMA TotalsRun ==
  ASSUME buckets \in AllBuckets, NEW n \in 1 .. NumBuckets
  PROVE  \E total : Totals(total, n) /\ AverageLatency(n) = Average(total[n])
<1> DEFINE none == [sum |-> 0, count |-> 0]
           Plus(s, i) == [sum |-> s.sum + buckets[i].sum, count |-> s.count + buckets[i].count]
           F == [i \in 1 .. n |-> [s \in Total |-> Plus(s, i)]]
           Solves(g) == g = [i \in 0 .. n |-> IF i = 0 THEN none ELSE Plus(g[i - 1], i)]
<1>1. n \in Nat /\ NumBuckets \in Nat /\ none \in Total
  BY AccountingAssumption DEF Total
<1>2. ASSUME NEW i \in 1 .. n, NEW s \in Total PROVE Plus(s, i) \in Total
  <2>1. buckets[i].sum \in Nat /\ buckets[i].count \in Nat
    BY <1>1, BucketFields
  <2> QED
    BY <2>1 DEF Total
<1> DEFINE after == CHOOSE g : Solves(g)
<1>3. AverageLatency(n) = Average(after[n])
  BY DEF AverageLatency
<1> HIDE DEF Plus, none
<1>4. F \in Bodies(n, Total)
  BY <1>2 DEF Bodies
<1>5. \E g : Solves(g)
  <2> HIDE DEF F
  <2>1. PICK g : Runs(g, n, Total, none, F)
    BY <1>1, <1>4, Recursion
  <2>2. ASSUME NEW i \in 0 .. n PROVE g[i] = IF i = 0 THEN none ELSE Plus(g[i - 1], i)
    <3>1. ASSUME i # 0 PROVE F[i][g[i - 1]] = Plus(g[i - 1], i)
      <4>1. i \in 1 .. n /\ g[i - 1] \in Total
        BY <1>1, <2>1, <3>1 DEF Runs
      <4>2. F[i] = [s \in Total |-> Plus(s, i)]
        BY <4>1 DEF F
      <4> QED
        BY <4>1, <4>2
    <3>2. g[i] = IF i = 0 THEN none ELSE F[i][g[i - 1]]
      BY <1>1, <2>1 DEF Runs
    <3> QED
      BY <3>1, <3>2
  <2>3. Solves(g)
    BY <2>1, <2>2 DEF Runs
  <2> QED
    BY <2>3
<1>6. Solves(after)
  <2> HIDE DEF Solves
  <2> QED
    BY <1>5
<1> HIDE DEF after
<1>7. after[0] = none /\ \A i \in 1 .. n : after[i] = Plus(after[i - 1], i)
  BY <1>1, <1>6
<1>8. 0 .. n \subseteq {i \in 0 .. n : after[i] \in Total}
  <2> DEFINE S == {i \in 0 .. n : after[i] \in Total}
  <2>1. 0 \in S
    BY <1>1, <1>7
  <2>2. ASSUME NEW i \in 0 .. n - 1, i \in S PROVE i + 1 \in S
    <3>1. i + 1 \in 1 .. n /\ (i + 1) - 1 = i /\ after[i] \in Total
      BY <1>1, <2>2
    <3>2. after[i + 1] = Plus(after[i], i + 1)
      BY <1>7, <3>1
    <3> QED
      BY <1>1, <1>2, <3>1, <3>2
  <2> HIDE DEF S
  <2>3. 0 .. n \subseteq S
    BY <1>1, <2>1, <2>2, UpTo
  <2> QED
    BY <2>3 DEF S
<1>9. after \in [0 .. n -> Total]
  BY <1>6, <1>8
<1>10. Totals(after, n)
  BY <1>7, <1>9 DEF Totals, Plus, none
<1> QED
  BY <1>3, <1>10

\* Two amounts that each fit the range fit it together.
LEMMA FitsTogether ==
  ASSUME NEW c \in Nat, NEW s \in Nat, NEW d \in Nat, NEW r \in Nat, NEW lo \in Nat, NEW hi \in Nat,
         c * lo <= s, s <= c * hi, d * lo <= r, r <= d * hi
  PROVE  (c + d) * lo <= s + r /\ s + r <= (c + d) * hi
<1>1. (c + d) * lo = c * lo + d * lo /\ (c + d) * hi = c * hi + d * hi
  OBVIOUS
<1>2. c * lo \in Nat /\ d * lo \in Nat /\ c * hi \in Nat /\ d * hi \in Nat
  OBVIOUS
<1> QED
  BY <1>1, <1>2

\* In buckets that all fit a range, any prefix that is not empty averages in it.
LEMMA PrefixInRange ==
  ASSUME BucketInv, NEW lo \in Nat, NEW hi \in Nat,
         \A j \in 1 .. NumBuckets : Fits(buckets[j], lo, hi),
         NEW n \in 1 .. NumBuckets, NEW k \in 1 .. n, buckets[k].count > 0
  PROVE  AverageLatency(n) \in lo .. hi
<1>1. buckets \in AllBuckets /\ n \in Nat /\ NumBuckets \in Nat
  BY AccountingAssumption DEF BucketInv, BucketShape
<1>2. PICK total : Totals(total, n) /\ AverageLatency(n) = Average(total[n])
  BY <1>1, TotalsRun
<1>3. \A i \in 0 .. n : total[i].sum \in Nat /\ total[i].count \in Nat
  BY <1>2 DEF Totals, Total
<1>4. \A j \in 1 .. n : /\ buckets[j].sum \in Nat /\ buckets[j].count \in Nat
                        /\ Fits(buckets[j], lo, hi)
  BY <1>1, BucketFields
<1> DEFINE Good(i) == /\ Fits(total[i], lo, hi)
                      /\ \A j \in 1 .. i : buckets[j].count <= total[i].count
           S == {i \in 0 .. n : Good(i)}
<1>5. 0 \in S
  <2>1. total[0].sum = 0 /\ total[0].count = 0
    BY <1>2 DEF Totals
  <2>2. Good(0)
    BY <2>1 DEF Fits
  <2> QED
    BY <1>1, <2>2
<1>6. ASSUME NEW i \in 0 .. n - 1, i \in S PROVE i + 1 \in S
  <2>1. i + 1 \in 1 .. n /\ (i + 1) - 1 = i /\ i \in 0 .. n /\ i + 1 \in 0 .. n
    BY <1>1
  <2>2. /\ total[i + 1].sum = total[i].sum + buckets[i + 1].sum
        /\ total[i + 1].count = total[i].count + buckets[i + 1].count
    <3>1. total[i + 1] = [sum |-> total[(i + 1) - 1].sum + buckets[i + 1].sum,
                          count |-> total[(i + 1) - 1].count + buckets[i + 1].count]
      BY <1>2, <2>1 DEF Totals
    <3> QED
      BY <2>1, <3>1
  <2>3. Fits(total[i], lo, hi) /\ Fits(buckets[i + 1], lo, hi)
    BY <1>4, <1>6, <2>1
  <2>4. Fits(total[i + 1], lo, hi)
    BY <1>3, <1>4, <2>1, <2>2, <2>3, FitsTogether DEF Fits
  <2>5. ASSUME NEW j \in 1 .. i + 1 PROVE buckets[j].count <= total[i + 1].count
    <3>1. j = i + 1 \/ j \in 1 .. i
      OBVIOUS
    <3>2. j \in 1 .. i => buckets[j].count <= total[i].count
      BY <1>6
    <3>3. buckets[j].count \in Nat /\ total[i].count \in Nat /\ buckets[i + 1].count \in Nat
      BY <1>1, <1>3, <1>4, <2>1
    <3> QED
      BY <2>2, <3>1, <3>2, <3>3
  <2> QED
    BY <2>1, <2>4, <2>5
<1>7. Good(n)
  <2> HIDE DEF S
  <2>1. 0 .. n \subseteq S
    BY <1>1, <1>5, <1>6, UpTo
  <2> QED
    BY <1>1, <2>1 DEF S
<1>8. total[n].count > 0 /\ total[n].sum \in Nat /\ total[n].count \in Nat
  BY <1>1, <1>3, <1>4, <1>7
<1>9. total[n].sum \div total[n].count \in lo .. hi
  BY <1>7, <1>8, AverageFits DEF Fits
<1> QED
  BY <1>2, <1>8, <1>9 DEF Average

\* No average that getMetrics reports is above the greatest duration put into the
\* buckets, in whatever order the updates reach the mutex, and none is below the
\* least one as long as they come in the order of their time stamps: for any
\* number of buckets and threads, any spans and any history, whichever buckets
\* were shifted in whichever updates.
THEOREM AveragesStayInRange == AcctSpec => []AveragesInRange
<1>1. BucketInv => AveragesInRange
  <2> SUFFICES ASSUME BucketInv, NEW n \in 1 .. NumBuckets,
                      NEW k \in 1 .. n, buckets[k].count > 0
               PROVE  /\ AverageLatency(n) <= range[2]
                      /\ ~stale => AverageLatency(n) >= range[1]
    BY DEF AveragesInRange
  <2>1. k \in 1 .. NumBuckets
    BY AccountingAssumption
  <2>2. range # <<>>
    BY <2>1 DEF BucketInv
  <2> DEFINE lo == range[1]
             hi == range[2]
  <2>3. lo \in Nat /\ hi \in Nat
    BY <2>2 DEF BucketInv, BucketShape
  <2>4. \A j \in 1 .. NumBuckets : Fits(buckets[j], 0, hi)
    BY <2>2 DEF BucketInv, Capped
  <2>5. ~stale => \A j \in 1 .. NumBuckets : Fits(buckets[j], lo, hi)
    BY <2>2 DEF BucketInv, Layered
  <2> HIDE DEF lo, hi
  <2>6. AverageLatency(n) \in 0 .. hi
    BY <2>3, <2>4, PrefixInRange
  <2>7. ~stale => AverageLatency(n) \in lo .. hi
    BY <2>3, <2>5, PrefixInRange
  <2> QED
    BY <2>3, <2>6, <2>7 DEF lo, hi
<1> QED
  BY <1>1, AccountingStarts, AccountingSteps, BucketStarts, BucketSteps, PTL DEF AcctSpec

\* max_history is not what bounds the last bucket: with a history of at least the
\* span of the bucket before it (as in the default configuration), no update that
\* comes in order ever discards what the last bucket holds.
THEOREM HistoryIsNeverDiscarded ==
  ASSUME MaxHistory \in Nat, time_span[NumBuckets - 2] <= MaxHistory
  PROVE  AcctSpec => [][~stale' => buckets'[NumBuckets].count >= buckets[NumBuckets].count]_avars
<1> DEFINE Kept == ~stale' => buckets'[NumBuckets].count >= buckets[NumBuckets].count
<1>1. AInv /\ BucketInv /\ [AcctNext]_avars => [Kept]_avars
  <2> SUFFICES ASSUME AInv, BucketInv, AcctNext
               PROVE  Kept
    OBVIOUS
  <2>1. buckets[NumBuckets].count \in Nat
    BY BucketFields DEF BucketInv, BucketShape
  <2>2. ASSUME UNCHANGED buckets PROVE Kept
    BY <2>1, <2>2
  <2>3. ASSUME NEW t \in Threads, UpdateBuckets(t) PROVE Kept
    BY <2>3, UpdateKeeps
  <2>4. (\E t \in Threads : UpdateBuckets(t)) \/ UNCHANGED buckets
    BY DEF AcctNext, Tick, ThreadStep, Initialize, StoreRate, StoreFlag, StartOperation,
           ReadEnd, StoreLatency, CountOperation, NotDue, IsDue
  <2> QED
    BY <2>2, <2>3, <2>4
<1> QED
  BY <1>1, AccountingStarts, AccountingSteps, BucketStarts, BucketSteps, PTL DEF AcctSpec
=============================================================================
