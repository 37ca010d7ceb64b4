----------------------------- MODULE Accounting -----------------------------
(***************************************************************************)
(* tsc_time: the one-time calibration of cycle_counter.hpp, and the        *)
(* operation timing and coarsening buckets of accounting.hpp, used by      *)
(* several threads of one process that share one PerformanceAccounting.    *)
(*                                                                         *)
(* Cycle counts are unsigned and wrap at Word (2^64 in the code).  Sums    *)
(* and averages are doubles in the code and whole numbers here, rounded    *)
(* down.  The bucket mutex is held for the whole of update_buckets, so an  *)
(* update is one step.                                                     *)
(***************************************************************************)
EXTENDS Integers, FiniteSets

CONSTANTS
  Threads,
  Rate,        \* cycles per nanosecond that a calibration measures
  Word,        \* number of values of a cycle count
  Period,      \* operations between two updates (100 in the code)
  NumBuckets,  \* config.num_buckets
  Base,        \* config.base_resolution
  Factor,      \* config.coarsening_factor
  MaxHistory,  \* config.max_history
  MaxClock,    \* bound: cycles in a behaviour
  MaxOps       \* bound: operations per thread

ASSUME AccountingAssumption ==
  /\ {Rate, Period, Factor} \subseteq Nat \ {0} /\ Base \in Nat
  /\ NumBuckets \in Nat /\ NumBuckets > 1
  /\ Word \in Nat /\ MaxClock \in Nat \ {0} /\ MaxClock < Word
  /\ IsFiniteSet(Threads)

VARIABLES
  clock,         \* the time stamp counter
  initialized,   \* the static flag of initialize
  is_calibrated,
  cycles_per_ns,
  op_start,
  current_latency,
  operation_count,
  buckets,
  th,            \* each thread: step, its locals end and duration, operations
  calibrations,  \* history: rates stored by calibrate
  updates,       \* history: calls of update_buckets
  stale,         \* history: an update came with an older time than the one before
  range          \* history: least and greatest duration put into a bucket

calib == <<initialized, is_calibrated, cycles_per_ns>>
ahist == <<calibrations, updates, stale, range>>
avars == <<clock, calib, op_start, current_latency, operation_count, buckets, th, ahist>>

AcctInit ==
  /\ clock = 1
  /\ initialized = FALSE /\ is_calibrated = FALSE /\ cycles_per_ns = 0
  /\ op_start = 0 /\ current_latency = 0 /\ operation_count = 0
  /\ buckets = [i \in 1 .. NumBuckets |-> [sum |-> 0, count |-> 0, last |-> 0]]
  /\ th = [t \in Threads |-> [at |-> "construct", end |-> 0, duration |-> 0, ops |-> 0]]
  /\ calibrations = 0 /\ updates = 0 /\ stale = FALSE /\ range = <<>>

Goto(t, step) == th' = [th EXCEPT ![t].at = step]

\* end_operation returns
Rest(t) == th' = [th EXCEPT ![t].at = "idle", ![t].end = 0, ![t].duration = 0]

Minus(x, y) == (x - y) % Word

Tick ==
  /\ clock < MaxClock
  /\ clock' = clock + 1
  /\ UNCHANGED <<calib, op_start, current_latency, operation_count, buckets, th, ahist>>

-----------------------------------------------------------------------------
(* CycleCounter *)

MutantInitialize(t) ==
  /\ th[t].at = "construct"
  /\ initialized' = TRUE
  /\ Goto(t, IF is_calibrated THEN "idle" ELSE "calibrate")
  /\ UNCHANGED <<clock, is_calibrated, cycles_per_ns, op_start, current_latency,
                 operation_count, buckets, ahist>>

\* The exchange on initialized: the first caller calibrates, the others go on.
Initialize(t) ==
  /\ th[t].at = "construct"
  /\ initialized' = TRUE
  /\ Goto(t, IF initialized THEN "idle" ELSE "calibrate")
  /\ UNCHANGED <<clock, is_calibrated, cycles_per_ns, op_start, current_latency,
                 operation_count, buckets, ahist>>

StoreRate(t) ==
  /\ th[t].at = "calibrate"
  /\ cycles_per_ns' = Rate
  /\ calibrations' = calibrations + 1
  /\ Goto(t, "flag")
  /\ UNCHANGED <<clock, initialized, is_calibrated, op_start, current_latency,
                 operation_count, buckets, updates, stale, range>>

StoreFlag(t) ==
  /\ th[t].at = "flag"
  /\ is_calibrated' = TRUE
  /\ Goto(t, "idle")
  /\ UNCHANGED <<clock, initialized, cycles_per_ns, op_start, current_latency,
                 operation_count, buckets, ahist>>

cycles_to_ns(cycles) == IF is_calibrated THEN cycles \div cycles_per_ns ELSE 0

-----------------------------------------------------------------------------
(* start_operation and end_operation *)

StartOperation(t) ==
  /\ th[t].at = "idle" /\ th[t].ops < MaxOps
  /\ op_start' = clock
  /\ Goto(t, "operation")
  /\ UNCHANGED <<clock, calib, current_latency, operation_count, buckets, ahist>>

ReadEnd(t) ==
  /\ th[t].at = "operation"
  /\ th' = [th EXCEPT ![t].at = "duration", ![t].end = clock]
  /\ UNCHANGED <<clock, calib, op_start, current_latency, operation_count, buckets, ahist>>

\* op_start is shared: another thread may have started since.
StoreLatency(t) ==
  /\ th[t].at = "duration"
  /\ LET duration == cycles_to_ns(Minus(th[t].end, op_start))
     IN  /\ current_latency' = duration
         /\ th' = [th EXCEPT ![t].at = "count", ![t].duration = duration]
  /\ UNCHANGED <<clock, calib, op_start, operation_count, buckets, ahist>>

CountOperation(t) ==
  /\ th[t].at = "count"
  /\ operation_count' = operation_count + 1
  /\ th' = [th EXCEPT ![t].at = "check", ![t].ops = @ + 1]
  /\ UNCHANGED <<clock, calib, op_start, current_latency, buckets, ahist>>

MutantDue == operation_count % Period # 0

Due == operation_count % Period = 0

NotDue(t) ==
  /\ th[t].at = "check" /\ ~Due
  /\ Rest(t)
  /\ UNCHANGED <<clock, calib, op_start, current_latency, operation_count, buckets, ahist>>

\* The count is loaded before update_buckets takes the mutex.
IsDue(t) ==
  /\ th[t].at = "check" /\ Due
  /\ Goto(t, "update")
  /\ UNCHANGED <<clock, calib, op_start, current_latency, operation_count, buckets, ahist>>

-----------------------------------------------------------------------------
(* update_buckets *)

\* The time span of each bucket, counted from 0 as in the code.
time_span[i \in 0 .. NumBuckets - 1] == IF i = 0 THEN Base ELSE Factor * time_span[i - 1]

Average(b) == IF b.count > 0 THEN b.sum \div b.count ELSE 0

MutantShift(bs, i, now) ==
  [bs EXCEPT ![i + 1] = [sum |-> @.sum + Average(bs[i]), count |-> @.count + 1, last |-> now],
             ![i] = [sum |-> @.sum, count |-> 0, last |-> @.last]]

\* The most recent bucket takes the duration d.
Added(bs, d, now) ==
  [bs EXCEPT ![1] = [sum |-> @.sum + d, count |-> @.count + 1, last |-> now]]

\* A bucket that starts anew.
Emptied(b) == [sum |-> 0, count |-> 0, last |-> b.last]

\* Bucket i gives its average to the next one and starts anew.
Shift(bs, i, now) ==
  [bs EXCEPT ![i + 1] = [sum |-> @.sum + Average(bs[i]), count |-> @.count + 1, last |-> now],
             ![i] = Emptied(@)]

Elapsed(bs, i, now) == cycles_to_ns(Minus(now, bs[i].last))

\* Bucket i shifts when the next one is older than i's span.
Coarsen(bs, i, now) ==
  IF Elapsed(bs, i + 1, now) > time_span[i - 1] THEN Shift(bs, i, now) ELSE bs

\* The loop over all buckets but the last
Shifted(bs, now) ==
  LET after[i \in 0 .. NumBuckets - 1] ==
        IF i = 0 THEN bs ELSE Coarsen(after[i - 1], i, now)
  IN  after[NumBuckets - 1]

\* The last bucket forgets data older than max_history.
Discard(bs, now) ==
  IF bs[NumBuckets].count > 0 /\ Elapsed(bs, NumBuckets, now) > MaxHistory
    THEN [bs EXCEPT ![NumBuckets] = Emptied(@)] ELSE bs

UpdateBuckets(t) ==
  /\ th[t].at = "update"
  /\ LET now == th[t].end
         d == th[t].duration
     IN  /\ buckets' = Discard(Shifted(Added(buckets, d, now), now), now)
         /\ range' = IF range = <<>> THEN <<d, d>>
                     ELSE <<IF d < range[1] THEN d ELSE range[1],
                            IF d > range[2] THEN d ELSE range[2]>>
  /\ updates' = updates + 1
  /\ stale' = (stale \/ th[t].end < buckets[1].last)
  /\ Rest(t)
  /\ UNCHANGED <<clock, calib, op_start, current_latency, operation_count, calibrations>>

\* calculateAverageLatency over the first n buckets
AverageLatency(n) ==
  LET total[i \in 0 .. n] ==
        IF i = 0 THEN [sum |-> 0, count |-> 0]
        ELSE [sum |-> total[i - 1].sum + buckets[i].sum,
              count |-> total[i - 1].count + buckets[i].count]
  IN  Average(total[n])

-----------------------------------------------------------------------------
ThreadStep(t) ==
  \/ Initialize(t) \/ StoreRate(t) \/ StoreFlag(t)
  \/ StartOperation(t) \/ ReadEnd(t) \/ StoreLatency(t) \/ CountOperation(t)
  \/ NotDue(t) \/ IsDue(t) \/ UpdateBuckets(t)

AcctNext == Tick \/ \E t \in Threads : ThreadStep(t)

AcctSpec == AcctInit /\ [][AcctNext]_avars

-----------------------------------------------------------------------------
(* Properties *)

\* "ensures calibration only runs once": whatever the number of threads that
\* construct the object, at once or one after the other, at most one rate is
\* ever measured, and a thread that converts cycles finds either no calibration
\* or a complete one.
CalibratesOnce ==
  /\ calibrations <= 1
  /\ is_calibrated => cycles_per_ns = Rate

\* The increment and the test of operation_count are two accesses: an update can
\* be missed or done by several threads, but never by more than one per thread
\* for each Period operations.
UpdatesBounded == updates <= Cardinality(Threads) * (operation_count \div Period)

\* No average that getMetrics reports is above the greatest duration put into
\* the buckets, however they were shifted and in whatever order the threads came
\* to the mutex.  As long as they come in the order of their time stamps it is
\* not below the least one either.  (Out of order, the unsigned difference wraps,
\* and an empty bucket passes on an average of zero.)
AveragesInRange ==
  \A n \in 1 .. NumBuckets :
    (\E i \in 1 .. n : buckets[i].count > 0) =>
      /\ AverageLatency(n) <= range[2]
      /\ ~stale => AverageLatency(n) >= range[1]
=============================================================================
