---------------------------- MODULE MMLog_proofs ----------------------------
(***************************************************************************)
(* Theorems on mmlog_insert of fastlog/include/mmlog.h, for any number of  *)
(* threads and processes, any sizes of messages and any ring: the ring of  *)
(* mapped chunks, the contents of the file, and that the whole implements  *)
(* an append-only log as long as nobody trims it.                          *)
(***************************************************************************)
EXTENDS MMLog, MMLogCheckout_proofs, FiniteSetTheorems

-----------------------------------------------------------------------------
(* The inductive invariant *)

\* A thread inside mmlog_insert.
Active(t) == pc[t] \notin {"idle", "trim", "dead"}

\* A thread that works on the ring, and one that has a chunk checked out.
HoldsHead(t) == pc[t] = "granted" /\ wpc[t] \in {"find", "hit", "added", "nochunk"}
HasChunk(t) == pc[t] = "granted" /\ wpc[t] \in {"hit", "added", "pin", "copy", "unpin"}

\* Calls are numbered: a range belongs to one call, and a call under way to one range.
CallInv ==
  /\ \A r \in reserved : r.call >= 1 /\ r.call <= calls[r.owner]
  /\ \A r, s \in reserved : r.owner = s.owner /\ r.call = s.call => r = s
  /\ \A t \in Threads : Active(t) => Current(t) \in reserved

\* What holds of the reservation part of the state.
BaseInv == IInv /\ RangesDisjoint /\ CallInv

\* The write of a message is at its start but for a thread that was granted its
\* range, and is through when the thread comes to clean_chunks.  A child that is
\* not born does nothing.
PhaseInv ==
  \A t \in Threads :
    /\ pc[t] \notin {"granted", "dead"} => wpc[t] = "start" /\ written[t] = 0
    /\ pc[t] = "granted" /\ wpc[t] = "clean" => written[t] = req[t].size
    /\ pc[t] = "granted" /\ wpc[t] # "clean" => written[t] < req[t].size
    /\ ProcOf[t] \notin born => pc[t] = "idle" /\ at[t] = 0

Aligned(x) == \E k \in Nat : x = k * ChunkSize

\* The tail is never set, so nothing is unmapped; chunks start at multiples of
\* the chunk size, and the chunk that a thread checked out is there and holds
\* the position where it writes next.
ChunkInv ==
  /\ \A p \in Procs : tail[p] = NULL
  /\ \A p \in Procs : \A c \in 1 .. Len(heap[p]) :
       heap[p][c].mapped /\ Aligned(heap[p][c].start)
  /\ \A t \in Threads : HasChunk(t) =>
       /\ at[t] >= 1
       /\ heap[ProcOf[t]][at[t]].start <= CurrentCursor(t)
       /\ CurrentCursor(t) < heap[ProcOf[t]][at[t]].start + ChunkSize

\* What holds of the rings.
RingInv == PhaseInv /\ ChunkInv /\ HeadLockExcludes /\ RefCoversUsers

\* What a thread has written is in the file, and so is the piece that it has just
\* copied; nothing is behind the end of the file.
WrittenInv ==
  /\ \A c \in FileCells : content[c] # Hole => c < phys
  /\ \A t \in Threads : pc[t] = "granted" =>
       /\ \A c \in req[t].start .. (CurrentCursor(t) - 1) : content[c] = Mark(t)
       /\ wpc[t] = "unpin" => \A c \in PieceCells(t) : content[c] = Mark(t)

\* What holds of the contents of the file; some of it only until a trim.
DataInv ==
  /\ CellsOwned
  /\ \A t \in Threads : Active(t) => Current(t) \notin committed
  /\ ~trimmed => WrittenInv /\ CommittedIntact

MInv == MMLogTypeOK /\ BaseInv /\ RingInv /\ DataInv

-----------------------------------------------------------------------------
(* Arithmetic of chunks *)

\* The chunk of a position starts at or below it and ends above it.
LEMMA ChunkOfPosition ==
  ASSUME NEW x \in Nat
  PROVE  /\ x \div ChunkSize \in Nat
         /\ (x \div ChunkSize) * ChunkSize \in Nat
         /\ (x \div ChunkSize) * ChunkSize <= x
         /\ x < (x \div ChunkSize) * ChunkSize + ChunkSize
         /\ (x \div ChunkSize + 1) * ChunkSize = (x \div ChunkSize) * ChunkSize + ChunkSize
<1>1. ChunkSize \in Nat /\ ChunkSize > 0
  BY SizesAssumption
<1> DEFINE q == x \div ChunkSize
           m == x % ChunkSize
<1>2. q \in Nat /\ m \in 0 .. ChunkSize - 1 /\ x = q * ChunkSize + m
  BY <1>1
<1> HIDE DEF q, m
<1>3. q * ChunkSize \in Nat /\ (q + 1) * ChunkSize = q * ChunkSize + ChunkSize
  BY <1>1, <1>2
<1>4. q * ChunkSize <= x /\ x < q * ChunkSize + ChunkSize
  BY <1>1, <1>2, <1>3
<1> QED
  BY <1>2, <1>3, <1>4 DEF q

\* A chunk that holds a position is the chunk of that position.
LEMMA ChunkIsUnique ==
  ASSUME NEW x \in Nat, NEW s \in Nat, Aligned(s), s <= x, x < s + ChunkSize
  PROVE  (x \div ChunkSize) * ChunkSize = s
<1>1. PICK k \in Nat : s = k * ChunkSize
  BY DEF Aligned
<1> DEFINE q == x \div ChunkSize
<1>2. /\ q \in Nat
      /\ q * ChunkSize <= x
      /\ x < q * ChunkSize + ChunkSize
  BY ChunkOfPosition
<1> HIDE DEF q
<1>3. ChunkSize \in Nat /\ ChunkSize > 0
  BY SizesAssumption
<1>4. ASSUME NEW a \in Nat, NEW b \in Nat, a < b
      PROVE  a * ChunkSize + ChunkSize <= b * ChunkSize
  <2>1. PICK d \in Nat : b = a + 1 + d
    BY <1>4
  <2>2. b * ChunkSize = a * ChunkSize + ChunkSize + d * ChunkSize
    BY <1>3, <2>1
  <2>3. d * ChunkSize \in Nat /\ a * ChunkSize \in Nat
    BY <1>3
  <2> QED
    BY <1>3, <2>2, <2>3
<1>5. q * ChunkSize \in Nat /\ k * ChunkSize \in Nat
  BY <1>2, <1>3
<1>6. ~(q < k) /\ ~(k < q)
  BY <1>1, <1>2, <1>3, <1>4, <1>5
<1> QED
  BY <1>1, <1>2, <1>6 DEF q

\* bytes_to_write is positive, stays inside the message and inside the chunk of
\* the position where it starts.
LEMMA PieceFits ==
  ASSUME NEW t \in Threads, req[t] \in [start : Nat, size : Nat],
         written[t] \in Nat, written[t] < req[t].size
  PROVE  /\ CurrentCursor(t) \in Nat
         /\ Piece(t) \in Nat
         /\ Piece(t) >= 1
         /\ written[t] + Piece(t) <= req[t].size
         /\ CurrentCursor(t) + Piece(t) <= End(t)
         /\ CurrentCursor(t) + Piece(t)
              <= (CurrentCursor(t) \div ChunkSize) * ChunkSize + ChunkSize
<1> DEFINE start == req[t].start
           size == req[t].size
           w == written[t]
           x == CurrentCursor(t)
           low == (x \div ChunkSize) * ChunkSize
           high == (x \div ChunkSize + 1) * ChunkSize
<1>1. start \in Nat /\ size \in Nat /\ w \in Nat /\ w < size
  OBVIOUS
<1>2. x = start + w /\ x \in Nat
  BY DEF CurrentCursor
<1>3. low \in Nat /\ x < high /\ high = low + ChunkSize
  BY <1>2, ChunkOfPosition
<1>4. Piece(t) = IF x + (size - w) > high THEN high - x ELSE size - w
  BY DEF Piece
<1>5. ChunkSize \in Nat /\ End(t) = start + size
  BY SizesAssumption DEF End
<1> HIDE DEF start, size, w, x, low, high
<1>6. /\ Piece(t) \in Nat /\ Piece(t) >= 1 /\ w + Piece(t) <= size
      /\ x + Piece(t) <= End(t) /\ x + Piece(t) <= low + ChunkSize
  BY <1>1, <1>2, <1>3, <1>4, <1>5
<1> QED
  BY <1>2, <1>6 DEF w, size, x, low

-----------------------------------------------------------------------------
(* The reservation under mmlog_insert *)

\* What a step of mmlog_insert is to the reservation: one of its own steps or
\* none, a pwrite, which returns and may grow a trimmed file, or a death.
LEMMA StepKinds ==
  ASSUME [MMLogNext]_vars
  PROVE  \/ [Next]_cvars
         \/ \E t \in Threads : Pwrite(t)
         \/ \E p \in Procs : Die(p)
<1>1. CASE UNCHANGED vars
  BY <1>1 DEF vars
<1>2. ASSUME NEW t \in Threads, NEW size \in Sizes, Insert(t, size) PROVE Next
  BY <1>2 DEF Insert, Next
<1>3. ASSUME NEW t \in Threads, InsertCheckout(t) PROVE Next
  BY <1>3 DEF InsertCheckout, Next
<1>4. ASSUME NEW t \in Threads, NEW success, Finish(t, success), UNCHANGED meta,
             pc[t] \in {"granted", "failed"}
      PROVE  Next
  <2>1. Return(t)
    BY <1>4 DEF Finish, Return
  <2> QED
    BY <2>1 DEF Next
<1>5. ASSUME NEW t \in Threads, WriteStep(t)
      PROVE  Next \/ UNCHANGED cvars \/ Pwrite(t) \/ Die(ProcOf[t])
  <2>1. CASE InsertInvalid(t)
    BY <1>4, <2>1 DEF InsertInvalid
  <2>2. CASE LockTimeout(t)
    BY <1>4, <2>2 DEF LockTimeout
  <2>3. CASE UnlockHead(t)
    BY <1>4, <2>3 DEF UnlockHead
  <2>4. CASE Clean(t)
    BY <1>4, <2>4 DEF Clean
  <2>5. CASE BusError(t)
    BY <2>5 DEF BusError
  <2>6. CASE LockHead(t) \/ FindChunk(t) \/ AddNewChunk(t) \/ Pin(t) \/ Copy(t) \/ Unpin(t)
    BY <2>6 DEF LockHead, FindChunk, AddNewChunk, Pin, Copy, Unpin
  <2> QED
    BY <1>5, <2>1, <2>2, <2>3, <2>4, <2>5, <2>6 DEF WriteStep
<1>6. ASSUME NEW t \in Threads, Trim(t) PROVE Next
  BY <1>6 DEF Trim, Next
<1>7. ASSUME NEW p \in Procs, Kill(p) PROVE Die(p)
  BY <1>7 DEF Kill
<1>8. ASSUME NEW p \in Procs, NEW q \in Procs, Fork(p, q) PROVE UNCHANGED cvars
  BY <1>8 DEF Fork
<1>9. \A t \in Threads : ProcOf[t] \in Procs
  BY ThreadsAssumption
<1> QED
  BY <1>1, <1>2, <1>3, <1>5, <1>6, <1>7, <1>8, <1>9 DEF MMLogNext

\* A pwrite returns; until a trim it stays inside the file.
LEMMA PwriteFrame ==
  ASSUME IInv, NEW t \in Threads, Pwrite(t)
  PROVE  /\ pc[t] = "granted" /\ Goto(t, "idle")
         /\ UNCHANGED <<cursor, file_size, is_locked, is_panicked, req, calls, reserved, trimmed>>
         /\ phys' \in Nat /\ phys' >= phys
         /\ ~trimmed => phys' = phys
<1>1. PICK n \in 0 .. req[t].size :
        /\ phys' = IF n > 0 /\ req[t].start + n > phys THEN req[t].start + n ELSE phys
        /\ Finish(t, n = req[t].size)
  BY DEF Pwrite
<1>2. req[t].start \in Nat /\ req[t].size \in Nat /\ phys \in Nat /\ file_size \in Nat
  BY DEF IInv, TypeOK
<1>3. pc[t] = "granted"
  BY DEF Pwrite
<1>4. ~trimmed => req[t].start + req[t].size <= phys
  BY <1>2, <1>3 DEF IInv, CheckoutInv, CoverInv, SizeInv, End
<1>5. phys' \in Nat /\ phys' >= phys /\ (~trimmed => phys' = phys)
  BY <1>1, <1>2, <1>4
<1> QED
  BY <1>1, <1>3, <1>5 DEF Finish, Pwrite

\* A pwrite keeps what is known of the reservation.
LEMMA PwriteBase == ASSUME IInv, NEW t \in Threads, Pwrite(t) PROVE IInv'
<1> USE DEF Goto, End, Critical, FileSizeIsPhysical
<1>1. TypeOK /\ LockInv /\ SizeInv /\ CoverInv /\ PanicInv
  BY DEF IInv, CheckoutInv
<1>2. TypeOK'
  BY <1>1, PwriteFrame DEF TypeOK, Labels, Reservations
<1>3. LockInv' /\ PanicInv' /\ CoverInv'
  BY <1>1, PwriteFrame DEF TypeOK, LockInv, PanicInv, CoverInv
<1>4. SizeInv'
  BY <1>1, PwriteFrame DEF TypeOK, SizeInv
<1> QED
  BY <1>2, <1>3, <1>4 DEF IInv, CheckoutInv

\* So does a death.
LEMMA DeathBase == ASSUME IInv, NEW p \in Procs, Die(p) PROVE IInv'
<1> USE DEF End, Critical, FileSizeIsPhysical, meta
<1>1. TypeOK /\ LockInv /\ SizeInv /\ CoverInv /\ PanicInv
  BY DEF IInv, CheckoutInv
<1>2. /\ pc' = [t \in Threads |-> IF ProcOf[t] = p THEN "dead" ELSE pc[t]]
      /\ UNCHANGED <<meta, req, calls, reserved, trimmed>>
  BY DEF Die
<1>3. TypeOK'
  BY <1>1, <1>2 DEF TypeOK, Labels, Reservations
<1>4. LockInv' /\ PanicInv' /\ CoverInv' /\ SizeInv'
  BY <1>1, <1>2 DEF TypeOK, LockInv, PanicInv, CoverInv, SizeInv
<1> QED
  BY <1>3, <1>4 DEF IInv, CheckoutInv

\* What the steps of the reservation do to the calls: a thread begins a call with
\* the next number, or nothing changes but where the threads are.
LEMMA CallFrame ==
  ASSUME IInv, [Next]_cvars \/ (\E t \in Threads : Pwrite(t)) \/ \E p \in Procs : Die(p)
  PROVE  \/ \E t \in Threads, size \in Sizes : CheckoutFetchAdd(t, size)
         \/ \E t \in Threads : TrimLoad(t)
         \/ /\ UNCHANGED <<cursor, req, calls, reserved>>
            /\ \A t \in Threads : Active(t)' => Active(t)
<1> USE DEF Goto, meta, Active, IInv, TypeOK, Labels, Critical
<1>1. ASSUME NEW t \in Threads, CheckoutStep(t)
      PROVE  UNCHANGED <<cursor, req, calls, reserved>> /\ \A u \in Threads : Active(u)' => Active(u)
  BY <1>1 DEF CheckoutStep, CheckoutLoadSize, ExpandTryLock, ExpandTimeout, ExpandCheckPanic,
    ExpandLoadSize, ExpandFtruncate, ExpandStoreSize, ExpandStorePanic, ExpandUnlock, ExpandReturn
<1>2. ASSUME NEW t \in Threads, Return(t) \/ TrimFtruncate(t)
      PROVE  UNCHANGED <<cursor, req, calls, reserved>> /\ \A u \in Threads : Active(u)' => Active(u)
  BY <1>2 DEF Return, TrimFtruncate
<1>3. ASSUME NEW p \in Procs, Crash(p) \/ Die(p)
      PROVE  UNCHANGED <<cursor, req, calls, reserved>> /\ \A u \in Threads : Active(u)' => Active(u)
  BY <1>3 DEF Crash, Die
<1>4. ASSUME NEW t \in Threads, Pwrite(t)
      PROVE  UNCHANGED <<cursor, req, calls, reserved>> /\ \A u \in Threads : Active(u)' => Active(u)
  BY <1>4, PwriteFrame
<1>5. CASE UNCHANGED cvars
  BY <1>5 DEF cvars
<1> QED
  BY <1>1, <1>2, <1>3, <1>4, <1>5 DEF Next

\* The reservation part of the invariant is inductive.
LEMMA BaseStep == ASSUME BaseInv, [MMLogNext]_vars PROVE BaseInv'
<1>1. IInv /\ RangesDisjoint /\ CallInv /\ TypeOK
  BY DEF BaseInv, IInv
<1>2. [Next]_cvars \/ (\E t \in Threads : Pwrite(t)) \/ \E p \in Procs : Die(p)
  BY StepKinds
<1>3. IInv'
  BY <1>1, <1>2, IInvStep, PwriteBase, DeathBase
<1>4. RangesDisjoint'
  <2>1. CASE [Next]_cvars
    BY <1>1, <2>1, RangesStep
  <2>2. CASE UNCHANGED <<cursor, reserved>>
    BY <1>1, <2>2 DEF RangesDisjoint
  <2>3. ASSUME NEW t \in Threads, Pwrite(t) PROVE UNCHANGED <<cursor, reserved>>
    BY <1>1, <2>3, PwriteFrame
  <2>4. ASSUME NEW p \in Procs, Die(p) PROVE UNCHANGED <<cursor, reserved>>
    BY <2>4 DEF Die, meta
  <2> QED
    BY <1>2, <2>1, <2>2, <2>3, <2>4
<1>5. CallInv'
  <2>1. ASSUME NEW t \in Threads, NEW size \in Sizes, CheckoutFetchAdd(t, size) PROVE CallInv'
    <3> DEFINE new == [owner |-> t, call |-> calls[t] + 1, start |-> cursor, size |-> size]
    <3>1. calls \in [Threads -> Nat] /\ reserved \subseteq Reservations
      BY <1>1 DEF TypeOK
    <3>2. calls' = [calls EXCEPT ![t] = @ + 1] /\ reserved' = reserved \cup {new}
      BY <2>1 DEF CheckoutFetchAdd
    <3>3. Current(t)' = new
      BY <1>1, <2>1 DEF CheckoutFetchAdd, Current, TypeOK
    <3>4. ASSUME NEW u \in Threads, u # t PROVE Current(u)' = Current(u) /\ (Active(u)' => Active(u))
      BY <1>1, <2>1, <3>4 DEF CheckoutFetchAdd, Goto, Current, Active, TypeOK
    <3>5. new.owner = t /\ new.call = calls[t] + 1
      OBVIOUS
    <3>6. \A r \in reserved : r.owner \in Threads /\ r.call \in Nat /\ r.call <= calls[r.owner] /\ r.call >= 1
      BY <1>1, <3>1 DEF CallInv, Reservations
    <3>7. calls'[t] = calls[t] + 1 /\ \A u \in Threads : calls'[u] \in Nat /\ calls'[u] >= calls[u]
      BY <3>1, <3>2
    <3> HIDE DEF new
    <3>8. \A r \in reserved' : r.call >= 1 /\ r.call <= calls'[r.owner]
      BY <3>1, <3>2, <3>5, <3>6, <3>7
    <3>9. \A r, s \in reserved' : r.owner = s.owner /\ r.call = s.call => r = s
      BY <1>1, <3>1, <3>2, <3>5, <3>6 DEF CallInv
    <3>10. \A u \in Threads : Active(u)' => Current(u)' \in reserved'
      BY <1>1, <3>2, <3>3, <3>4 DEF CallInv
    <3> QED
      BY <3>8, <3>9, <3>10 DEF CallInv
  <2>2. ASSUME NEW t \in Threads, TrimLoad(t) PROVE CallInv'
    <3>1. calls \in [Threads -> Nat] /\ reserved \subseteq Reservations
      BY <1>1 DEF TypeOK
    <3>2. calls' = [calls EXCEPT ![t] = @ + 1] /\ reserved' = reserved
      BY <2>2 DEF TrimLoad
    <3>3. ~Active(t)' /\ \A u \in Threads : u # t => Current(u)' = Current(u) /\ (Active(u)' => Active(u))
      BY <1>1, <2>2 DEF TrimLoad, Goto, Current, Active, TypeOK
    <3>4. \A r \in reserved : r.owner \in Threads /\ r.call \in Nat
      BY <3>1 DEF Reservations
    <3> QED
      BY <1>1, <3>1, <3>2, <3>3, <3>4 DEF CallInv
  <2>3. CASE /\ UNCHANGED <<cursor, req, calls, reserved>>
             /\ \A t \in Threads : Active(t)' => Active(t)
    BY <1>1, <2>3 DEF CallInv, Current
  <2> QED
    BY <1>1, <1>2, <2>1, <2>2, <2>3, CallFrame
<1> QED
  BY <1>3, <1>4, <1>5 DEF BaseInv

-----------------------------------------------------------------------------
(* The rings *)

\* The types of the rings and of the threads' places in them.
RingTypes ==
  /\ heap \in [Procs -> Seq(Chunks)]
  /\ buffer \in [Procs -> [Slots -> Nat]]
  /\ head \in [Procs -> Slots]
  /\ tail \in [Procs -> Slots \cup {NULL}]
  /\ head_locked \in [Procs -> BOOLEAN]
  /\ born \subseteq Procs
  /\ wpc \in [Threads -> WriteLabels]
  /\ at \in [Threads -> Nat]
  /\ \A p \in Procs : \A i \in Slots : buffer[p][i] <= Len(heap[p])
  /\ \A t \in Threads : at[t] <= Len(heap[ProcOf[t]])

\* The types of what is written.
DataTypes ==
  /\ written \in [Threads -> Nat]
  /\ \A t \in Threads : written[t] <= req[t].size
  /\ content \in [FileCells -> {Hole} \cup [owner : Threads, call : Nat]]
  /\ committed \subseteq reserved

\* The count of one chunk is set.
SetRef(p, c, n) == heap' = [heap EXCEPT ![p][c].ref = n]

\* A change of the count of one chunk leaves everything else as it was.
LEMMA RefUpdate ==
  ASSUME heap \in [Procs -> Seq(Chunks)],
         NEW p \in Procs, NEW c \in 1 .. Len(heap[p]), NEW n \in Nat,
         SetRef(p, c, n)
  PROVE  /\ heap' \in [Procs -> Seq(Chunks)]
         /\ \A q \in Procs : Len(heap'[q]) = Len(heap[q])
         /\ \A q \in Procs : \A d \in 1 .. Len(heap[q]) :
              /\ heap'[q][d].start = heap[q][d].start
              /\ heap'[q][d].mapped = heap[q][d].mapped
              /\ heap'[q][d].ref = IF q = p /\ d = c THEN n ELSE heap[q][d].ref
<1> DEFINE old == heap[p][c]
           new == [old EXCEPT !.ref = n]
           s == [heap[p] EXCEPT ![c] = new]
<1>1. heap[p] \in Seq(Chunks) /\ old \in Chunks
  OBVIOUS
<1>2. new \in Chunks /\ new.start = old.start /\ new.mapped = old.mapped /\ new.ref = n
  BY <1>1 DEF Chunks
<1>3. heap' = [heap EXCEPT ![p] = s]
  BY DEF SetRef
<1> HIDE DEF new
<1>4. s \in Seq(Chunks) /\ Len(s) = Len(heap[p])
  BY <1>1, <1>2
<1>5. \A d \in 1 .. Len(heap[p]) : s[d] = IF d = c THEN new ELSE heap[p][d]
  BY <1>1
<1> HIDE DEF s
<1>6. heap' \in [Procs -> Seq(Chunks)]
  BY <1>3, <1>4
<1>7. heap'[p] = s /\ \A q \in Procs : q # p => heap'[q] = heap[q]
  BY <1>3
<1> QED
  BY <1>2, <1>4, <1>5, <1>6, <1>7

\* A new chunk comes behind the others.
LEMMA HeapAppend ==
  ASSUME heap \in [Procs -> Seq(Chunks)],
         NEW p \in Procs, NEW new \in Chunks,
         heap' = [heap EXCEPT ![p] = Append(@, new)]
  PROVE  /\ heap' \in [Procs -> Seq(Chunks)]
         /\ Len(heap'[p]) = Len(heap[p]) + 1
         /\ heap'[p][Len(heap[p]) + 1] = new
         /\ \A q \in Procs : q # p => heap'[q] = heap[q]
         /\ \A d \in 1 .. Len(heap[p]) : heap'[p][d] = heap[p][d]
<1> DEFINE s == Append(heap[p], new)
<1>1. heap[p] \in Seq(Chunks)
  OBVIOUS
<1>2. /\ s \in Seq(Chunks) /\ Len(s) = Len(heap[p]) + 1 /\ s[Len(heap[p]) + 1] = new
      /\ \A d \in 1 .. Len(heap[p]) : s[d] = heap[p][d]
  BY <1>1
<1>3. heap' = [heap EXCEPT ![p] = s]
  OBVIOUS
<1> HIDE DEF s
<1> QED
  BY <1>2, <1>3

\* An allocated chunk has its fields.
LEMMA ChunkType ==
  ASSUME RingTypes, NEW p \in Procs, NEW c \in 1 .. Len(heap[p])
  PROVE  heap[p][c] \in Chunks /\ heap[p][c].start \in Nat /\ heap[p][c].ref \in Nat
<1>1. heap[p] \in Seq(Chunks)
  BY DEF RingTypes
<1>2. heap[p][c] \in Chunks
  BY <1>1
<1> QED
  BY <1>2 DEF Chunks

\* How the number of users can change.
LEMMA UserCounts ==
  ASSUME NEW S, IsFiniteSet(S), NEW T, NEW t
  PROVE  /\ Cardinality(S) \in Nat
         /\ T \subseteq S => Cardinality(T) \in Nat /\ Cardinality(T) <= Cardinality(S)
         /\ T \subseteq S \cup {t} => Cardinality(T) \in Nat /\ Cardinality(T) <= Cardinality(S) + 1
         /\ T \subseteq S \ {t} /\ t \in S => Cardinality(T) \in Nat /\ Cardinality(T) + 1 <= Cardinality(S)
<1>1. Cardinality(S) \in Nat
  BY FS_CardinalityType
<1>2. ASSUME T \subseteq S PROVE Cardinality(T) \in Nat /\ Cardinality(T) <= Cardinality(S)
  BY <1>2, FS_Subset, FS_CardinalityType
<1>3. ASSUME T \subseteq S \cup {t}
      PROVE  Cardinality(T) \in Nat /\ Cardinality(T) <= Cardinality(S) + 1
  <2>1. IsFiniteSet(S \cup {t}) /\ Cardinality(S \cup {t}) <= Cardinality(S) + 1
    BY <1>1, FS_AddElement
  <2>2. /\ IsFiniteSet(T) /\ Cardinality(T) <= Cardinality(S \cup {t})
    BY <1>3, <2>1, FS_Subset
  <2>3. Cardinality(T) \in Nat /\ Cardinality(S \cup {t}) \in Nat
    BY <2>1, <2>2, FS_CardinalityType
  <2> QED
    BY <1>1, <2>1, <2>2, <2>3
<1>4. ASSUME T \subseteq S \ {t}, t \in S
      PROVE  Cardinality(T) \in Nat /\ Cardinality(T) + 1 <= Cardinality(S)
  <2>1. IsFiniteSet(S \ {t}) /\ Cardinality(S \ {t}) = Cardinality(S) - 1
    BY <1>4, FS_RemoveElement
  <2>2. IsFiniteSet(T) /\ Cardinality(T) <= Cardinality(S \ {t})
    BY <1>4, <2>1, FS_Subset
  <2>3. Cardinality(T) \in Nat
    BY <2>2, FS_CardinalityType
  <2> QED
    BY <1>1, <2>1, <2>2, <2>3
<1> QED
  BY <1>1, <1>2, <1>3, <1>4

\* The users of a chunk are finitely many.
LEMMA UsersFinite == \A p, c : IsFiniteSet(Users(p, c))
<1>1. \A p, c : Users(p, c) \subseteq Threads
  BY DEF Users
<1> QED
  BY <1>1, RingAssumption, FS_Subset

\* Slots follow each other around the ring, and none of them is NULL.
LEMMA SlotFacts ==
  /\ NULL \notin Slots
  /\ \A i \in Slots : NextSlot(i) \in Slots
<1>1. Capacity \in Nat /\ Capacity >= 2
  BY RingAssumption
<1>2. ASSUME NEW i \in Slots PROVE NextSlot(i) \in Slots
  <2>1. i + 1 \in Nat
    BY <1>1 DEF Slots
  <2>2. (i + 1) % Capacity \in 0 .. Capacity - 1
    BY <1>1, <2>1
  <2> QED
    BY <2>2 DEF NextSlot, Slots
<1> QED
  BY <1>1, <1>2 DEF NULL, Slots

\* The users of the chunks of a process can only go away when no thread comes to
\* copy: the counts still cover them.
LEMMA FewerUsers ==
  ASSUME RefCoversUsers, RingTypes, RingTypes',
         \A p \in Procs : Len(heap'[p]) = Len(heap[p]),
         \A p \in Procs : \A c \in 1 .. Len(heap[p]) :
           /\ heap'[p][c].ref = heap[p][c].ref
           /\ Users(p, c)' \subseteq Users(p, c)
  PROVE  RefCoversUsers'
<1> SUFFICES ASSUME NEW p \in Procs, NEW c \in 1 .. Len(heap'[p])
             PROVE  heap'[p][c].ref >= Cardinality(Users(p, c)') + 1
  BY DEF RefCoversUsers
<1>1. c \in 1 .. Len(heap[p])
  OBVIOUS
<1>2. heap[p][c].ref \in Nat /\ heap'[p][c].ref = heap[p][c].ref
  BY <1>1, ChunkType
<1>3. heap[p][c].ref >= Cardinality(Users(p, c)) + 1
  BY <1>1 DEF RefCoversUsers
<1>4. /\ Cardinality(Users(p, c)) \in Nat /\ Cardinality(Users(p, c)') \in Nat
      /\ Cardinality(Users(p, c)') <= Cardinality(Users(p, c))
  BY <1>1, UsersFinite, UserCounts
<1> QED
  BY <1>2, <1>3, <1>4

\* A step that touches neither the rings nor the writes, such as one of
\* mmlog_checkout, keeps what holds of them.
LEMMA QuietRing ==
  ASSUME RingTypes, RingInv, DataTypes,
         UNCHANGED <<ring, born, wpc, written, at>>,
         \A u \in Threads :
           \/ pc'[u] = pc[u] /\ req'[u] = req[u]
           \/ /\ pc[u] \notin {"granted", "dead"} /\ pc'[u] # "dead"
              /\ pc'[u] = "granted" => req'[u].size > 0
              /\ ProcOf[u] \in born
  PROVE  RingTypes' /\ RingInv'
<1> USE DEF ring
<1>1. RingTypes'
  BY DEF RingTypes
<1>2. PhaseInv /\ ChunkInv /\ HeadLockExcludes /\ RefCoversUsers
  BY DEF RingInv
<1>3. \A u \in Threads : pc'[u] = "granted" /\ wpc'[u] # "start" =>
        pc[u] = "granted" /\ CurrentCursor(u)' = CurrentCursor(u)
  BY <1>2 DEF PhaseInv, CurrentCursor
<1>4. PhaseInv'
  <2> SUFFICES ASSUME NEW u \in Threads
               PROVE  /\ pc'[u] \notin {"granted", "dead"} => wpc'[u] = "start" /\ written'[u] = 0
                      /\ pc'[u] = "granted" /\ wpc'[u] = "clean" => written'[u] = req'[u].size
                      /\ pc'[u] = "granted" /\ wpc'[u] # "clean" => written'[u] < req'[u].size
                      /\ ProcOf[u] \notin born' => pc'[u] = "idle" /\ at'[u] = 0
    BY DEF PhaseInv
  <2>1. CASE pc'[u] = pc[u] /\ req'[u] = req[u]
    BY <1>2, <2>1 DEF PhaseInv
  <2>2. CASE /\ pc[u] \notin {"granted", "dead"} /\ pc'[u] # "dead"
             /\ pc'[u] = "granted" => req'[u].size > 0
             /\ ProcOf[u] \in born
    BY <1>2, <2>2 DEF PhaseInv
  <2> QED
    BY <2>1, <2>2
<1>5. ChunkInv'
  BY <1>2, <1>3 DEF ChunkInv, HasChunk
<1>6. HeadLockExcludes'
  BY <1>2, <1>3 DEF HeadLockExcludes
<1>7. RefCoversUsers'
  <2>1. \A p \in Procs : \A c \in 1 .. Len(heap[p]) : Users(p, c)' \subseteq Users(p, c)
    BY <1>3 DEF Users
  <2> QED
    BY <1>1, <1>2, <2>1, FewerUsers
<1> QED
  BY <1>1, <1>4, <1>5, <1>6, <1>7 DEF RingInv

\* mmlog_insert returns: the thread is no user and gives the head lock back if it
\* held it.
LEMMA ReturnRing ==
  ASSUME RingTypes, RingInv, DataTypes, TypeOK,
         NEW t \in Threads, NEW success, Finish(t, success),
         pc[t] \in {"granted", "failed"},
         UNCHANGED <<heap, buffer, head, tail, born, at>>,
         \/ UNCHANGED head_locked /\ ~HoldsHead(t)
         \/ head_locked' = [head_locked EXCEPT ![ProcOf[t]] = FALSE] /\ HoldsHead(t)
  PROVE  RingTypes' /\ RingInv'
<1> USE DEF Finish, Goto, GotoW
<1>1. PhaseInv /\ ChunkInv /\ HeadLockExcludes /\ RefCoversUsers /\ ProcOf[t] \in Procs
  BY ThreadsAssumption DEF RingInv
<1>2. RingTypes'
  BY <1>1 DEF RingTypes, WriteLabels
<1>3. pc'[t] = "idle" /\ wpc'[t] = "start" /\ written'[t] = 0
  BY DEF RingTypes, DataTypes, TypeOK
<1>4. \A u \in Threads \ {t} :
        pc'[u] = pc[u] /\ wpc'[u] = wpc[u] /\ written'[u] = written[u] /\ CurrentCursor(u)' = CurrentCursor(u)
  BY DEF RingTypes, DataTypes, TypeOK, CurrentCursor
<1>5. PhaseInv'
  BY <1>1, <1>3, <1>4 DEF PhaseInv
<1>6. ChunkInv'
  BY <1>1, <1>3, <1>4 DEF ChunkInv, HasChunk
<1>7. HeadLockExcludes'
  <2> SUFFICES ASSUME NEW u \in Threads, NEW v \in Threads
               PROVE  /\ HoldsHead(u)' => head_locked'[ProcOf[u]]
                      /\ HoldsHead(u)' /\ HoldsHead(v)' /\ ProcOf[u] = ProcOf[v] => u = v
    BY DEF HeadLockExcludes, HoldsHead
  <2>1. \A x \in Threads : HoldsHead(x)' => HoldsHead(x) /\ x # t
    BY <1>3, <1>4 DEF HoldsHead
  <2>2. \A x, y \in Threads :
          /\ HoldsHead(x) => head_locked[ProcOf[x]]
          /\ HoldsHead(x) /\ HoldsHead(y) /\ ProcOf[x] = ProcOf[y] => x = y
    BY <1>1 DEF HeadLockExcludes, HoldsHead
  <2>3. \A x \in Threads : ProcOf[x] \in Procs
    BY ThreadsAssumption
  <2> QED
    BY <2>1, <2>2, <2>3 DEF RingTypes
<1>8. RefCoversUsers'
  <2>1. \A p \in Procs : \A c \in 1 .. Len(heap[p]) : Users(p, c)' \subseteq Users(p, c)
    BY <1>3, <1>4 DEF Users
  <2> QED
    BY <1>1, <1>2, <2>1, FewerUsers
<1> QED
  BY <1>2, <1>5, <1>6, <1>7, <1>8 DEF RingInv

\* The threads of a process that dies are users no longer.
LEMMA DeathRing ==
  ASSUME RingTypes, RingInv, TypeOK, NEW p \in Procs, Die(p), p \in born
  PROVE  RingTypes' /\ RingInv'
<1> USE DEF ring
<1>1. PhaseInv /\ ChunkInv /\ HeadLockExcludes /\ RefCoversUsers
  BY DEF RingInv
<1>2. UNCHANGED <<ring, born, wpc, written, at, req>>
  BY DEF Die
<1>3. \A u \in Threads : IF ProcOf[u] = p THEN pc'[u] = "dead" ELSE pc'[u] = pc[u]
  BY DEF Die
<1>4. \A u \in Threads : CurrentCursor(u)' = CurrentCursor(u)
  BY <1>2 DEF CurrentCursor
<1>5. RingTypes'
  BY <1>2 DEF RingTypes
<1>6. PhaseInv'
  BY <1>1, <1>2, <1>3 DEF PhaseInv
<1>7. ChunkInv'
  BY <1>1, <1>2, <1>3, <1>4 DEF ChunkInv, HasChunk
<1>8. HeadLockExcludes'
  BY <1>1, <1>2, <1>3 DEF HeadLockExcludes
<1>9. RefCoversUsers'
  <2>1. \A q \in Procs : \A c \in 1 .. Len(heap[q]) : Users(q, c)' \subseteq Users(q, c)
    BY <1>2, <1>3 DEF Users
  <2> QED
    BY <1>1, <1>2, <1>5, <2>1, FewerUsers
<1> QED
  BY <1>5, <1>6, <1>7, <1>8, <1>9 DEF RingInv

\* A child starts with a copy of its parent's ring and no users.
LEMMA ForkRing ==
  ASSUME RingTypes, RingInv, NEW p \in Procs, NEW q \in Procs, Fork(p, q)
  PROVE  RingTypes' /\ RingInv'
<1>1. PhaseInv /\ ChunkInv /\ HeadLockExcludes /\ RefCoversUsers
  BY DEF RingInv
<1>2. p \in born /\ q \notin born /\ born' = born \cup {q}
  BY DEF Fork
<1>3. /\ heap' = [heap EXCEPT ![q] = heap[p]]
      /\ buffer' = [buffer EXCEPT ![q] = buffer[p]]
      /\ head' = [head EXCEPT ![q] = head[p]]
      /\ tail' = [tail EXCEPT ![q] = tail[p]]
      /\ head_locked' = [head_locked EXCEPT ![q] = head_locked[p]]
      /\ UNCHANGED <<pc, req, wpc, written, at>>
  BY DEF Fork, cvars
<1>4. \A u \in Threads : ProcOf[u] = q => pc[u] = "idle" /\ at[u] = 0
  BY <1>1, <1>2 DEF PhaseInv
<1>5. /\ heap'[q] = heap[p] /\ tail'[q] = tail[p] /\ buffer'[q] = buffer[p]
      /\ \A r \in Procs \ {q} : /\ heap'[r] = heap[r] /\ tail'[r] = tail[r]
                                /\ head_locked'[r] = head_locked[r] /\ buffer'[r] = buffer[r]
  BY <1>3 DEF RingTypes
<1>6. \A u \in Threads : ProcOf[u] \in Procs /\ CurrentCursor(u)' = CurrentCursor(u)
  BY <1>3, ThreadsAssumption DEF CurrentCursor
<1>7. RingTypes'
  <2>1. /\ heap' \in [Procs -> Seq(Chunks)] /\ buffer' \in [Procs -> [Slots -> Nat]]
        /\ head' \in [Procs -> Slots] /\ tail' \in [Procs -> Slots \cup {NULL}]
        /\ head_locked' \in [Procs -> BOOLEAN]
    BY <1>3 DEF RingTypes
  <2>2. \A r \in Procs : \A i \in Slots : buffer'[r][i] <= Len(heap'[r])
    BY <1>5 DEF RingTypes
  <2>3. Len(heap[p]) \in Nat
    BY DEF RingTypes
  <2>4. \A u \in Threads : at'[u] <= Len(heap'[ProcOf[u]])
    BY <1>3, <1>4, <1>5, <1>6, <2>3 DEF RingTypes
  <2>5. born' \subseteq Procs /\ wpc' \in [Threads -> WriteLabels] /\ at' \in [Threads -> Nat]
    BY <1>2, <1>3 DEF RingTypes
  <2> QED
    BY <2>1, <2>2, <2>4, <2>5 DEF RingTypes
<1>8. PhaseInv'
  BY <1>1, <1>2, <1>3 DEF PhaseInv
<1>9. ChunkInv'
  <2>1. \A r \in Procs : tail'[r] = NULL
    BY <1>1, <1>5 DEF ChunkInv
  <2>2. \A r \in Procs : \A c \in 1 .. Len(heap'[r]) : heap'[r][c].mapped /\ Aligned(heap'[r][c].start)
    BY <1>1, <1>5 DEF ChunkInv
  <2>3. \A u \in Threads : HasChunk(u)' => HasChunk(u) /\ ProcOf[u] # q
    BY <1>3, <1>4 DEF HasChunk
  <2> QED
    BY <1>1, <1>3, <1>5, <1>6, <2>1, <2>2, <2>3 DEF ChunkInv, Aligned
<1>10. HeadLockExcludes'
  BY <1>1, <1>3, <1>4, <1>5, <1>6 DEF HeadLockExcludes
<1>11. RefCoversUsers'
  <2> SUFFICES ASSUME NEW r \in Procs, NEW c \in 1 .. Len(heap'[r])
               PROVE  heap'[r][c].ref >= Cardinality(Users(r, c)') + 1
    BY DEF RefCoversUsers
  <2>1. CASE r = q
    <3>1. Users(r, c)' = {}
      BY <1>3, <1>4, <2>1 DEF Users
    <3>2. c \in 1 .. Len(heap[p]) /\ heap'[r][c] = heap[p][c]
      BY <1>5, <2>1
    <3>3. /\ heap[p][c].ref \in Nat /\ Cardinality(Users(p, c)) \in Nat
          /\ heap[p][c].ref >= Cardinality(Users(p, c)) + 1
      BY <1>1, <3>2, ChunkType, UsersFinite, UserCounts DEF RefCoversUsers
    <3> QED
      BY <3>1, <3>2, <3>3, FS_EmptySet
  <2>2. CASE r # q
    <3>1. Users(r, c)' = Users(r, c)
      BY <1>3 DEF Users
    <3>2. heap'[r] = heap[r]
      BY <1>5, <2>2
    <3> QED
      BY <1>1, <3>1, <3>2 DEF RefCoversUsers
  <2> QED
    BY <2>1, <2>2
<1> QED
  BY <1>7, <1>8, <1>9, <1>10, <1>11 DEF RingInv

\* A thread moves on in mmlog_rb_checkout or write_to_chunk without touching a
\* count; it may take the head lock when it is free or release it when it has it.
LEMMA MoveRing ==
  ASSUME RingTypes, RingInv, DataTypes, NEW t \in Threads, NEW l \in WriteLabels,
         pc[t] = "granted", wpc[t] # "clean", l # "clean", GotoW(t, l),
         UNCHANGED <<cvars, heap, head, tail, born, written, at>>,
         buffer' \in [Procs -> [Slots -> Nat]],
         \A p \in Procs : \A i \in Slots : buffer'[p][i] <= Len(heap[p]),
         l \in {"hit", "added", "pin", "copy", "unpin"} =>
           wpc[t] \in {"hit", "added", "pin", "copy", "unpin"},
         l \in {"hit", "copy", "unpin"} => wpc[t] \in {"hit", "copy", "unpin"},
         \/ UNCHANGED head_locked /\ (HoldsHead(t)' => HoldsHead(t))
         \/ ~head_locked[ProcOf[t]] /\ head_locked' = [head_locked EXCEPT ![ProcOf[t]] = TRUE]
         \/ HoldsHead(t) /\ ~HoldsHead(t)' /\ head_locked' = [head_locked EXCEPT ![ProcOf[t]] = FALSE]
  PROVE  RingTypes' /\ RingInv'
<1> USE DEF GotoW, cvars
<1>1. PhaseInv /\ ChunkInv /\ HeadLockExcludes /\ RefCoversUsers /\ ProcOf[t] \in Procs
  BY ThreadsAssumption DEF RingInv
<1>2. RingTypes'
  BY <1>1 DEF RingTypes
<1>3. wpc'[t] = l /\ \A u \in Threads \ {t} : wpc'[u] = wpc[u]
  BY DEF RingTypes
<1>4. \A u \in Threads : CurrentCursor(u)' = CurrentCursor(u)
  BY DEF CurrentCursor
<1>5. PhaseInv'
  BY <1>1, <1>3 DEF PhaseInv
<1>6. ChunkInv'
  <2>1. \A u \in Threads : HasChunk(u)' => HasChunk(u)
    BY <1>3 DEF HasChunk
  <2> QED
    BY <1>1, <1>4, <2>1 DEF ChunkInv
<1>7. HeadLockExcludes'
  <2> SUFFICES ASSUME NEW u \in Threads, NEW v \in Threads
               PROVE  /\ HoldsHead(u)' => head_locked'[ProcOf[u]]
                      /\ HoldsHead(u)' /\ HoldsHead(v)' /\ ProcOf[u] = ProcOf[v] => u = v
    BY DEF HeadLockExcludes, HoldsHead
  <2>1. \A x \in Threads : x # t => (HoldsHead(x)' <=> HoldsHead(x))
    BY <1>3 DEF HoldsHead
  <2>2. \A x, y \in Threads :
          /\ HoldsHead(x) => head_locked[ProcOf[x]]
          /\ HoldsHead(x) /\ HoldsHead(y) /\ ProcOf[x] = ProcOf[y] => x = y
    BY <1>1 DEF HeadLockExcludes, HoldsHead
  <2>3. \A x \in Threads : ProcOf[x] \in Procs
    BY ThreadsAssumption
  <2>4. CASE UNCHANGED head_locked /\ (HoldsHead(t)' => HoldsHead(t))
    BY <2>1, <2>2, <2>4
  <2>5. CASE ~head_locked[ProcOf[t]] /\ head_locked' = [head_locked EXCEPT ![ProcOf[t]] = TRUE]
    BY <2>1, <2>2, <2>3, <2>5 DEF RingTypes
  <2>6. CASE HoldsHead(t) /\ ~HoldsHead(t)' /\ head_locked' = [head_locked EXCEPT ![ProcOf[t]] = FALSE]
    BY <2>1, <2>2, <2>3, <2>6 DEF RingTypes
  <2> QED
    BY <2>4, <2>5, <2>6
<1>8. RefCoversUsers'
  <2>1. \A p \in Procs : \A c \in 1 .. Len(heap[p]) : Users(p, c)' \subseteq Users(p, c)
    BY <1>3 DEF Users
  <2> QED
    BY <1>1, <1>2, <2>1, FewerUsers
<1> QED
  BY <1>2, <1>5, <1>6, <1>7, <1>8 DEF RingInv

\* A thread becomes a user of the chunk c that holds its position, and is counted
\* in the same step.
LEMMA PinRing ==
  ASSUME RingTypes, RingInv, DataTypes, NEW t \in Threads,
         NEW c \in 1 .. Len(heap[ProcOf[t]]), NEW l \in {"hit", "copy"},
         pc[t] = "granted", wpc[t] \in {"find", "pin"}, l = "hit" => wpc[t] = "find", GotoW(t, l),
         SetRef(ProcOf[t], c, heap[ProcOf[t]][c].ref + 1),
         at' = [at EXCEPT ![t] = c],
         heap[ProcOf[t]][c].start <= CurrentCursor(t),
         CurrentCursor(t) < heap[ProcOf[t]][c].start + ChunkSize,
         UNCHANGED <<cvars, buffer, head, tail, head_locked, born, written>>
  PROVE  RingTypes' /\ RingInv'
<1> USE DEF GotoW, cvars
<1> DEFINE p == ProcOf[t]
           n == heap[p][c].ref + 1
<1>1. PhaseInv /\ ChunkInv /\ HeadLockExcludes /\ RefCoversUsers /\ p \in Procs
  BY ThreadsAssumption DEF RingInv
<1>2. heap[p][c].ref \in Nat /\ n \in Nat
  BY <1>1, ChunkType
<1>3. /\ heap' \in [Procs -> Seq(Chunks)]
      /\ \A q \in Procs : Len(heap'[q]) = Len(heap[q])
      /\ \A q \in Procs : \A d \in 1 .. Len(heap[q]) :
           /\ heap'[q][d].start = heap[q][d].start
           /\ heap'[q][d].mapped = heap[q][d].mapped
           /\ heap'[q][d].ref = IF q = p /\ d = c THEN n ELSE heap[q][d].ref
  <2>1. heap \in [Procs -> Seq(Chunks)]
    BY DEF RingTypes
  <2>2. SetRef(p, c, n)
    OBVIOUS
  <2>3. c \in 1 .. Len(heap[p])
    OBVIOUS
  <2> HIDE DEF p, n
  <2> QED
    BY <1>1, <1>2, <2>1, <2>2, <2>3, RefUpdate
<1>4. wpc'[t] = l /\ at'[t] = c /\ \A u \in Threads \ {t} : wpc'[u] = wpc[u] /\ at'[u] = at[u]
  BY DEF RingTypes
<1>5. \A u \in Threads : ProcOf[u] \in Procs /\ CurrentCursor(u)' = CurrentCursor(u)
  BY ThreadsAssumption DEF CurrentCursor
<1>6. RingTypes'
  <2>1. \A u \in Threads : at'[u] <= Len(heap'[ProcOf[u]])
    BY <1>3, <1>4, <1>5 DEF RingTypes
  <2>2. at' \in [Threads -> Nat] /\ wpc' \in [Threads -> WriteLabels]
    BY DEF RingTypes, WriteLabels
  <2>3. \A q \in Procs : \A i \in Slots : buffer'[q][i] <= Len(heap'[q])
    BY <1>3 DEF RingTypes
  <2> QED
    BY <1>3, <2>1, <2>2, <2>3 DEF RingTypes
<1>7. PhaseInv'
  <2>1. p \in born
    BY <1>1 DEF PhaseInv
  <2> QED
    BY <1>1, <1>4, <2>1 DEF PhaseInv
<1>8. ChunkInv'
  <2>1. \A q \in Procs : \A d \in 1 .. Len(heap'[q]) : heap'[q][d].mapped /\ Aligned(heap'[q][d].start)
    BY <1>1, <1>3 DEF ChunkInv
  <2>2. ASSUME NEW u \in Threads, HasChunk(u)'
        PROVE  /\ at'[u] >= 1
               /\ heap'[ProcOf[u]][at'[u]].start <= CurrentCursor(u)'
               /\ CurrentCursor(u)' < heap'[ProcOf[u]][at'[u]].start + ChunkSize
    <3>1. CASE u = t
      BY <1>1, <1>3, <1>4, <1>5, <3>1
    <3>2. CASE u # t
      <4>1. HasChunk(u) /\ at'[u] = at[u]
        BY <1>4, <2>2, <3>2 DEF HasChunk
      <4>2. at[u] \in 1 .. Len(heap[ProcOf[u]])
        BY <1>1, <4>1 DEF ChunkInv, RingTypes
      <4>3. heap'[ProcOf[u]][at[u]].start = heap[ProcOf[u]][at[u]].start
        BY <1>3, <1>5, <4>2
      <4> QED
        BY <1>1, <1>5, <4>1, <4>3 DEF ChunkInv
    <3> QED
      BY <3>1, <3>2
  <2> QED
    BY <1>1, <2>1, <2>2 DEF ChunkInv
<1>9. HeadLockExcludes'
  BY <1>1, <1>4 DEF HeadLockExcludes
<1>10. RefCoversUsers'
  <2> SUFFICES ASSUME NEW q \in Procs, NEW d \in 1 .. Len(heap'[q])
               PROVE  heap'[q][d].ref >= Cardinality(Users(q, d)') + 1
    BY DEF RefCoversUsers
  <2>1. d \in 1 .. Len(heap[q])
    BY <1>3
  <2>2. /\ heap[q][d].ref \in Nat /\ Cardinality(Users(q, d)) \in Nat
        /\ heap[q][d].ref >= Cardinality(Users(q, d)) + 1
    BY <1>1, <2>1, ChunkType, UsersFinite, UserCounts DEF RefCoversUsers
  <2>3. CASE q = p /\ d = c
    <3>1. Users(q, d)' \subseteq Users(q, d) \cup {t}
      BY <1>4 DEF Users
    <3>2. Cardinality(Users(q, d)') \in Nat /\ Cardinality(Users(q, d)') <= Cardinality(Users(q, d)) + 1
      BY <3>1, UsersFinite, UserCounts
    <3>3. heap'[q][d].ref = heap[q][d].ref + 1
      BY <1>3, <2>1, <2>3
    <3> QED
      BY <2>2, <3>2, <3>3
  <2>4. CASE ~(q = p /\ d = c)
    <3>1. Users(q, d)' \subseteq Users(q, d)
      BY <1>4, <2>4 DEF Users
    <3>2. Cardinality(Users(q, d)') \in Nat /\ Cardinality(Users(q, d)') <= Cardinality(Users(q, d))
      BY <3>1, UsersFinite, UserCounts
    <3>3. heap'[q][d].ref = heap[q][d].ref
      BY <1>3, <2>1, <2>4
    <3> QED
      BY <2>2, <3>2, <3>3
  <2> QED
    BY <2>3, <2>4
<1> QED
  BY <1>6, <1>7, <1>8, <1>9, <1>10 DEF RingInv

\* A user goes away: its piece is written, and the position of the next one, if
\* there is one, is in another chunk.
LEMMA UnpinRing ==
  ASSUME RingTypes, RingInv, DataTypes, TypeOK, NEW t \in Threads, Unpin(t)
  PROVE  RingTypes' /\ RingInv'
<1> DEFINE p == ProcOf[t]
           c == at[t]
           n == heap[p][c].ref - 1
<1>1. PhaseInv /\ ChunkInv /\ HeadLockExcludes /\ RefCoversUsers /\ p \in Procs
  BY ThreadsAssumption DEF RingInv
<1>2. /\ pc[t] = "granted" /\ wpc[t] = "unpin"
      /\ SetRef(p, c, n)
      /\ written' = [written EXCEPT ![t] = @ + Piece(t)]
      /\ GotoW(t, IF written'[t] < req[t].size THEN "start" ELSE "clean")
      /\ UNCHANGED <<pc, req, buffer, head, tail, head_locked, born, at>>
  BY DEF Unpin, SetRef, cvars
<1>3. c \in 1 .. Len(heap[p])
  BY <1>1, <1>2 DEF ChunkInv, HasChunk, RingTypes
<1>4. t \in Users(p, c)
  BY <1>2 DEF Users
<1>5. heap[p][c].ref \in Nat /\ n \in Nat
  <2>1. {t} \subseteq Users(p, c)
    BY <1>4
  <2>2. Cardinality({t}) = 1 /\ Cardinality({t}) <= Cardinality(Users(p, c))
    BY <2>1, UsersFinite, UserCounts, FS_Singleton
  <2>3. /\ heap[p][c].ref \in Nat /\ Cardinality(Users(p, c)) \in Nat
        /\ heap[p][c].ref >= Cardinality(Users(p, c)) + 1
    BY <1>1, <1>3, ChunkType, UsersFinite, UserCounts DEF RefCoversUsers
  <2> QED
    BY <2>2, <2>3
<1>6. /\ heap' \in [Procs -> Seq(Chunks)]
      /\ \A q \in Procs : Len(heap'[q]) = Len(heap[q])
      /\ \A q \in Procs : \A d \in 1 .. Len(heap[q]) :
           /\ heap'[q][d].start = heap[q][d].start
           /\ heap'[q][d].mapped = heap[q][d].mapped
           /\ heap'[q][d].ref = IF q = p /\ d = c THEN n ELSE heap[q][d].ref
  <2>1. heap \in [Procs -> Seq(Chunks)]
    BY DEF RingTypes
  <2> HIDE DEF p, c, n
  <2> QED
    BY <1>1, <1>2, <1>3, <1>5, <2>1, RefUpdate
<1>7. /\ wpc'[t] = IF written'[t] < req[t].size THEN "start" ELSE "clean"
      /\ \A u \in Threads \ {t} : wpc'[u] = wpc[u]
  BY <1>2 DEF RingTypes, GotoW
<1>8. /\ written'[t] = written[t] + Piece(t)
      /\ \A u \in Threads \ {t} : written'[u] = written[u] /\ CurrentCursor(u)' = CurrentCursor(u)
  BY <1>2 DEF DataTypes, CurrentCursor
<1>9. written[t] \in Nat /\ req[t].size \in Nat /\ Piece(t) \in Nat /\ written[t] + Piece(t) <= req[t].size
  BY <1>1, <1>2, PieceFits DEF DataTypes, TypeOK, PhaseInv
<1>10. \A u \in Threads : ProcOf[u] \in Procs
  BY ThreadsAssumption
<1>11. RingTypes'
  <2>1. \A u \in Threads : at'[u] <= Len(heap'[ProcOf[u]])
    BY <1>2, <1>6, <1>10 DEF RingTypes
  <2>2. wpc' \in [Threads -> WriteLabels]
    BY <1>2 DEF RingTypes, WriteLabels, GotoW
  <2>3. \A q \in Procs : \A i \in Slots : buffer'[q][i] <= Len(heap'[q])
    BY <1>2, <1>6 DEF RingTypes
  <2> QED
    BY <1>2, <1>6, <2>1, <2>2, <2>3 DEF RingTypes
<1>12. PhaseInv'
  <2>1. /\ wpc'[t] = "clean" => written'[t] = req[t].size
        /\ wpc'[t] # "clean" => written'[t] < req[t].size
    BY <1>7, <1>8, <1>9
  <2>2. p \in born
    BY <1>1, <1>2 DEF PhaseInv
  <2> QED
    BY <1>1, <1>2, <1>7, <1>8, <2>1, <2>2 DEF PhaseInv
<1>13. ChunkInv'
  <2>1. \A q \in Procs : \A d \in 1 .. Len(heap'[q]) : heap'[q][d].mapped /\ Aligned(heap'[q][d].start)
    BY <1>1, <1>6 DEF ChunkInv
  <2>2. ASSUME NEW u \in Threads, HasChunk(u)'
        PROVE  /\ at'[u] >= 1
               /\ heap'[ProcOf[u]][at'[u]].start <= CurrentCursor(u)'
               /\ CurrentCursor(u)' < heap'[ProcOf[u]][at'[u]].start + ChunkSize
    <3>1. u # t
      BY <1>7, <2>2 DEF HasChunk
    <3>2. HasChunk(u) /\ at'[u] = at[u]
      BY <1>2, <1>7, <2>2, <3>1 DEF HasChunk
    <3>3. at[u] \in 1 .. Len(heap[ProcOf[u]])
      BY <1>1, <3>2 DEF ChunkInv, RingTypes
    <3>4. heap'[ProcOf[u]][at[u]].start = heap[ProcOf[u]][at[u]].start
      BY <1>6, <1>10, <3>3
    <3> QED
      BY <1>1, <1>8, <3>1, <3>2, <3>4 DEF ChunkInv
  <2> QED
    BY <1>1, <1>2, <2>1, <2>2 DEF ChunkInv
<1>14. HeadLockExcludes'
  BY <1>1, <1>2, <1>7 DEF HeadLockExcludes
<1>15. RefCoversUsers'
  <2> SUFFICES ASSUME NEW q \in Procs, NEW d \in 1 .. Len(heap'[q])
               PROVE  heap'[q][d].ref >= Cardinality(Users(q, d)') + 1
    BY DEF RefCoversUsers
  <2>1. d \in 1 .. Len(heap[q])
    BY <1>6
  <2>2. /\ heap[q][d].ref \in Nat /\ Cardinality(Users(q, d)) \in Nat
        /\ heap[q][d].ref >= Cardinality(Users(q, d)) + 1
    BY <1>1, <2>1, ChunkType, UsersFinite, UserCounts DEF RefCoversUsers
  <2>3. Users(q, d)' \subseteq Users(q, d) \ {t}
    BY <1>2, <1>7 DEF Users
  <2>4. CASE q = p /\ d = c
    <3>1. Cardinality(Users(q, d)') \in Nat /\ Cardinality(Users(q, d)') + 1 <= Cardinality(Users(q, d))
      BY <1>4, <2>3, <2>4, UsersFinite, UserCounts
    <3>2. heap'[q][d].ref = heap[q][d].ref - 1
      BY <1>6, <2>1, <2>4
    <3> QED
      BY <2>2, <3>1, <3>2
  <2>5. CASE ~(q = p /\ d = c)
    <3>1. Cardinality(Users(q, d)') \in Nat /\ Cardinality(Users(q, d)') <= Cardinality(Users(q, d))
      BY <2>3, UsersFinite, UserCounts
    <3>2. heap'[q][d].ref = heap[q][d].ref
      BY <1>6, <2>1, <2>5
    <3> QED
      BY <2>2, <3>1, <3>2
  <2> QED
    BY <2>4, <2>5
<1> QED
  BY <1>11, <1>12, <1>13, <1>14, <1>15 DEF RingInv

\* A new chunk becomes the head; it holds the position of the thread that made it,
\* and nobody uses it yet.
LEMMA NewChunkRing ==
  ASSUME RingTypes, RingInv, DataTypes, TypeOK, NEW t \in Threads, NEW slot \in Slots,
         pc[t] = "granted", wpc[t] = "find", GotoW(t, "added"),
         heap' = [heap EXCEPT ![ProcOf[t]] = Append(@, NewChunk(CurrentCursor(t)))],
         buffer' = [buffer EXCEPT ![ProcOf[t]][slot] = Len(heap[ProcOf[t]]) + 1],
         head' = [head EXCEPT ![ProcOf[t]] = slot],
         at' = [at EXCEPT ![t] = Len(heap[ProcOf[t]]) + 1],
         UNCHANGED <<cvars, tail, head_locked, born, written>>
  PROVE  RingTypes' /\ RingInv'
<1> USE DEF cvars
<1> DEFINE p == ProcOf[t]
           x == CurrentCursor(t)
           new == NewChunk(x)
           len == Len(heap[p])
<1>1. PhaseInv /\ ChunkInv /\ HeadLockExcludes /\ RefCoversUsers /\ p \in Procs
  BY ThreadsAssumption DEF RingInv
<1>2. x \in Nat /\ len \in Nat
  <2>1. req[t].start \in Nat /\ written[t] \in Nat
    BY DEF DataTypes, TypeOK
  <2>2. heap[p] \in Seq(Chunks)
    BY <1>1 DEF RingTypes
  <2> QED
    BY <2>1, <2>2 DEF CurrentCursor
<1>3. /\ new \in Chunks /\ new.start = (x \div ChunkSize) * ChunkSize /\ new.ref = 1 /\ new.mapped
  BY <1>2, ChunkOfPosition DEF NewChunk, Chunks
<1>4. Aligned(new.start) /\ new.start <= x /\ x < new.start + ChunkSize
  BY <1>2, <1>3, ChunkOfPosition DEF Aligned
<1>5. /\ heap' \in [Procs -> Seq(Chunks)]
      /\ Len(heap'[p]) = len + 1
      /\ heap'[p][len + 1] = new
      /\ \A q \in Procs : q # p => heap'[q] = heap[q]
      /\ \A d \in 1 .. len : heap'[p][d] = heap[p][d]
  <2>1. heap' = [heap EXCEPT ![p] = Append(@, new)] /\ heap \in [Procs -> Seq(Chunks)]
    BY DEF RingTypes
  <2> HIDE DEF new, p
  <2> QED
    BY <1>1, <1>3, <2>1, HeapAppend
<1> HIDE DEF new, x
<1>6. /\ wpc'[t] = "added" /\ at'[t] = len + 1
      /\ \A u \in Threads \ {t} : wpc'[u] = wpc[u] /\ at'[u] = at[u]
  BY DEF RingTypes, GotoW
<1>7. \A u \in Threads : ProcOf[u] \in Procs /\ CurrentCursor(u)' = CurrentCursor(u)
  BY ThreadsAssumption DEF CurrentCursor
<1>8. \A q \in Procs : Len(heap[q]) \in Nat /\ Len(heap'[q]) \in Nat /\ Len(heap'[q]) >= Len(heap[q])
  BY <1>1, <1>2, <1>5 DEF RingTypes
<1>9. RingTypes'
  <2>1. \A u \in Threads : at'[u] <= Len(heap'[ProcOf[u]])
    BY <1>2, <1>5, <1>6, <1>7, <1>8 DEF RingTypes
  <2>2. at' \in [Threads -> Nat] /\ wpc' \in [Threads -> WriteLabels] /\ head' \in [Procs -> Slots]
    <3>1. at' \in [Threads -> Nat]
      BY <1>2 DEF RingTypes
    <3>2. wpc' \in [Threads -> WriteLabels]
      BY DEF RingTypes, WriteLabels, GotoW
    <3>3. head' \in [Procs -> Slots]
      BY DEF RingTypes
    <3> QED
      BY <3>1, <3>2, <3>3
  <2>3. buffer' \in [Procs -> [Slots -> Nat]]
    BY <1>1, <1>2 DEF RingTypes
  <2>4. \A q \in Procs : \A i \in Slots : buffer'[q][i] <= Len(heap'[q])
    <3> SUFFICES ASSUME NEW q \in Procs, NEW i \in Slots PROVE buffer'[q][i] <= Len(heap'[q])
      OBVIOUS
    <3>1. buffer[q][i] \in Nat /\ buffer[q][i] <= Len(heap[q])
      BY DEF RingTypes
    <3>2. buffer'[q][i] = IF q = p /\ i = slot THEN len + 1 ELSE buffer[q][i]
      BY <1>1 DEF RingTypes
    <3> QED
      BY <1>2, <1>5, <1>8, <3>1, <3>2
  <2> QED
    BY <1>5, <2>1, <2>2, <2>3, <2>4 DEF RingTypes
<1>10. PhaseInv'
  <2>1. p \in born
    BY <1>1 DEF PhaseInv
  <2> QED
    BY <1>1, <1>6, <2>1 DEF PhaseInv
<1>11. ChunkInv'
  <2>1. ASSUME NEW q \in Procs, NEW d \in 1 .. Len(heap'[q])
        PROVE  heap'[q][d].mapped /\ Aligned(heap'[q][d].start)
    <3>1. CASE q = p /\ d = len + 1
      BY <1>3, <1>4, <1>5, <3>1
    <3>2. CASE q # p
      BY <1>1, <1>5, <2>1, <3>2 DEF ChunkInv
    <3>3. CASE q = p /\ d # len + 1
      <4>1. d \in 1 .. Len(heap[q]) /\ heap'[q][d] = heap[q][d]
        BY <1>2, <1>5, <2>1, <3>3
      <4> QED
        BY <1>1, <4>1 DEF ChunkInv
    <3> QED
      BY <3>1, <3>2, <3>3
  <2>2. ASSUME NEW u \in Threads, HasChunk(u)'
        PROVE  /\ at'[u] >= 1
               /\ heap'[ProcOf[u]][at'[u]].start <= CurrentCursor(u)'
               /\ CurrentCursor(u)' < heap'[ProcOf[u]][at'[u]].start + ChunkSize
    <3>1. CASE u = t
      <4>1. at'[u] = len + 1 /\ heap'[ProcOf[u]][at'[u]] = new /\ CurrentCursor(u)' = x
        BY <1>5, <1>6, <1>7, <3>1 DEF x
      <4> QED
        BY <1>2, <1>4, <4>1
    <3>2. CASE u # t
      <4>1. HasChunk(u) /\ at'[u] = at[u]
        BY <1>6, <2>2, <3>2 DEF HasChunk
      <4>2. at[u] \in 1 .. Len(heap[ProcOf[u]])
        BY <1>1, <4>1 DEF ChunkInv, RingTypes
      <4>3. heap'[ProcOf[u]][at[u]] = heap[ProcOf[u]][at[u]]
        BY <1>5, <1>7, <4>2
      <4> QED
        BY <1>1, <1>7, <4>1, <4>3 DEF ChunkInv
    <3> QED
      BY <3>1, <3>2
  <2> QED
    BY <1>1, <2>1, <2>2 DEF ChunkInv
<1>12. HeadLockExcludes'
  BY <1>1, <1>6 DEF HeadLockExcludes
<1>13. RefCoversUsers'
  <2> SUFFICES ASSUME NEW q \in Procs, NEW d \in 1 .. Len(heap'[q])
               PROVE  heap'[q][d].ref >= Cardinality(Users(q, d)') + 1
    BY DEF RefCoversUsers
  <2>1. CASE q = p /\ d = len + 1
    <3>1. Users(q, d)' = {}
      <4>1. ASSUME NEW u \in Users(q, d)' PROVE FALSE
        <5>1. u \in Threads /\ ProcOf[u] = p /\ at'[u] = len + 1 /\ wpc'[u] \in {"hit", "copy", "unpin"}
          BY <2>1, <4>1 DEF Users
        <5>2. u # t /\ at[u] = len + 1
          BY <1>6, <5>1
        <5>3. at[u] <= len
          BY <5>1 DEF RingTypes
        <5> QED
          BY <1>2, <5>2, <5>3
      <4> QED
        BY <4>1
    <3>2. heap'[q][d].ref = 1
      BY <1>3, <1>5, <2>1
    <3>3. Cardinality(Users(q, d)') = 0
      BY <3>1, FS_EmptySet
    <3> QED
      BY <3>2, <3>3
  <2>2. CASE ~(q = p /\ d = len + 1)
    <3>1. d \in 1 .. Len(heap[q]) /\ heap'[q][d] = heap[q][d]
      BY <1>2, <1>5, <2>2
    <3>2. Users(q, d)' \subseteq Users(q, d)
      BY <1>6 DEF Users
    <3>3. /\ heap[q][d].ref \in Nat /\ Cardinality(Users(q, d)) \in Nat
          /\ heap[q][d].ref >= Cardinality(Users(q, d)) + 1
      BY <1>1, <3>1, ChunkType, UsersFinite, UserCounts DEF RefCoversUsers
    <3>4. Cardinality(Users(q, d)') \in Nat /\ Cardinality(Users(q, d)') <= Cardinality(Users(q, d))
      BY <3>2, UsersFinite, UserCounts
    <3> QED
      BY <3>1, <3>3, <3>4
  <2> QED
    BY <2>1, <2>2
<1> QED
  BY <1>9, <1>10, <1>11, <1>12, <1>13 DEF RingInv

\* A thread in the reservation, or in mmlog_trim, moves on by itself.
LEMMA CheckoutMoves ==
  ASSUME TypeOK, CallInv, PhaseInv, NEW t \in Threads,
         \/ ProcOf[t] \in born /\ \E size \in Sizes : CheckoutFetchAdd(t, size)
         \/ CheckoutStep(t)
         \/ ProcOf[t] \in born /\ (TrimLoad(t) \/ TrimFtruncate(t))
  PROVE  \A u \in Threads :
           \/ pc'[u] = pc[u] /\ req'[u] = req[u]
           \/ /\ pc[u] \notin {"granted", "dead"} /\ pc'[u] # "dead"
              /\ pc'[u] = "granted" => req'[u].size > 0
              /\ ProcOf[u] \in born
<1> USE DEF Goto, TypeOK, Labels, Critical
<1>1. CASE ProcOf[t] \in born /\ \E size \in Sizes : CheckoutFetchAdd(t, size)
  BY <1>1 DEF CheckoutFetchAdd
<1>2. CASE ProcOf[t] \in born /\ (TrimLoad(t) \/ TrimFtruncate(t))
  BY <1>2 DEF TrimLoad, TrimFtruncate
<1>3. CASE CheckoutStep(t)
  <2>1. /\ pc[t] \notin {"idle", "trim", "granted", "dead"} /\ pc'[t] # "dead"
        /\ \A u \in Threads \ {t} : pc'[u] = pc[u]
        /\ req' = req
    BY <1>3 DEF CheckoutStep, CheckoutLoadSize, ExpandTryLock, ExpandTimeout, ExpandCheckPanic,
      ExpandLoadSize, ExpandFtruncate, ExpandStoreSize, ExpandStorePanic, ExpandUnlock, ExpandReturn
  <2>2. Current(t) \in reserved
    BY <2>1 DEF CallInv, Active
  <2>3. req[t].size \in Sizes
    BY <2>2 DEF Current, Reservations
  <2>4. req[t].size > 0
    BY <2>3, SizesAssumption
  <2> QED
    BY <2>1, <2>4 DEF PhaseInv
<1> QED
  BY <1>1, <1>2, <1>3

\* The steps of mmlog_insert after the reservation keep what holds of the rings.
LEMMA WriteRing ==
  ASSUME RingTypes, RingInv, DataTypes, TypeOK, NEW t \in Threads, WriteStep(t)
  PROVE  RingTypes' /\ RingInv'
<1>1. PhaseInv /\ ChunkInv /\ ProcOf[t] \in Procs /\ tail[ProcOf[t]] = NULL
  BY ThreadsAssumption DEF RingInv, ChunkInv
<1>2. head[ProcOf[t]] \in Slots
  BY <1>1 DEF RingTypes
<1>3. ~Reapable(ProcOf[t])
  BY <1>1 DEF Reapable
<1>4. CASE InsertInvalid(t)
  BY <1>4, ReturnRing DEF InsertInvalid, ring, HoldsHead
<1>5. CASE Pwrite(t)
  <2>1. PICK n : Finish(t, n = req[t].size)
    BY <1>5 DEF Pwrite
  <2> QED
    BY <1>5, <2>1, ReturnRing DEF Pwrite, ring, HoldsHead
<1>6. CASE LockHead(t)
  <2>1. /\ pc[t] = "granted" /\ wpc[t] \in {"start", "relock"}
        /\ UNCHANGED <<cvars, heap, buffer, head, tail, born, written, at>>
        /\ \/ ~head_locked[ProcOf[t]] /\ GotoW(t, "find")
              /\ head_locked' = [head_locked EXCEPT ![ProcOf[t]] = TRUE]
           \/ GotoW(t, "relock") /\ UNCHANGED head_locked
    BY <1>6 DEF LockHead
  <2>2. /\ buffer' \in [Procs -> [Slots -> Nat]]
        /\ \A p \in Procs : \A i \in Slots : buffer'[p][i] <= Len(heap[p])
    BY <2>1 DEF RingTypes
  <2>3. GotoW(t, "relock") => ~HoldsHead(t)'
    BY DEF GotoW, HoldsHead, RingTypes
  <2>4. {"find", "relock"} \subseteq WriteLabels
    BY DEF WriteLabels
  <2> QED
    BY <2>1, <2>2, <2>3, <2>4, MoveRing
<1>7. CASE LockTimeout(t)
  BY <1>7, ReturnRing DEF LockTimeout, ring, HoldsHead
<1>8. CASE FindChunk(t)
  <2> DEFINE p == ProcOf[t]
             c == buffer[p][head[p]]
  <2>1. c \in Nat /\ c <= Len(heap[p])
    BY <1>1, <1>2 DEF RingTypes
  <2>2. /\ pc[t] = "granted" /\ wpc[t] = "find" /\ GotoW(t, "hit")
        /\ c # 0 /\ heap[p][c].start <= CurrentCursor(t)
        /\ CurrentCursor(t) < heap[p][c].start + ChunkSize
        /\ SetRef(p, c, heap[p][c].ref + 1) /\ at' = [at EXCEPT ![t] = c]
        /\ UNCHANGED <<cvars, buffer, head, tail, head_locked, born, written>>
    BY <1>8 DEF FindChunk, InChunk, SetRef
  <2>3. c \in 1 .. Len(heap[p])
    <3>1. Len(heap[p]) \in Nat
      BY <1>1 DEF RingTypes
    <3>2. c # 0
      BY <2>2
    <3> HIDE DEF c
    <3> QED
      BY <2>1, <3>1, <3>2
  <2> HIDE DEF c
  <2> QED
    BY <2>2, <2>3, PinRing
<1>9. CASE AddNewChunk(t)
  <2> DEFINE p == ProcOf[t]
             slot == NextSlot(head[p])
  <2>1. slot \in Slots /\ slot # tail[p]
    BY <1>1, <1>2, SlotFacts
  <2>2. /\ pc[t] = "granted" /\ wpc[t] = "find" /\ UNCHANGED tail
        /\ UNCHANGED <<cvars, head_locked, born, written>>
    BY <1>9, <2>1 DEF AddNewChunk
  <2> DEFINE success ==
               /\ heap' = [heap EXCEPT ![p] = Append(@, NewChunk(CurrentCursor(t)))]
               /\ buffer' = [buffer EXCEPT ![p][slot] = Len(heap[p]) + 1]
               /\ head' = [head EXCEPT ![p] = slot]
               /\ at' = [at EXCEPT ![t] = Len(heap[p]) + 1]
               /\ GotoW(t, "added")
             failure ==
               /\ buffer' = [buffer EXCEPT ![p][slot] = 0]
               /\ GotoW(t, "nochunk")
               /\ UNCHANGED <<heap, head, at>>
  <2>3. success \/ failure
    BY <1>9, <2>1 DEF AddNewChunk
  <2> HIDE DEF slot
  <2>4. CASE success
    BY <2>1, <2>2, <2>4, NewChunkRing
  <2>5. CASE failure
    <3>1. buffer' \in [Procs -> [Slots -> Nat]]
      BY <1>1, <2>1, <2>5 DEF RingTypes
    <3>2. \A q \in Procs : \A i \in Slots : buffer'[q][i] <= Len(heap[q])
      <4> SUFFICES ASSUME NEW q \in Procs, NEW i \in Slots PROVE buffer'[q][i] <= Len(heap[q])
        OBVIOUS
      <4>1. buffer'[q][i] = 0 \/ buffer'[q][i] = buffer[q][i]
        BY <1>1, <2>1, <2>5 DEF RingTypes
      <4>2. Len(heap[q]) \in Nat /\ buffer[q][i] <= Len(heap[q])
        BY DEF RingTypes
      <4> QED
        BY <4>1, <4>2
    <3>3. HoldsHead(t)
      BY <2>2 DEF HoldsHead
    <3>4. "nochunk" \in WriteLabels
      BY DEF WriteLabels
    <3> QED
      BY <2>2, <2>5, <3>1, <3>2, <3>3, <3>4, MoveRing
  <2> QED
    BY <2>3, <2>4, <2>5
<1>10. CASE UnlockHead(t)
  <2>1. /\ pc[t] = "granted" /\ head_locked' = [head_locked EXCEPT ![ProcOf[t]] = FALSE]
        /\ UNCHANGED <<heap, buffer, head, tail, born, at>>
        /\ \/ wpc[t] = "hit" /\ GotoW(t, "copy") /\ UNCHANGED <<cvars, written>>
           \/ wpc[t] = "added" /\ GotoW(t, "pin") /\ UNCHANGED <<cvars, written>>
           \/ wpc[t] = "nochunk" /\ Finish(t, FALSE)
    BY <1>10 DEF UnlockHead
  <2>2. HoldsHead(t)
    BY <2>1 DEF HoldsHead
  <2>3. CASE wpc[t] = "nochunk" /\ Finish(t, FALSE)
    BY <2>1, <2>2, <2>3, ReturnRing
  <2>4. /\ buffer' \in [Procs -> [Slots -> Nat]]
        /\ \A p \in Procs : \A i \in Slots : buffer'[p][i] <= Len(heap[p])
    BY <2>1 DEF RingTypes
  <2>5. \A l \in {"copy", "pin"} : l \in WriteLabels /\ (GotoW(t, l) => ~HoldsHead(t)')
    BY DEF GotoW, HoldsHead, RingTypes, WriteLabels
  <2>6. CASE wpc[t] = "hit" /\ GotoW(t, "copy") /\ UNCHANGED <<cvars, written>>
    BY <2>1, <2>2, <2>4, <2>5, <2>6, MoveRing
  <2>7. CASE wpc[t] = "added" /\ GotoW(t, "pin") /\ UNCHANGED <<cvars, written>>
    BY <2>1, <2>2, <2>4, <2>5, <2>7, MoveRing
  <2> QED
    BY <2>1, <2>3, <2>6, <2>7
<1>11. CASE Pin(t)
  <2> DEFINE c == at[t]
  <2>1. /\ pc[t] = "granted" /\ wpc[t] = "pin" /\ GotoW(t, "copy")
        /\ SetRef(ProcOf[t], c, heap[ProcOf[t]][c].ref + 1)
        /\ UNCHANGED <<cvars, buffer, head, tail, head_locked, born, written, at>>
    BY <1>11 DEF Pin, SetRef
  <2>2. HasChunk(t)
    BY <2>1 DEF HasChunk
  <2>3. /\ c \in 1 .. Len(heap[ProcOf[t]])
        /\ heap[ProcOf[t]][c].start <= CurrentCursor(t)
        /\ CurrentCursor(t) < heap[ProcOf[t]][c].start + ChunkSize
    <3>1. Len(heap[ProcOf[t]]) \in Nat /\ c \in Nat /\ c <= Len(heap[ProcOf[t]])
      BY <1>1 DEF RingTypes
    <3> QED
      BY <1>1, <2>2, <3>1 DEF ChunkInv
  <2>4. at' = [at EXCEPT ![t] = c]
    BY <2>1 DEF RingTypes
  <2> HIDE DEF c
  <2> QED
    BY <2>1, <2>3, <2>4, PinRing
<1>12. CASE Copy(t)
  <2>1. /\ pc[t] = "granted" /\ wpc[t] = "copy" /\ GotoW(t, "unpin")
        /\ UNCHANGED <<cvars, heap, buffer, head, tail, head_locked, born, written, at>>
    BY <1>12 DEF Copy, ring
  <2>2. /\ buffer' \in [Procs -> [Slots -> Nat]]
        /\ \A p \in Procs : \A i \in Slots : buffer'[p][i] <= Len(heap[p])
    BY <2>1 DEF RingTypes
  <2>3. "unpin" \in WriteLabels /\ ~HoldsHead(t)'
    BY <2>1 DEF WriteLabels, GotoW, HoldsHead, RingTypes
  <2> QED
    BY <2>1, <2>2, <2>3, MoveRing
<1>13. CASE BusError(t)
  <2>1. ProcOf[t] \in born /\ Die(ProcOf[t])
    BY <1>1, <1>13 DEF BusError, PhaseInv
  <2> QED
    BY <1>1, <2>1, DeathRing
<1>14. CASE Unpin(t)
  BY <1>14, UnpinRing
<1>15. CASE Clean(t)
  <2>1. /\ pc[t] = "granted" /\ wpc[t] = "clean" /\ Finish(t, TRUE)
        /\ UNCHANGED <<heap, buffer, head, tail, head_locked, born, at>>
    BY <1>3, <1>15 DEF Clean
  <2> QED
    BY <2>1, ReturnRing DEF HoldsHead
<1> QED
  BY <1>4, <1>5, <1>6, <1>7, <1>8, <1>9, <1>10, <1>11, <1>12, <1>13, <1>14, <1>15 DEF WriteStep

\* The ring part of the invariant is inductive.
LEMMA RingStep ==
  ASSUME BaseInv, RingTypes, RingInv, DataTypes, [MMLogNext]_vars
  PROVE  RingTypes' /\ RingInv'
<1>1. TypeOK /\ CallInv /\ PhaseInv
  BY DEF BaseInv, IInv, RingInv
<1>2. ASSUME NEW t \in Threads, NEW size \in Sizes, Insert(t, size) PROVE RingTypes' /\ RingInv'
  BY <1>1, <1>2, CheckoutMoves, QuietRing DEF Insert, wvars
<1>3. ASSUME NEW t \in Threads, InsertCheckout(t) PROVE RingTypes' /\ RingInv'
  BY <1>1, <1>3, CheckoutMoves, QuietRing DEF InsertCheckout
<1>4. ASSUME NEW t \in Threads, Trim(t) PROVE RingTypes' /\ RingInv'
  BY <1>1, <1>4, CheckoutMoves, QuietRing DEF Trim
<1>5. ASSUME NEW t \in Threads, WriteStep(t) PROVE RingTypes' /\ RingInv'
  BY <1>1, <1>5, WriteRing
<1>6. ASSUME NEW p \in Procs, Kill(p) PROVE RingTypes' /\ RingInv'
  BY <1>1, <1>6, DeathRing DEF Kill
<1>7. ASSUME NEW p \in Procs, NEW q \in Procs, Fork(p, q) PROVE RingTypes' /\ RingInv'
  BY <1>7, ForkRing
<1>8. CASE UNCHANGED vars
  BY <1>8, QuietRing DEF vars, cvars, wvars
<1> QED
  BY <1>2, <1>3, <1>4, <1>5, <1>6, <1>7, <1>8 DEF MMLogNext

-----------------------------------------------------------------------------
(* The contents *)

\* A cell changes to what the call that owns it writes there, or is cut off.
CellsMove ==
  /\ content' \in [FileCells -> {Hole} \cup [owner : Threads, call : Nat]]
  /\ \A c \in FileCells :
       \/ content'[c] = content[c]
       \/ content'[c] = Hole /\ trimmed'
       \/ \E t \in Threads :
            pc[t] = "granted" /\ c \in Cells(Current(t)) /\ content'[c] = Mark(t)

\* A thread comes to write its message, goes on with it, having copied a piece
\* when it says so, or counts the piece that it copied.
ThreadMoves(t) ==
  /\ pc'[t] = "dead" => written'[t] = written[t] /\ req'[t] = req[t]
  /\ pc'[t] = "granted" =>
       \/ wpc'[t] = "start" /\ written'[t] = 0
       \/ /\ pc[t] = "granted" /\ req'[t] = req[t] /\ calls'[t] = calls[t]
          /\ \/ /\ written'[t] = written[t]
                /\ wpc'[t] = "unpin" =>
                     \/ wpc[t] = "unpin"
                     \/ ~trimmed' => \A c \in PieceCells(t) : content'[c] = Mark(t)
             \/ /\ wpc[t] = "unpin" /\ wpc'[t] # "unpin"
                /\ written'[t] = written[t] + Piece(t)

\* A call that returns true has written its range.
CommitMoves ==
  \/ committed' = committed
  \/ \E t \in Threads :
       /\ pc[t] = "granted" /\ pc'[t] = "idle"
       /\ committed' = committed \cup {Current(t)}
       /\ ~trimmed' => \A c \in Cells(Current(t)) : content'[c] = Mark(t)

\* What a step can do to the contents and to the writes under way.
DataMoves ==
  /\ written' \in [Threads -> Nat]
  /\ CellsMove
  /\ \A t \in Threads : ThreadMoves(t)
  /\ CommitMoves

\* The range of a granted thread lies in the file until a trim, and its cells are
\* cells of the log.
LEMMA GrantedRange ==
  ASSUME IInv, NEW t \in Threads
  PROVE  /\ Cells(Current(t)) = req[t].start .. (End(t) - 1)
         /\ req[t].start \in Nat /\ req[t].size \in Nat /\ End(t) \in Nat
         /\ Cells(Current(t)) \subseteq FileCells
         /\ pc[t] = "granted" /\ ~trimmed => End(t) <= phys
<1>1. req[t].start \in Nat /\ req[t].size \in Nat /\ End(t) \in Nat /\ End(t) <= MaxCursor
  BY DEF IInv, TypeOK, End
<1>2. Cells(Current(t)) = req[t].start .. (End(t) - 1)
  <2>1. Current(t).start = req[t].start /\ Current(t).size = req[t].size
    BY DEF Current
  <2>2. \A r : Cells(r) = r.start .. (r.start + r.size - 1)
    BY DEF Cells
  <2>3. Cells(Current(t)) = req[t].start .. (req[t].start + req[t].size - 1)
    BY <2>1, <2>2
  <2>4. req[t].start + req[t].size - 1 = End(t) - 1
    BY <1>1 DEF End
  <2> QED
    BY <2>3, <2>4, Zenon
<1>3. pc[t] = "granted" /\ ~trimmed => End(t) <= phys
  BY <1>1 DEF IInv, TypeOK, CheckoutInv, CoverInv, SizeInv
<1>4. Cells(Current(t)) \subseteq FileCells
  BY <1>1, <1>2, SizesAssumption DEF FileCells
<1> QED
  BY <1>1, <1>2, <1>3, <1>4

\* So does the piece that it writes next.
LEMMA PieceInRange ==
  ASSUME IInv, PhaseInv, DataTypes, NEW t \in Threads, pc[t] = "granted", wpc[t] # "clean"
  PROVE  /\ PieceCells(t) \subseteq Cells(Current(t))
         /\ CurrentCursor(t) \in Nat /\ Piece(t) \in Nat
         /\ CurrentCursor(t) + Piece(t) <= End(t)
         /\ CurrentCursor(t) = req[t].start + written[t]
<1>1. req[t] \in [start : Nat, size : Nat] /\ written[t] \in Nat /\ written[t] < req[t].size
  BY DEF IInv, TypeOK, DataTypes, PhaseInv
<1>2. /\ CurrentCursor(t) \in Nat /\ Piece(t) \in Nat
      /\ CurrentCursor(t) + Piece(t) <= End(t)
  BY <1>1, PieceFits
<1>3. CurrentCursor(t) = req[t].start + written[t] /\ req[t].start \in Nat /\ End(t) \in Nat
  BY <1>1, GrantedRange DEF CurrentCursor
<1>4. PieceCells(t) = CurrentCursor(t) .. (CurrentCursor(t) + Piece(t) - 1)
  BY DEF PieceCells
<1>5. Cells(Current(t)) = req[t].start .. (End(t) - 1)
  BY GrantedRange
<1>6. PieceCells(t) \subseteq Cells(Current(t))
  BY <1>1, <1>2, <1>3, <1>4, <1>5
<1> QED
  BY <1>2, <1>3, <1>6

\* A store in cells of its own range is a move of the cells.
LEMMA StoreMoves ==
  ASSUME IInv, DataTypes, NEW t \in Threads, pc[t] = "granted",
         NEW S, S \subseteq Cells(Current(t)), content' = Store(t, S)
  PROVE  CellsMove /\ \A c \in S : content'[c] = Mark(t)
<1>1. Mark(t) \in [owner : Threads, call : Nat]
  BY DEF Mark, IInv, TypeOK
<1>2. content' = [c \in FileCells |-> IF c \in S THEN Mark(t) ELSE content[c]]
  BY DEF Store
<1>3. content' \in [FileCells -> {Hole} \cup [owner : Threads, call : Nat]]
  BY <1>1, <1>2 DEF DataTypes
<1>4. S \subseteq FileCells
  BY GrantedRange
<1> QED
  BY <1>2, <1>3, <1>4 DEF CellsMove

\* Until a trim, only what nobody wrote is cut off.
LEMMA CutMoves ==
  ASSUME IInv, DataInv, DataTypes,
         content' = IF phys' = phys THEN content ELSE Cut(phys'),
         phys' \in Nat, trimmed => trimmed', ~trimmed' => phys' >= phys
  PROVE  CellsMove
<1>1. CASE phys' = phys
  BY <1>1 DEF CellsMove, DataTypes
<1>2. CASE phys' # phys
  <2>1. content' = [c \in FileCells |-> IF c < phys' THEN content[c] ELSE Hole]
    BY <1>2 DEF Cut
  <2>2. content' \in [FileCells -> {Hole} \cup [owner : Threads, call : Nat]]
    BY <2>1 DEF DataTypes
  <2>3. ASSUME NEW c \in FileCells, ~trimmed' PROVE content'[c] = content[c]
    <3>1. c \in Nat /\ phys \in Nat
      BY SizesAssumption DEF FileCells, IInv, TypeOK
    <3>2. content[c] # Hole => c < phys
      BY <2>3 DEF DataInv, WrittenInv
    <3> QED
      BY <2>1, <2>3, <3>1, <3>2
  <2> QED
    BY <2>1, <2>2, <2>3 DEF CellsMove
<1> QED
  BY <1>1, <1>2

\* Steps that leave the contents, the commits and what is written alone.
LEMMA StillMoves ==
  ASSUME DataTypes, UNCHANGED <<content, written, committed>>,
         \A u \in Threads : pc'[u] = "dead" => req'[u] = req[u],
         \A u \in Threads : pc'[u] = "granted" =>
           \/ wpc'[u] = "start" /\ written[u] = 0
           \/ /\ pc[u] = "granted" /\ req'[u] = req[u] /\ calls'[u] = calls[u]
              /\ wpc'[u] = "unpin" => wpc[u] = "unpin"
  PROVE  DataMoves
BY DEF DataMoves, CellsMove, ThreadMoves, CommitMoves, DataTypes

\* mmlog_insert returns.
LEMMA ReturnMoves ==
  ASSUME IInv, RingTypes, DataTypes, CellsMove, NEW t \in Threads, NEW success \in BOOLEAN,
         Finish(t, success), pc[t] \in {"granted", "failed"}, success => pc[t] = "granted",
         success /\ ~trimmed' => \A c \in Cells(Current(t)) : content'[c] = Mark(t)
  PROVE  DataMoves
<1>1. /\ written' = [written EXCEPT ![t] = 0] /\ UNCHANGED <<req, calls>>
      /\ GotoW(t, "start") /\ Goto(t, "idle")
      /\ committed' = IF success THEN committed \cup {Current(t)} ELSE committed
  BY DEF Finish
<1>2. pc'[t] = "idle" /\ \A u \in Threads \ {t} :
        pc'[u] = pc[u] /\ wpc'[u] = wpc[u] /\ written'[u] = written[u]
  BY <1>1 DEF Goto, GotoW, IInv, TypeOK, RingTypes, DataTypes
<1>3. \A u \in Threads : ThreadMoves(u)
  BY <1>1, <1>2 DEF ThreadMoves
<1>4. written' \in [Threads -> Nat]
  BY <1>1 DEF DataTypes
<1>5. CommitMoves
  BY <1>1, <1>2 DEF CommitMoves
<1> QED
  BY <1>3, <1>4, <1>5 DEF DataMoves

\* A process dies in the middle of its memcpy's.
LEMMA DeathMoves ==
  ASSUME IInv, PhaseInv, DataTypes, NEW p \in Procs, Die(p)
  PROVE  DataMoves
<1> DEFINE copying == {t \in Threads : ProcOf[t] = p /\ pc[t] = "granted" /\ wpc[t] = "copy"}
<1>1. PICK done \in SUBSET {c \in UNION {PieceCells(t) : t \in copying} : c < phys} :
        content' = [c \in FileCells |->
                      IF c \in done
                      THEN Mark(CHOOSE t \in copying : c \in PieceCells(t))
                      ELSE content[c]]
  BY DEF Die
<1>2. /\ UNCHANGED <<req, calls, trimmed, wpc, written, committed>>
      /\ \A u \in Threads : pc'[u] = "dead" \/ pc'[u] = pc[u]
  BY DEF Die
<1>3. ASSUME NEW c \in done
      PROVE  \E t \in Threads : /\ pc[t] = "granted" /\ c \in Cells(Current(t))
                                /\ Mark(CHOOSE u \in copying : c \in PieceCells(u)) = Mark(t)
  <2> DEFINE t == CHOOSE u \in copying : c \in PieceCells(u)
  <2>1. \E u \in copying : c \in PieceCells(u)
    BY <1>3
  <2>2. t \in copying /\ c \in PieceCells(t)
    BY <2>1
  <2> HIDE DEF t
  <2>3. t \in Threads /\ pc[t] = "granted" /\ wpc[t] # "clean"
    BY <2>2
  <2>4. c \in Cells(Current(t))
    BY <2>2, <2>3, PieceInRange
  <2> QED
    BY <2>3, <2>4 DEF t
<1>4. \A t \in Threads : Mark(t) \in [owner : Threads, call : Nat]
  BY DEF Mark, IInv, TypeOK
<1> HIDE DEF copying
<1>5. content' \in [FileCells -> {Hole} \cup [owner : Threads, call : Nat]]
  <2>1. \A c \in FileCells : content[c] \in {Hole} \cup [owner : Threads, call : Nat]
    BY DEF DataTypes
  <2>2. \A c \in done : Mark(CHOOSE t \in copying : c \in PieceCells(t)) \in [owner : Threads, call : Nat]
    BY <1>3, <1>4
  <2> QED
    BY <1>1, <2>1, <2>2
<1>6. ASSUME NEW c \in FileCells
      PROVE  content'[c] = content[c] \/ \E t \in Threads :
               pc[t] = "granted" /\ c \in Cells(Current(t)) /\ content'[c] = Mark(t)
  BY <1>1, <1>3
<1>7. CellsMove
  BY <1>5, <1>6 DEF CellsMove
<1>8. \A t \in Threads : ThreadMoves(t)
  BY <1>2 DEF ThreadMoves
<1> QED
  BY <1>2, <1>7, <1>8 DEF DataMoves, CommitMoves, DataTypes

\* Until a trim the file only grows, and a trim is remembered.
LEMMA FileGrows ==
  ASSUME IInv, [MMLogNext]_vars
  PROVE  (trimmed => trimmed') /\ (~trimmed' => phys' >= phys)
<1>1. phys \in Nat
  BY DEF IInv, TypeOK
<1>2. CASE [Next]_cvars
  <2>1. [~trimmed' => phys' >= phys]_phys
    BY <1>2, GrowStep
  <2>2. UNCHANGED trimmed \/ trimmed'
    BY <1>2 DEF Next, CheckoutFetchAdd, CheckoutStep, CheckoutLoadSize, ExpandTryLock,
      ExpandTimeout, ExpandCheckPanic, ExpandLoadSize, ExpandFtruncate, ExpandStoreSize,
      ExpandStorePanic, ExpandUnlock, ExpandReturn, Return, TrimLoad, TrimFtruncate, Crash, cvars
  <2> QED
    BY <1>1, <2>1, <2>2
<1>3. ASSUME NEW t \in Threads, Pwrite(t)
      PROVE  (trimmed => trimmed') /\ (~trimmed' => phys' >= phys)
  BY <1>3, PwriteFrame
<1>4. ASSUME NEW p \in Procs, Die(p)
      PROVE  (trimmed => trimmed') /\ (~trimmed' => phys' >= phys)
  BY <1>1, <1>4 DEF Die, meta
<1> QED
  BY <1>2, <1>3, <1>4, StepKinds

\* What the steps after the reservation do to the contents.
LEMMA WriteMoves ==
  ASSUME IInv, RingTypes, RingInv, DataTypes, DataInv,
         trimmed => trimmed', NEW t \in Threads, WriteStep(t)
  PROVE  DataMoves
<1>1. PhaseInv /\ ChunkInv /\ ProcOf[t] \in Procs /\ tail[ProcOf[t]] = NULL
  BY ThreadsAssumption DEF RingInv, ChunkInv
<1>2. ASSUME UNCHANGED content PROVE CellsMove
  BY <1>2 DEF CellsMove, DataTypes
<1>3. CASE InsertInvalid(t)
  BY <1>2, <1>3, ReturnMoves DEF InsertInvalid
<1>4. CASE LockTimeout(t)
  BY <1>2, <1>4, ReturnMoves DEF LockTimeout
<1>5. CASE Pwrite(t)
  <2>1. PICK n \in 0 .. req[t].size :
          /\ content' = Store(t, req[t].start .. ((req[t].start + n) - 1))
          /\ Finish(t, n = req[t].size)
    BY <1>5 DEF Pwrite
  <2> DEFINE S == req[t].start .. ((req[t].start + n) - 1)
  <2>2. pc[t] = "granted"
    BY <1>5 DEF Pwrite
  <2>3. /\ Cells(Current(t)) = req[t].start .. (End(t) - 1)
        /\ req[t].start \in Nat /\ req[t].size \in Nat
    BY GrantedRange
  <2>4. S \subseteq Cells(Current(t)) /\ (n = req[t].size => S = Cells(Current(t)))
    BY <2>3 DEF End
  <2>5. CellsMove /\ \A c \in S : content'[c] = Mark(t)
    <3> HIDE DEF S
    <3> QED
      BY <2>1, <2>2, <2>4, StoreMoves DEF S
  <2> QED
    BY <2>1, <2>2, <2>4, <2>5, ReturnMoves
<1>6. CASE Clean(t)
  <2>1. ~Reapable(ProcOf[t])
    BY <1>1 DEF Reapable
  <2>2. pc[t] = "granted" /\ wpc[t] = "clean" /\ Finish(t, TRUE) /\ UNCHANGED content
    BY <1>6, <2>1 DEF Clean
  <2>3. CurrentCursor(t) = End(t)
    BY <1>1, <2>2 DEF PhaseInv, CurrentCursor, End
  <2>4. ~trimmed => \A c \in Cells(Current(t)) : content[c] = Mark(t)
    BY <2>2, <2>3, GrantedRange DEF DataInv, WrittenInv
  <2> QED
    BY <1>2, <2>2, <2>4, ReturnMoves
<1>7. CASE Copy(t)
  <2>1. PICK lost \in {{}, {c \in PieceCells(t) : c >= phys}} :
          content' = Store(t, PieceCells(t) \ lost)
    BY <1>7 DEF Copy
  <2>2. /\ pc[t] = "granted" /\ wpc[t] = "copy" /\ GotoW(t, "unpin")
        /\ UNCHANGED <<pc, req, calls, trimmed, written, committed>>
    BY <1>7 DEF Copy, cvars
  <2>3. /\ PieceCells(t) \subseteq Cells(Current(t))
        /\ CurrentCursor(t) \in Nat /\ Piece(t) \in Nat
        /\ CurrentCursor(t) + Piece(t) <= End(t)
    BY <1>1, <2>2, PieceInRange
  <2>4. CellsMove /\ \A c \in PieceCells(t) \ lost : content'[c] = Mark(t)
    BY <2>1, <2>2, <2>3, StoreMoves
  <2>5. ASSUME ~trimmed PROVE \A c \in PieceCells(t) : c \notin lost
    <3>1. End(t) <= phys /\ End(t) \in Nat /\ phys \in Nat
      BY <2>2, <2>5, GrantedRange DEF IInv, TypeOK
    <3>2. \A c \in PieceCells(t) : c < phys /\ c \in Int
      BY <2>3, <3>1 DEF PieceCells
    <3> QED
      BY <2>1, <3>1, <3>2
  <2>6. wpc'[t] = "unpin" /\ \A u \in Threads \ {t} : wpc'[u] = wpc[u]
    BY <2>2 DEF GotoW, RingTypes
  <2>7. \A u \in Threads : ThreadMoves(u)
    BY <2>2, <2>4, <2>5, <2>6 DEF ThreadMoves
  <2> QED
    BY <2>2, <2>4, <2>7 DEF DataMoves, CommitMoves, DataTypes
<1>8. CASE Unpin(t)
  <2>1. /\ pc[t] = "granted" /\ wpc[t] = "unpin"
        /\ written' = [written EXCEPT ![t] = @ + Piece(t)]
        /\ GotoW(t, IF written'[t] < req[t].size THEN "start" ELSE "clean")
        /\ UNCHANGED <<pc, req, calls, content, committed>>
    BY <1>8 DEF Unpin, cvars
  <2>2. Piece(t) \in Nat
    BY <1>1, <2>1, PieceInRange
  <2>3. /\ written'[t] = written[t] + Piece(t) /\ wpc'[t] # "unpin"
        /\ \A u \in Threads \ {t} : wpc'[u] = wpc[u] /\ written'[u] = written[u]
    BY <2>1 DEF GotoW, RingTypes, DataTypes
  <2>4. \A u \in Threads : ThreadMoves(u)
    BY <2>1, <2>3 DEF ThreadMoves
  <2>5. written' \in [Threads -> Nat]
    BY <2>1, <2>2 DEF DataTypes
  <2> QED
    BY <1>2, <2>1, <2>4, <2>5 DEF DataMoves, CommitMoves
<1>9. CASE BusError(t)
  BY <1>1, <1>9, DeathMoves DEF BusError
<1>10. CASE wpc[t] = "nochunk" /\ UnlockHead(t)
  BY <1>2, <1>10, ReturnMoves DEF UnlockHead
<1>11. CASE \/ LockHead(t) \/ FindChunk(t) \/ AddNewChunk(t) \/ Pin(t)
            \/ wpc[t] # "nochunk" /\ UnlockHead(t)
  <2>1. /\ UNCHANGED <<pc, req, calls, content, written, committed>>
        /\ \E l \in {"find", "relock", "hit", "added", "nochunk", "copy", "pin"} : GotoW(t, l)
    <3>1. CASE LockHead(t)
      BY <3>1 DEF LockHead, cvars
    <3>2. CASE FindChunk(t)
      BY <3>2 DEF FindChunk, cvars
    <3>3. CASE AddNewChunk(t)
      <4>1. ~Reapable(ProcOf[t])
        BY <1>1 DEF Reapable
      <4> QED
        BY <3>3, <4>1 DEF AddNewChunk, cvars
    <3>4. CASE Pin(t)
      BY <3>4 DEF Pin, cvars
    <3>5. CASE wpc[t] # "nochunk" /\ UnlockHead(t)
      BY <3>5 DEF UnlockHead, cvars
    <3> QED
      BY <1>11, <3>1, <3>2, <3>3, <3>4, <3>5
  <2>2. \A u \in Threads : wpc'[u] = "unpin" => wpc[u] = "unpin"
    BY <2>1 DEF GotoW, RingTypes
  <2> QED
    BY <2>1, <2>2, StillMoves
<1> QED
  BY <1>3, <1>4, <1>5, <1>6, <1>7, <1>8, <1>9, <1>10, <1>11 DEF WriteStep

\* What every step does to the contents.
LEMMA StepMoves ==
  ASSUME BaseInv, RingTypes, RingInv, DataTypes, DataInv, [MMLogNext]_vars
  PROVE  DataMoves
<1>1. IInv /\ TypeOK /\ CallInv /\ PhaseInv /\ RingTypes /\ DataTypes /\ (trimmed => trimmed')
  BY FileGrows DEF BaseInv, IInv, RingInv
<1>2. phys' \in Nat /\ (~trimmed' => phys' >= phys)
  BY <1>1, BaseStep, FileGrows DEF BaseInv, IInv, TypeOK
<1>3. ASSUME UNCHANGED <<wpc, written>>,
             \A u \in Threads :
               \/ pc'[u] = pc[u] /\ req'[u] = req[u]
               \/ /\ pc[u] \notin {"granted", "dead"} /\ pc'[u] # "dead"
                  /\ pc'[u] = "granted" => req'[u].size > 0
                  /\ ProcOf[u] \in born,
             \A u \in Threads : pc[u] = "granted" => calls'[u] = calls[u]
      PROVE  \A u \in Threads : ThreadMoves(u)
  BY <1>1, <1>3 DEF ThreadMoves, PhaseInv
<1>4. ASSUME NEW t \in Threads, NEW size \in Sizes, Insert(t, size) PROVE DataMoves
  <2>1. \A u \in Threads : pc[u] = "granted" => calls'[u] = calls[u]
    BY <1>1, <1>4 DEF Insert, CheckoutFetchAdd, TypeOK
  <2>2. \A u \in Threads : ThreadMoves(u)
    BY <1>1, <1>3, <1>4, <2>1, CheckoutMoves DEF Insert, wvars
  <2> QED
    BY <1>1, <1>4, <2>2 DEF Insert, wvars, DataMoves, CellsMove, CommitMoves, DataTypes
<1>5. ASSUME NEW t \in Threads, InsertCheckout(t) PROVE DataMoves
  <2>1. UNCHANGED calls
    BY <1>5 DEF InsertCheckout, CheckoutStep, CheckoutLoadSize, ExpandTryLock, ExpandTimeout,
      ExpandCheckPanic, ExpandLoadSize, ExpandFtruncate, ExpandStoreSize, ExpandStorePanic,
      ExpandUnlock, ExpandReturn
  <2>2. \A u \in Threads : ThreadMoves(u)
    BY <1>1, <1>3, <1>5, <2>1, CheckoutMoves DEF InsertCheckout
  <2>3. CellsMove
    BY <1>1, <1>2, <1>5, CutMoves DEF InsertCheckout
  <2> QED
    BY <1>1, <1>5, <2>2, <2>3 DEF InsertCheckout, DataMoves, CommitMoves, DataTypes
<1>6. ASSUME NEW t \in Threads, Trim(t) PROVE DataMoves
  <2>1. \A u \in Threads : pc[u] = "granted" => calls'[u] = calls[u]
    BY <1>1, <1>6 DEF Trim, TrimLoad, TrimFtruncate, TypeOK
  <2>2. \A u \in Threads : ThreadMoves(u)
    BY <1>1, <1>3, <1>6, <2>1, CheckoutMoves DEF Trim
  <2>3. CellsMove
    BY <1>1, <1>2, <1>6, CutMoves DEF Trim
  <2> QED
    BY <1>1, <1>6, <2>2, <2>3 DEF Trim, DataMoves, CommitMoves, DataTypes
<1>7. ASSUME NEW t \in Threads, WriteStep(t) PROVE DataMoves
  BY <1>1, <1>7, WriteMoves
<1>8. ASSUME NEW p \in Procs, Kill(p) PROVE DataMoves
  BY <1>1, <1>8, DeathMoves DEF Kill
<1>9. ASSUME NEW p \in Procs, NEW q \in Procs, Fork(p, q) PROVE DataMoves
  BY <1>1, <1>9, StillMoves DEF Fork, cvars
<1>10. CASE UNCHANGED vars
  BY <1>1, <1>10, StillMoves DEF vars, cvars, wvars
<1> QED
  BY <1>4, <1>5, <1>6, <1>7, <1>8, <1>9, <1>10 DEF MMLogNext

\* The range of a call under way stays, or is one that nobody had before.
LEMMA CurrentMoves ==
  ASSUME IInv, CallInv, [MMLogNext]_vars
  PROVE  /\ reserved \subseteq reserved'
         /\ \A u \in Threads : Active(u)' =>
              \/ Active(u) /\ Current(u)' = Current(u)
              \/ Current(u)' \notin reserved
<1>1. \A r \in reserved : r.owner \in Threads /\ r.call \in Nat /\ r.call <= calls[r.owner]
  BY DEF IInv, TypeOK, Reservations, CallInv
<1>2. ASSUME NEW t \in Threads, NEW size \in Sizes, CheckoutFetchAdd(t, size)
      PROVE  /\ reserved \subseteq reserved'
             /\ Current(t)' \notin reserved
             /\ \A u \in Threads : u # t /\ Active(u)' => Active(u) /\ Current(u)' = Current(u)
  <2>1. calls'[t] = calls[t] + 1 /\ calls[t] \in Nat
    BY <1>2 DEF CheckoutFetchAdd, IInv, TypeOK
  <2>2. Current(t)'.owner = t /\ Current(t)'.call = calls[t] + 1
    BY <2>1 DEF Current
  <2>3. Current(t)' \notin reserved
    BY <1>1, <2>1, <2>2
  <2>4. \A u \in Threads : u # t => Current(u)' = Current(u) /\ (Active(u)' => Active(u))
    BY <1>2 DEF CheckoutFetchAdd, Goto, Current, Active, IInv, TypeOK
  <2> QED
    BY <1>2, <2>3, <2>4 DEF CheckoutFetchAdd
<1>3. ASSUME NEW t \in Threads, TrimLoad(t)
      PROVE  /\ reserved \subseteq reserved'
             /\ \A u \in Threads : Active(u)' => Active(u) /\ Current(u)' = Current(u)
  BY <1>3 DEF TrimLoad, Goto, Current, Active, IInv, TypeOK
<1>4. ASSUME UNCHANGED <<cursor, req, calls, reserved>>, \A t \in Threads : Active(t)' => Active(t)
      PROVE  /\ reserved \subseteq reserved'
             /\ \A u \in Threads : Active(u)' => Active(u) /\ Current(u)' = Current(u)
  BY <1>4 DEF Current
<1> QED
  BY <1>2, <1>3, <1>4, StepKinds, CallFrame

\* Two ranges with a common cell are the same range.
LEMMA CommonCell ==
  ASSUME TypeOK, RangesDisjoint, NEW r \in reserved, NEW s \in reserved, NEW c,
         c \in Cells(r), c \in Cells(s)
  PROVE  r = s
<1>1. r.start \in Nat /\ r.size \in Nat /\ s.start \in Nat /\ s.size \in Nat
  BY SizesAssumption DEF TypeOK, Reservations
<1>2. c \in Int /\ r.start <= c /\ c < r.start + r.size /\ s.start <= c /\ c < s.start + s.size
  BY <1>1 DEF Cells
<1> QED
  BY <1>1, <1>2 DEF RangesDisjoint

\* A cell that holds what its call wrote goes on to hold it until a trim.
LEMMA CellStays ==
  ASSUME BaseInv, CellsMove, ~trimmed', NEW r \in reserved, NEW c \in Cells(r), c \in FileCells,
         content[c] = [owner |-> r.owner, call |-> r.call]
  PROVE  content'[c] = content[c]
<1>1. TypeOK /\ RangesDisjoint /\ CallInv
  BY DEF BaseInv, IInv
<1>2. ASSUME NEW t \in Threads, pc[t] = "granted", c \in Cells(Current(t)), content'[c] = Mark(t)
      PROVE  content'[c] = content[c]
  <2>1. Current(t) \in reserved
    BY <1>1, <1>2 DEF CallInv, Active
  <2>2. Current(t) = r
    BY <1>1, <1>2, <2>1, CommonCell
  <2>3. r.owner = t /\ r.call = calls[t]
    BY <2>2 DEF Current
  <2> QED
    BY <1>2, <2>3 DEF Mark
<1> QED
  BY <1>2 DEF CellsMove

\* The contents part of the invariant is inductive.
LEMMA DataStep ==
  ASSUME BaseInv, RingTypes, RingInv, DataTypes, DataInv, [MMLogNext]_vars
  PROVE  DataTypes' /\ DataInv'
<1>1. IInv /\ TypeOK /\ RangesDisjoint /\ CallInv /\ PhaseInv
  BY DEF BaseInv, IInv, RingInv
<1>2. DataMoves /\ CellsMove /\ CommitMoves /\ \A u \in Threads : ThreadMoves(u)
  BY StepMoves DEF DataMoves
<1>3. BaseInv' /\ IInv' /\ TypeOK' /\ CallInv' /\ PhaseInv'
  BY BaseStep, RingStep DEF BaseInv, IInv, RingInv
<1>4. (trimmed => trimmed') /\ (~trimmed' => phys' >= phys)
  BY <1>1, FileGrows
<1>5. /\ reserved \subseteq reserved'
      /\ \A u \in Threads : Active(u)' =>
           \/ Active(u) /\ Current(u)' = Current(u)
           \/ Current(u)' \notin reserved
  BY <1>1, CurrentMoves
<1>6. \A u \in Threads : pc[u] = "granted" => Current(u) \in reserved
  BY <1>1 DEF CallInv, Active
<1>7. \A u \in Threads :
        Mark(u) = [owner |-> Current(u).owner, call |-> Current(u).call] /\ Current(u).owner = u
  BY DEF Mark, Current
<1>8. DataTypes'
  <2>1. \A u \in Threads : written'[u] <= req'[u].size
    <3> SUFFICES ASSUME NEW u \in Threads PROVE written'[u] <= req'[u].size
      OBVIOUS
    <3>1. written'[u] \in Nat /\ req'[u].size \in Nat
      BY <1>2, <1>3 DEF DataMoves, TypeOK
    <3>2. CASE pc'[u] = "dead"
      BY <1>2, <3>2 DEF ThreadMoves, DataTypes
    <3>3. CASE pc'[u] # "dead"
      BY <1>3, <3>1, <3>3 DEF PhaseInv
    <3> QED
      BY <3>2, <3>3
  <2>2. committed' \subseteq reserved'
    BY <1>2, <1>5, <1>6 DEF CommitMoves, DataTypes
  <2> QED
    BY <1>2, <2>1, <2>2 DEF DataTypes, DataMoves, CellsMove
<1>9. CellsOwned'
  <2> SUFFICES ASSUME NEW c \in FileCells, content'[c] # Hole
               PROVE  \E r \in reserved' :
                        c \in Cells(r) /\ content'[c] = [owner |-> r.owner, call |-> r.call]
    BY DEF CellsOwned, Cells, Hole
  <2>1. CASE content'[c] = content[c]
    BY <1>5, <2>1 DEF DataInv, CellsOwned
  <2>2. ASSUME NEW t \in Threads, pc[t] = "granted", c \in Cells(Current(t)), content'[c] = Mark(t)
        PROVE  \E r \in reserved' :
                 c \in Cells(r) /\ content'[c] = [owner |-> r.owner, call |-> r.call]
    BY <1>5, <1>6, <1>7, <2>2
  <2> QED
    BY <1>2, <2>1, <2>2 DEF CellsMove
<1>10. \A u \in Threads : Active(u)' => Current(u)' \notin committed'
  <2> SUFFICES ASSUME NEW u \in Threads, Active(u)' PROVE Current(u)' \notin committed'
    OBVIOUS
  <2>1. Current(u)' \notin committed
    BY <1>5 DEF DataInv, DataTypes
  <2>2. ASSUME NEW t \in Threads, pc[t] = "granted", pc'[t] = "idle" PROVE Current(u)' # Current(t)
    <3>1. u # t
      BY <2>2 DEF Active
    <3>2. Current(u)'.owner = u /\ Current(t).owner = t
      BY DEF Current
    <3> QED
      BY <3>1, <3>2
  <2> QED
    BY <1>2, <2>1, <2>2 DEF CommitMoves
<1>11. ASSUME ~trimmed' PROVE CommittedIntact'
  <2> SUFFICES ASSUME NEW r \in committed', NEW c \in Cells(r)
               PROVE  content'[c] = [owner |-> r.owner, call |-> r.call]
    BY DEF CommittedIntact, Cells
  <2>1. CASE r \in committed
    <3>1. r \in reserved /\ content[c] = [owner |-> r.owner, call |-> r.call]
      BY <1>4, <1>11, <2>1 DEF DataTypes, DataInv, CommittedIntact
    <3>2. c \in FileCells
      <4>1. r.start \in Nat /\ r.size \in Nat /\ r.start + r.size <= cursor /\ cursor \in 0 .. MaxCursor
        BY <1>1, <3>1, SizesAssumption DEF TypeOK, Reservations, RangesDisjoint
      <4> QED
        BY <4>1, SizesAssumption DEF Cells, FileCells
    <3> QED
      BY <1>2, <1>11, <3>1, <3>2, CellStays
  <2>2. CASE r \notin committed
    <3>1. PICK t \in Threads : r = Current(t) /\ \A d \in Cells(Current(t)) : content'[d] = Mark(t)
      BY <1>2, <1>11, <2>2 DEF CommitMoves
    <3> QED
      BY <1>7, <3>1
  <2> QED
    BY <2>1, <2>2
<1>12. ASSUME ~trimmed' PROVE WrittenInv'
  <2>1. ~trimmed /\ WrittenInv
    BY <1>4, <1>12 DEF DataInv
  <2>2. ASSUME NEW c \in FileCells, content'[c] # Hole PROVE c < phys'
    <3>1. c \in Nat /\ phys \in Nat /\ phys' \in Nat /\ phys' >= phys
      BY <1>1, <1>3, <1>4, <1>12, SizesAssumption DEF FileCells, TypeOK
    <3>2. CASE content'[c] = content[c]
      BY <2>1, <2>2, <3>1, <3>2 DEF WrittenInv
    <3>3. ASSUME NEW t \in Threads, pc[t] = "granted", c \in Cells(Current(t)) PROVE c < phys'
      <4>1. c \in req[t].start .. (End(t) - 1) /\ End(t) <= phys /\ End(t) \in Nat
        BY <1>1, <2>1, <3>3, GrantedRange
      <4> QED
        BY <3>1, <4>1
    <3> QED
      BY <1>2, <1>12, <2>2, <3>2, <3>3 DEF CellsMove
  <2>3. ASSUME NEW u \in Threads, pc'[u] = "granted"
        PROVE  /\ \A c \in req'[u].start .. (CurrentCursor(u)' - 1) : content'[c] = Mark(u)'
               /\ wpc'[u] = "unpin" => \A c \in PieceCells(u)' : content'[c] = Mark(u)'
    <3>1. CASE wpc'[u] = "start" /\ written'[u] = 0
      <4>1. CurrentCursor(u)' = req'[u].start /\ req'[u].start \in Nat
        BY <1>3, <3>1 DEF CurrentCursor, TypeOK
      <4> QED
        BY <3>1, <4>1
    <3>2. CASE pc[u] = "granted" /\ req'[u] = req[u] /\ calls'[u] = calls[u]
      <4>1. Mark(u)' = Mark(u) /\ Current(u) \in reserved
        BY <1>6, <3>2 DEF Mark
      <4>2. /\ Cells(Current(u)) = req[u].start .. (End(u) - 1)
            /\ Cells(Current(u)) \subseteq FileCells
            /\ req[u].start \in Nat /\ req[u].size \in Nat
        BY <1>1, GrantedRange
      <4>3. \A c \in Cells(Current(u)) : content[c] = Mark(u) => content'[c] = Mark(u)
        BY <1>2, <1>7, <1>12, <4>1, <4>2, CellStays
      <4>4. /\ \A c \in req[u].start .. (CurrentCursor(u) - 1) : content[c] = Mark(u)
            /\ wpc[u] = "unpin" => \A c \in PieceCells(u) : content[c] = Mark(u)
        BY <2>1, <3>2 DEF WrittenInv
      <4>5. written[u] \in Nat /\ written[u] <= req[u].size /\ CurrentCursor(u) = req[u].start + written[u]
        BY DEF DataTypes, CurrentCursor
      <4>6. req[u].start .. (CurrentCursor(u) - 1) \subseteq Cells(Current(u))
        BY <4>2, <4>5 DEF End
      <4>7. CASE /\ written'[u] = written[u]
                 /\ wpc'[u] = "unpin" =>
                      wpc[u] = "unpin" \/ \A c \in PieceCells(u) : content'[c] = Mark(u)
        <5>1. CurrentCursor(u)' = CurrentCursor(u) /\ PieceCells(u)' = PieceCells(u)
          BY <3>2, <4>7 DEF CurrentCursor, PieceCells, Piece
        <5>2. wpc[u] = "unpin" => PieceCells(u) \subseteq Cells(Current(u))
          BY <1>1, <3>2, PieceInRange
        <5> QED
          BY <3>2, <4>1, <4>3, <4>4, <4>6, <4>7, <5>1, <5>2
      <4>8. CASE wpc[u] = "unpin" /\ wpc'[u] # "unpin" /\ written'[u] = written[u] + Piece(u)
        <5>1. /\ PieceCells(u) \subseteq Cells(Current(u))
              /\ CurrentCursor(u) \in Nat /\ Piece(u) \in Nat
          BY <1>1, <3>2, <4>8, PieceInRange
        <5>2. CurrentCursor(u)' = CurrentCursor(u) + Piece(u)
          BY <3>2, <4>2, <4>5, <4>8, <5>1 DEF CurrentCursor
        <5>3. ASSUME NEW c \in req[u].start .. (CurrentCursor(u)' - 1)
              PROVE  c \in req[u].start .. (CurrentCursor(u) - 1) \/ c \in PieceCells(u)
          BY <4>2, <5>1, <5>2 DEF PieceCells
        <5> QED
          BY <3>2, <4>1, <4>3, <4>4, <4>6, <4>8, <5>1, <5>3
      <4> QED
        BY <1>2, <1>12, <2>3, <3>1, <3>2, <4>7, <4>8 DEF ThreadMoves
    <3> QED
      BY <1>2, <2>3, <3>1, <3>2 DEF ThreadMoves
  <2> QED
    BY <2>2, <2>3 DEF WrittenInv, Hole, FileCells
<1> QED
  BY <1>8, <1>9, <1>10, <1>11, <1>12 DEF DataInv

-----------------------------------------------------------------------------
(* What holds in every state *)

\* The type invariant is that of the reservation, of the rings and of the data.
LEMMA TypeParts == MMLogTypeOK <=> TypeOK /\ RingTypes /\ DataTypes
BY DEF MMLogTypeOK, RingTypes, DataTypes

\* A new log satisfies the invariant.
LEMMA MInvInit == MMLogInit => MInv
<1> SUFFICES ASSUME MMLogInit PROVE MInv
  OBVIOUS
<1>1. /\ \A t \in Threads : pc[t] = "idle" /\ wpc[t] = "start" /\ written[t] = 0 /\ at[t] = 0
      /\ \A p \in Procs : heap[p] = << >> /\ tail[p] = NULL
      /\ reserved = {} /\ committed = {} /\ trimmed = FALSE
      /\ \A c \in FileCells : content[c] = Hole
  BY DEF MMLogInit, Init
<1>2. BaseInv
  <2>1. IInv
    BY IInvInit DEF MMLogInit
  <2> QED
    BY <1>1, <2>1 DEF BaseInv, RangesDisjoint, CallInv, Active
<1>3. RingTypes
  <2>1. heap \in [Procs -> Seq(Chunks)]
    BY DEF MMLogInit
  <2>2. 0 \in Slots
    BY RingAssumption DEF Slots
  <2>3. /\ buffer \in [Procs -> [Slots -> Nat]] /\ head \in [Procs -> Slots]
        /\ tail \in [Procs -> Slots \cup {NULL}] /\ head_locked \in [Procs -> BOOLEAN]
        /\ born \subseteq Procs
    BY <2>2 DEF MMLogInit
  <2>4. wpc \in [Threads -> WriteLabels] /\ at \in [Threads -> Nat]
    BY DEF MMLogInit, WriteLabels
  <2>5. \A p \in Procs : \A i \in Slots : buffer[p][i] <= Len(heap[p])
    BY <1>1 DEF MMLogInit
  <2>6. \A t \in Threads : at[t] <= Len(heap[ProcOf[t]])
    BY <1>1, ThreadsAssumption
  <2> QED
    BY <2>1, <2>3, <2>4, <2>5, <2>6 DEF RingTypes
<1>4. DataTypes
  <2>1. \A t \in Threads : req[t].size = 0
    BY DEF MMLogInit, Init
  <2> QED
    BY <1>1, <2>1 DEF MMLogInit, DataTypes
<1>5. RingInv
  <2>1. PhaseInv
    BY <1>1 DEF PhaseInv
  <2>2. ChunkInv
    BY <1>1 DEF ChunkInv, HasChunk
  <2>3. HeadLockExcludes
    BY <1>1 DEF HeadLockExcludes
  <2>4. RefCoversUsers
    BY <1>1 DEF RefCoversUsers
  <2> QED
    BY <2>1, <2>2, <2>3, <2>4 DEF RingInv
<1>6. DataInv
  BY <1>1 DEF DataInv, CellsOwned, WrittenInv, CommittedIntact, Active
<1> QED
  BY <1>2, <1>3, <1>4, <1>5, <1>6, TypeParts DEF MInv, BaseInv, IInv

\* The invariant is inductive.
LEMMA MInvStep == MInv /\ [MMLogNext]_vars => MInv'
<1> SUFFICES ASSUME MInv, [MMLogNext]_vars PROVE MInv'
  OBVIOUS
<1>1. BaseInv /\ RingTypes /\ RingInv /\ DataTypes /\ DataInv
  BY TypeParts DEF MInv
<1>2. BaseInv' /\ TypeOK'
  BY <1>1, BaseStep DEF BaseInv, IInv
<1>3. RingTypes' /\ RingInv'
  BY <1>1, RingStep
<1>4. DataTypes' /\ DataInv'
  BY <1>1, DataStep
<1>5. MMLogTypeOK'
  BY <1>2, <1>3, <1>4 DEF MMLogTypeOK, RingTypes, DataTypes
<1> QED
  BY <1>2, <1>3, <1>4, <1>5 DEF MInv

\* Every state of mmlog_insert satisfies the invariant.
LEMMA MInvAlways == MMLogSpec => []MInv
BY MInvInit, MInvStep, PTL DEF MMLogSpec

\* The rings of all processes, the threads and the contents keep their types; a
\* slot of a ring and a thread never point behind the chunks allocated.
THEOREM MMLogTypeCorrect == MMLogSpec => []MMLogTypeOK
<1>1. MInv => MMLogTypeOK
  BY DEF MInv
<1> QED
  BY <1>1, MInvAlways, PTL

\* At most one thread of a process works on its ring, also in a child that
\* inherits the lock and when threads time out waiting for it.
THEOREM HeadLockIsExclusive == MMLogSpec => []HeadLockExcludes
<1>1. MInv => HeadLockExcludes
  BY DEF MInv, RingInv
<1> QED
  BY <1>1, MInvAlways, PTL

\* The count of a chunk covers its users and never falls to zero, although a new
\* chunk's user is counted after the lock is released.
THEOREM CountsCoverUsers == MMLogSpec => []RefCoversUsers
<1>1. MInv => RefCoversUsers
  BY DEF MInv, RingInv
<1> QED
  BY <1>1, MInvAlways, PTL

\* memcpy stays inside the chunk that was checked out, however the message falls
\* on chunk boundaries.
THEOREM CopiesAreMapped == MMLogSpec => []CopyIsMapped
<1>1. ASSUME MInv PROVE CopyIsMapped
  <2> SUFFICES ASSUME NEW t \in Threads, pc[t] = "granted", wpc[t] = "copy"
               PROVE  /\ heap[ProcOf[t]][at[t]].mapped
                      /\ heap[ProcOf[t]][at[t]].start <= CurrentCursor(t)
                      /\ CurrentCursor(t) + Piece(t) <= heap[ProcOf[t]][at[t]].start + ChunkSize
    BY DEF CopyIsMapped
  <2> DEFINE p == ProcOf[t]
             c == at[t]
             x == CurrentCursor(t)
  <2>1. IInv /\ PhaseInv /\ ChunkInv /\ RingTypes /\ DataTypes /\ TypeOK /\ p \in Procs
    BY <1>1, TypeParts, ThreadsAssumption DEF MInv, BaseInv, IInv, RingInv
  <2>2. c >= 1 /\ heap[p][c].start <= x /\ x < heap[p][c].start + ChunkSize
    BY <2>1 DEF ChunkInv, HasChunk
  <2>3. c \in 1 .. Len(heap[p])
    BY <2>1, <2>2 DEF RingTypes
  <2>4. heap[p][c].mapped /\ Aligned(heap[p][c].start) /\ heap[p][c].start \in Nat
    BY <2>1, <2>3, ChunkType DEF ChunkInv
  <2>5. /\ x \in Nat /\ Piece(t) \in Nat
        /\ x + Piece(t) <= (x \div ChunkSize) * ChunkSize + ChunkSize
    BY <2>1, PieceFits DEF PhaseInv, TypeOK, DataTypes
  <2>6. (x \div ChunkSize) * ChunkSize = heap[p][c].start
    BY <2>2, <2>4, <2>5, ChunkIsUnique
  <2> QED
    BY <2>2, <2>4, <2>5, <2>6
<1> QED
  BY <1>1, MInvAlways, PTL

\* No call ever writes in a cell that another one reserved, whoever trims and
\* whichever processes die.
THEOREM CellsAreOwned == MMLogSpec => []CellsOwned
<1>1. MInv => CellsOwned
  BY DEF MInv, DataInv
<1> QED
  BY <1>1, MInvAlways, PTL

\* The last page of the file ends at or behind its last cell.
LEMMA PageRounding == ASSUME phys \in Nat PROVE MapEnd \in Nat /\ phys <= MapEnd
<1>1. PageSize \in Nat /\ PageSize > 0
  BY RingAssumption
<1> DEFINE y == phys + PageSize - 1
           q == y \div PageSize
           m == y % PageSize
<1>2. y \in Nat
  BY <1>1
<1>3. q \in Nat /\ m \in 0 .. PageSize - 1 /\ y = q * PageSize + m
  BY <1>1, <1>2
<1>4. MapEnd = q * PageSize
  BY DEF MapEnd
<1>5. y = phys + (PageSize - 1)
  BY <1>1
<1> HIDE DEF y, q, m
<1>6. q * PageSize \in Nat
  BY <1>1, <1>3
<1> QED
  BY <1>1, <1>2, <1>3, <1>4, <1>5, <1>6

\* Until somebody trims the log, no memcpy runs into a page that the file does not
\* have, and a message whose insert returned true is in the file whole.
THEOREM SafeUntilTrim == MMLogSpec => [](~trimmed => NoBusError /\ CommittedIntact)
<1>1. ASSUME MInv, ~trimmed PROVE NoBusError
  <2> SUFFICES ASSUME NEW t \in Threads, pc[t] = "granted", wpc[t] = "copy"
               PROVE  CurrentCursor(t) + Piece(t) <= MapEnd
    BY DEF NoBusError
  <2>1. IInv /\ PhaseInv /\ DataTypes /\ phys \in Nat
    BY <1>1, TypeParts DEF MInv, BaseInv, IInv, RingInv, TypeOK
  <2>2. /\ CurrentCursor(t) \in Nat /\ Piece(t) \in Nat
        /\ CurrentCursor(t) + Piece(t) <= End(t)
    BY <2>1, PieceInRange
  <2>3. End(t) \in Nat /\ End(t) <= phys
    BY <1>1, <2>1, GrantedRange
  <2>4. MapEnd \in Nat /\ phys <= MapEnd
    BY <2>1, PageRounding
  <2> QED
    BY <2>1, <2>2, <2>3, <2>4
<1>2. MInv /\ ~trimmed => CommittedIntact
  BY DEF MInv, DataInv
<1>3. MInv => (~trimmed => NoBusError /\ CommittedIntact)
  BY <1>1, <1>2
<1> QED
  BY <1>3, MInvAlways, PTL

-----------------------------------------------------------------------------
(* A log that nobody trims *)

\* No thread is in mmlog_trim and the file has not been truncated.
Untrimmed == ~trimmed /\ \A t \in Threads : pc[t] # "trim"

\* Without callers of mmlog_trim this stays so.
LEMMA UntrimmedStep ==
  ASSUME Trimmers = {}, TypeOK, Untrimmed, [MMLogNext]_vars
  PROVE  Untrimmed'
<1> USE DEF Goto, TypeOK, Untrimmed
<1>1. ASSUME NEW t \in Threads PROVE ~TrimLoad(t) /\ ~TrimFtruncate(t)
  BY DEF TrimLoad, TrimFtruncate
<1>2. CASE [Next]_cvars
  <2>1. CASE UNCHANGED cvars
    BY <2>1 DEF cvars
  <2>2. ASSUME NEW t \in Threads, CheckoutStep(t) PROVE Untrimmed'
    BY <2>2 DEF CheckoutStep, CheckoutLoadSize, ExpandTryLock, ExpandTimeout, ExpandCheckPanic,
      ExpandLoadSize, ExpandFtruncate, ExpandStoreSize, ExpandStorePanic, ExpandUnlock, ExpandReturn
  <2>3. ASSUME NEW t \in Threads, NEW size \in Sizes, CheckoutFetchAdd(t, size) PROVE Untrimmed'
    BY <2>3 DEF CheckoutFetchAdd
  <2>4. ASSUME NEW t \in Threads, Return(t) PROVE Untrimmed'
    BY <2>4 DEF Return
  <2>5. ASSUME NEW p \in Procs, Crash(p) PROVE Untrimmed'
    BY <2>5 DEF Crash
  <2> QED
    BY <1>1, <1>2, <2>1, <2>2, <2>3, <2>4, <2>5 DEF Next
<1>3. ASSUME NEW t \in Threads, Pwrite(t) PROVE Untrimmed'
  BY <1>3 DEF Pwrite, Finish
<1>4. ASSUME NEW p \in Procs, Die(p) PROVE Untrimmed'
  BY <1>4 DEF Die
<1> QED
  BY <1>2, <1>3, <1>4, StepKinds

\* The invariant of a log that nobody trims.
LEMMA UntrimmedAlways == ASSUME Trimmers = {} PROVE MMLogSpec => [](MInv /\ Untrimmed)
<1>1. MMLogInit => MInv /\ Untrimmed
  <2>1. MMLogInit => Untrimmed
    BY DEF MMLogInit, Init, Untrimmed
  <2> QED
    BY <2>1, MInvInit
<1>2. MInv /\ Untrimmed /\ [MMLogNext]_vars => (MInv /\ Untrimmed)'
  <2>1. MInv => TypeOK
    BY DEF MInv, MMLogTypeOK
  <2> QED
    BY <2>1, MInvStep, UntrimmedStep
<1> QED
  BY <1>1, <1>2, PTL DEF MMLogSpec

\* If nobody trims the log, no insert kills its process with a SIGBUS.
THEOREM NoBusErrorUntrimmed == ASSUME Trimmers = {} PROVE MMLogSpec => []NoBusError
<1>1. MInv /\ Untrimmed => ~trimmed
  BY DEF Untrimmed
<1> QED
  BY <1>1, UntrimmedAlways, SafeUntilTrim, PTL

\* If nobody trims the log, every message whose insert returned true stays in it,
\* whole, whichever processes are killed in the middle of whatever insert.
THEOREM CommittedStays == ASSUME Trimmers = {} PROVE MMLogSpec => []CommittedIntact
<1>1. MInv /\ Untrimmed => ~trimmed
  BY DEF Untrimmed
<1> QED
  BY <1>1, UntrimmedAlways, SafeUntilTrim, PTL

-----------------------------------------------------------------------------
(* Refinement *)

\* Only a call that begins moves the cursor.
LEMMA CursorMoves ==
  ASSUME [MMLogNext]_vars
  PROVE  (\E t \in Threads, size \in Sizes : Insert(t, size)) \/ UNCHANGED cursor
<1> USE DEF meta, cvars
<1>1. ASSUME NEW t \in Threads, InsertCheckout(t) PROVE UNCHANGED cursor
  BY <1>1 DEF InsertCheckout, CheckoutStep, CheckoutLoadSize, ExpandTryLock, ExpandTimeout,
    ExpandCheckPanic, ExpandLoadSize, ExpandFtruncate, ExpandStoreSize, ExpandStorePanic,
    ExpandUnlock, ExpandReturn
<1>2. ASSUME NEW t \in Threads, WriteStep(t) PROVE UNCHANGED cursor
  BY <1>2 DEF WriteStep, InsertInvalid, Pwrite, LockHead, LockTimeout, FindChunk, AddNewChunk,
    UnlockHead, Pin, Copy, BusError, Die, Unpin, Clean
<1>3. ASSUME NEW t \in Threads, Trim(t) PROVE UNCHANGED cursor
  BY <1>3 DEF Trim, TrimLoad, TrimFtruncate
<1>4. ASSUME NEW p \in Procs, Kill(p) PROVE UNCHANGED cursor
  BY <1>4 DEF Kill, Die
<1>5. ASSUME NEW p \in Procs, NEW q \in Procs, Fork(p, q) PROVE UNCHANGED cursor
  BY <1>5 DEF Fork
<1>6. CASE UNCHANGED vars
  BY <1>6 DEF vars
<1> QED
  BY <1>1, <1>2, <1>3, <1>4, <1>5, <1>6 DEF MMLogNext

\* The call of mmlog_insert is the reservation of the abstract log.
LEMMA InsertReserves ==
  ASSUME TypeOK, CallInv, NEW t \in Threads, NEW size \in Sizes, Insert(t, size)
  PROVE  Abstract!Reserve
<1> DEFINE k == calls[t] + 1
           e == [owner |-> t, call |-> k, start |-> cursor, size |-> size]
<1>1. /\ pc[t] = "idle" /\ calls[t] < MaxCalls /\ cursor + size <= MaxCursor
      /\ cursor' = cursor + size /\ calls' = [calls EXCEPT ![t] = @ + 1]
      /\ reserved' = reserved \cup {e} /\ Goto(t, "load") /\ UNCHANGED <<content, committed>>
  BY DEF Insert, CheckoutFetchAdd, wvars
<1>2. calls[t] \in Nat /\ k \in 1 .. MaxCalls
  BY <1>1, SizesAssumption DEF TypeOK
<1>3. e.owner = t /\ e.call = k
  OBVIOUS
<1>4. \A f \in reserved : f.owner \in Threads /\ f.call \in Nat /\ f.call <= calls[f.owner]
  BY DEF TypeOK, Reservations, CallInv
<1>5. \A f \in reserved : f.owner = t => f.call # k
  BY <1>2, <1>4
<1>6. \A f \in reserved : Abstract!Mark(f) # Abstract!Mark(e)
  <2> SUFFICES ASSUME NEW f \in reserved, Abstract!Mark(f) = Abstract!Mark(e) PROVE FALSE
    OBVIOUS
  <2>1. [owner |-> f.owner, call |-> f.call] = [owner |-> t, call |-> k]
    BY <1>3 DEF Abstract!Mark
  <2>2. f.owner = t /\ f.call = k
    BY <2>1
  <2> QED
    BY <1>5, <2>2
<1>7. \A f \in OpenEntries : f.owner # t
  BY <1>1 DEF OpenEntries
<1> HIDE DEF e
<1>8. OpenEntries' = OpenEntries \cup {e}
  <2>1. /\ pc'[t] = "load" /\ calls'[t] = k
        /\ \A u \in Threads \ {t} : pc'[u] = pc[u] /\ calls'[u] = calls[u]
    BY <1>1 DEF Goto, TypeOK
  <2>2. e \in OpenEntries'
    BY <1>1, <1>3, <2>1 DEF OpenEntries
  <2>3. \A f \in reserved : f \in OpenEntries' <=> f \in OpenEntries
    BY <1>1, <1>4, <1>5, <2>1 DEF OpenEntries
  <2>4. OpenEntries \subseteq reserved /\ OpenEntries' \subseteq reserved \cup {e}
    BY <1>1 DEF OpenEntries
  <2> QED
    BY <2>2, <2>3, <2>4
<1> QED
  BY <1>1, <1>2, <1>6, <1>7, <1>8 DEF Abstract!Reserve, e

\* Every other step is progress of the inserts under way.
LEMMA StepProgresses ==
  ASSUME Trimmers = {}, MInv, MInv', Untrimmed, Untrimmed', [MMLogNext]_vars, UNCHANGED cursor
  PROVE  Abstract!Progress
<1>1. BaseInv /\ IInv /\ CallInv /\ TypeOK /\ RingTypes /\ RingInv /\ DataTypes /\ DataInv
  BY TypeParts DEF MInv, BaseInv, IInv
<1>2. UNCHANGED <<req, calls, reserved>> /\ \A t \in Threads : Active(t)' => Active(t)
  <2>1. ASSUME NEW t \in Threads, NEW size \in Sizes, CheckoutFetchAdd(t, size) PROVE FALSE
    <3>1. cursor' = cursor + size /\ cursor \in Nat /\ size \in Nat /\ size > 0
      BY <1>1, <2>1, SizesAssumption DEF CheckoutFetchAdd, TypeOK
    <3> QED
      BY <3>1
  <2>2. ASSUME NEW t \in Threads, TrimLoad(t) PROVE FALSE
    BY <2>2 DEF TrimLoad
  <2> QED
    BY <1>1, <2>1, <2>2, StepKinds, CallFrame
<1>3. CellsMove /\ CommitMoves
  BY <1>1, StepMoves DEF DataMoves
<1>4. ~trimmed' /\ \A t \in Threads : pc[t] # "trim" /\ pc'[t] # "trim"
  BY DEF Untrimmed
<1>5. \A r \in reserved : r.owner \in Threads
  BY <1>1 DEF TypeOK, Reservations
<1>6. OpenEntries' \in SUBSET OpenEntries
  BY <1>2, <1>4, <1>5 DEF OpenEntries, Active
<1>7. ASSUME NEW t \in Threads, pc[t] = "granted"
      PROVE  /\ Current(t) \in OpenEntries
             /\ pc'[t] = "idle" => Current(t) \notin OpenEntries'
             /\ Abstract!Mark(Current(t)) = Mark(t)
             /\ Abstract!EntryCells(Current(t)) = Cells(Current(t))
  <2>1. Current(t) \in reserved
    BY <1>1, <1>7 DEF CallInv, Active
  <2>2. Current(t).owner = t /\ Current(t).call = calls[t]
    BY DEF Current
  <2>3. Current(t) \in OpenEntries /\ (pc'[t] = "idle" => Current(t) \notin OpenEntries')
    BY <1>7, <2>1, <2>2 DEF OpenEntries
  <2>4. Abstract!Mark(Current(t)) = Mark(t)
    BY <2>2 DEF Mark, Abstract!Mark
  <2>5. Abstract!EntryCells(Current(t)) = Cells(Current(t))
    BY DEF Abstract!EntryCells, Cells
  <2> QED
    BY <2>3, <2>4, <2>5
<1>8. PICK done \in SUBSET (OpenEntries \ OpenEntries') :
        /\ committed' = committed \cup done
        /\ \A r \in done : \A c \in Abstract!EntryCells(r) : content'[c] = Abstract!Mark(r)
  <2>1. CASE committed' = committed
    BY <2>1
  <2>2. ASSUME NEW t \in Threads, pc[t] = "granted", pc'[t] = "idle",
               committed' = committed \cup {Current(t)},
               \A c \in Cells(Current(t)) : content'[c] = Mark(t)
        PROVE  \E done \in SUBSET (OpenEntries \ OpenEntries') :
                 /\ committed' = committed \cup done
                 /\ \A r \in done : \A c \in Abstract!EntryCells(r) : content'[c] = Abstract!Mark(r)
    <3>1. {Current(t)} \in SUBSET (OpenEntries \ OpenEntries')
      BY <1>7, <2>2
    <3> QED
      BY <1>7, <2>2, <3>1
  <2> QED
    BY <1>3, <1>4, <2>1, <2>2 DEF CommitMoves
<1>9. content' \in [FileCells -> {Hole} \cup {Abstract!Mark(r) : r \in reserved}]
  <2>1. \A c \in FileCells : content'[c] # Hole =>
          \E r \in reserved : content'[c] = [owner |-> r.owner, call |-> r.call]
    BY <1>2 DEF MInv, DataInv, CellsOwned
  <2>2. \A c \in FileCells : content'[c] \in {Hole} \cup {Abstract!Mark(r) : r \in reserved}
    BY <2>1 DEF Abstract!Mark
  <2> QED
    BY <1>3, <2>2 DEF CellsMove
<1>10. \A c \in FileCells : content'[c] # content[c] =>
         \E r \in OpenEntries : c \in Abstract!EntryCells(r) /\ content'[c] = Abstract!Mark(r)
  BY <1>3, <1>4, <1>7 DEF CellsMove
<1>11. Abstract!Hole = Hole /\ FileCells = 0 .. MaxCursor - 1
  BY DEF Abstract!Hole, Hole, FileCells
<1> QED
  BY <1>2, <1>6, <1>8, <1>9, <1>10, <1>11 DEF Abstract!Progress

\* mmlog_insert, with its timeouts, panics, short writes, forks and deaths in the
\* middle of a record, implements the append-only log, as long as nobody trims.
THEOREM InsertImplementsAppendLog ==
  ASSUME Trimmers = {} PROVE MMLogSpec => ImplementsAppendLog
<1>1. MMLogInit => Abstract!AppendInit
  <2> SUFFICES ASSUME MMLogInit PROVE Abstract!AppendInit
    OBVIOUS
  <2>1. cursor = 0 /\ reserved = {} /\ committed = {}
    BY DEF MMLogInit, Init
  <2>2. OpenEntries = {}
    BY <2>1 DEF OpenEntries
  <2>3. content = [c \in 0 .. MaxCursor - 1 |-> Abstract!Hole]
    BY DEF MMLogInit, FileCells, Hole, Abstract!Hole
  <2> QED
    BY <2>1, <2>2, <2>3 DEF Abstract!AppendInit
<1>2. ASSUME MInv, MInv', Untrimmed, Untrimmed', [MMLogNext]_vars
      PROVE  Abstract!AppendNext
  <2>1. TypeOK /\ CallInv
    BY <1>2 DEF MInv, BaseInv, IInv
  <2>2. CASE UNCHANGED cursor
    BY <1>2, <2>2, StepProgresses DEF Abstract!AppendNext
  <2>3. ASSUME NEW t \in Threads, NEW size \in Sizes, Insert(t, size) PROVE Abstract!AppendNext
    BY <2>1, <2>3, InsertReserves DEF Abstract!AppendNext
  <2> QED
    BY <1>2, <2>2, <2>3, CursorMoves
<1>3. (MInv /\ Untrimmed) /\ (MInv /\ Untrimmed)' /\ [MMLogNext]_vars
        => [Abstract!AppendNext]_(Abstract!avars)
  BY <1>2
<1> QED
  BY <1>1, <1>3, UntrimmedAlways, PTL DEF MMLogSpec, ImplementsAppendLog, Abstract!AppendSpec

=============================================================================
