--------------------------- MODULE MMLogCheckout ---------------------------
(***************************************************************************)
(* Space reservation in the memory-mapped log of fastlog/include/mmlog.h:  *)
(* mmlog_checkout, data_file_expand, file_expand_inner, hot_wait_for_cond  *)
(* and mmlog_trim, over the metadata page that every process maps shared.  *)
(*                                                                         *)
(* One step is one access to shared memory or one system call.  The        *)
(* metadata fields are C11 atomics used with sequentially consistent       *)
(* order, so an interleaving of these steps is what the code can do.       *)
(* Offsets and sizes are counted in cells instead of bytes.                *)
(***************************************************************************)
EXTENDS Align, FiniteSets

CONSTANTS
  Threads,      \* threads that call the log, of all processes
  Procs,        \* processes
  ProcOf,       \* the process of each thread
  Trimmers,     \* threads that call mmlog_trim
  Crashers,     \* processes that may be killed at any point
  Sizes,        \* sizes of the inserted messages
  ChunkSize,    \* metadata->chunk_size
  MaxCursor,    \* bound: no call is made that would move the cursor past it
  MaxCalls      \* bound: calls per thread

ASSUME ThreadsAssumption ==
  /\ ProcOf \in [Threads -> Procs]
  /\ Trimmers \subseteq Threads
  /\ Crashers \subseteq Procs

ASSUME SizesAssumption ==
  /\ Sizes \subseteq Nat \ {0}
  /\ ChunkSize \in Nat \ {0}
  /\ MaxCursor \in Nat
  /\ MaxCalls \in Nat

VARIABLES
  cursor,       \* metadata->cursor
  file_size,    \* metadata->file_size
  is_locked,    \* metadata->is_locked
  is_panicked,  \* metadata->is_panicked
  phys,         \* st_size of the data file
  pc,           \* where each thread is
  req,          \* each thread's current range: start and size
  calls,        \* calls made by each thread
  reserved,     \* history: every range a call has taken from the cursor
  trimmed       \* history: mmlog_trim has truncated the file

meta == <<cursor, file_size, is_locked, is_panicked, phys>>
cvars == <<meta, pc, req, calls, reserved, trimmed>>

End(t) == req[t].start + req[t].size

Goto(t, l) == pc' = [pc EXCEPT ![t] = l]

\* Between the compare-and-swap that takes is_locked and the store that
\* releases it.
Critical == {"panic_check", "size", "grow", "store", "set_panic", "unlock"}

Labels == Critical \cup
  {"idle", "load", "cas", "retry", "check", "granted", "failed", "trim", "dead"}

\* files_create leaves a zeroed metadata page with file_size = chunk_size and
\* a data file of that size.
Init ==
  /\ cursor = 0
  /\ file_size = ChunkSize
  /\ is_locked = FALSE
  /\ is_panicked = FALSE
  /\ phys = ChunkSize
  /\ pc = [t \in Threads |-> "idle"]
  /\ req = [t \in Threads |-> [start |-> 0, size |-> 0]]
  /\ calls = [t \in Threads |-> 0]
  /\ reserved = {}
  /\ trimmed = FALSE

-----------------------------------------------------------------------------
(* mmlog_checkout *)

\* Mutant: load, add and store instead of an atomic fetch_add.
MutantFetchAdd(t, size) ==
  /\ pc[t] = "idle"
  /\ calls[t] < MaxCalls
  /\ cursor + size <= MaxCursor
  /\ \E start \in {cursor} \cup {req[u].start : u \in {v \in Threads : pc[v] = "load"}} :
       /\ cursor' = start + size
       /\ req' = [req EXCEPT ![t] = [start |-> start, size |-> size]]
       /\ reserved' = reserved \cup {[owner |-> t, call |-> calls[t] + 1, start |-> start, size |-> size]}
  /\ calls' = [calls EXCEPT ![t] = @ + 1]
  /\ Goto(t, "load")
  /\ UNCHANGED <<file_size, is_locked, is_panicked, phys, trimmed>>

\* atomic_fetch_add on the cursor: the call owns [start, start + size).
CheckoutFetchAdd(t, size) ==
  /\ pc[t] = "idle"
  /\ calls[t] < MaxCalls
  /\ cursor + size <= MaxCursor
  /\ cursor' = cursor + size
  /\ req' = [req EXCEPT ![t] = [start |-> cursor, size |-> size]]
  /\ calls' = [calls EXCEPT ![t] = @ + 1]
  /\ reserved' = reserved \cup
       {[owner |-> t, call |-> calls[t] + 1, start |-> cursor, size |-> size]}
  /\ Goto(t, "load")
  /\ UNCHANGED <<file_size, is_locked, is_panicked, phys, trimmed>>

\* Mutant: the start of the range is compared instead of its end.
MutantLoadSize(t) ==
  /\ pc[t] = "load"
  /\ Goto(t, IF req[t].start > file_size THEN "cas" ELSE "granted")
  /\ UNCHANGED <<meta, req, calls, reserved, trimmed>>

\* The file_size read after the fetch_add decides whether to expand.
CheckoutLoadSize(t) ==
  /\ pc[t] = "load"
  /\ Goto(t, IF End(t) > file_size THEN "cas" ELSE "granted")
  /\ UNCHANGED <<meta, req, calls, reserved, trimmed>>

-----------------------------------------------------------------------------
(* file_expand_inner, retried by hot_wait_for_cond *)

\* compare_exchange(is_locked, false, true)
ExpandTryLock(t) ==
  /\ pc[t] \in {"cas", "retry"}
  /\ \/ /\ ~is_locked
        /\ is_locked' = TRUE
        /\ Goto(t, "panic_check")
     \/ /\ is_locked
        /\ Goto(t, "retry")
        /\ UNCHANGED is_locked
  /\ UNCHANGED <<cursor, file_size, is_panicked, phys, req, calls, reserved, trimmed>>

\* SLEEP_TIME_MAX_MS passed since the first try: data_file_expand gives up.
ExpandTimeout(t) ==
  /\ pc[t] = "retry"
  /\ Goto(t, "failed")
  /\ UNCHANGED <<meta, req, calls, reserved, trimmed>>

\* Mutant: a panicked log is grown all the same.
MutantCheckPanic(t) ==
  /\ pc[t] = "panic_check"
  /\ Goto(t, "size")
  /\ UNCHANGED <<meta, req, calls, reserved, trimmed>>

\* A panicked log: the callback returns false, and keeps is_locked.
ExpandCheckPanic(t) ==
  /\ pc[t] = "panic_check"
  /\ Goto(t, IF is_panicked THEN "retry" ELSE "size")
  /\ UNCHANGED <<meta, req, calls, reserved, trimmed>>

\* Mutant: the size is not checked again under the lock.
MutantExpandLoadSize(t) ==
  /\ pc[t] = "size"
  /\ Goto(t, "grow")
  /\ UNCHANGED <<meta, req, calls, reserved, trimmed>>

\* file_size is read again under the lock.
ExpandLoadSize(t) ==
  /\ pc[t] = "size"
  /\ Goto(t, IF file_size < End(t) THEN "grow" ELSE "unlock")
  /\ UNCHANGED <<meta, req, calls, reserved, trimmed>>

\* ftruncate to the next chunk boundary, which may fail.
ExpandFtruncate(t) ==
  /\ pc[t] = "grow"
  /\ \/ /\ phys' = ALIGN(End(t), ChunkSize)
        /\ Goto(t, "store")
     \/ /\ Goto(t, "set_panic")
        /\ UNCHANGED phys
  /\ UNCHANGED <<cursor, file_size, is_locked, is_panicked, req, calls, reserved, trimmed>>

\* atomic_store(file_size, new_size)
ExpandStoreSize(t) ==
  /\ pc[t] = "store"
  /\ file_size' = ALIGN(End(t), ChunkSize)
  /\ Goto(t, "unlock")
  /\ UNCHANGED <<cursor, is_locked, is_panicked, phys, req, calls, reserved, trimmed>>

\* atomic_store(is_panicked, true)
ExpandStorePanic(t) ==
  /\ pc[t] = "set_panic"
  /\ is_panicked' = TRUE
  /\ Goto(t, "unlock")
  /\ UNCHANGED <<cursor, file_size, is_locked, phys, req, calls, reserved, trimmed>>

\* atomic_store(is_locked, false); the callback returns true.
ExpandUnlock(t) ==
  /\ pc[t] = "unlock"
  /\ is_locked' = FALSE
  /\ Goto(t, "check")
  /\ UNCHANGED <<cursor, file_size, is_panicked, phys, req, calls, reserved, trimmed>>

\* Mutant: the panic flag is not looked at on the way out.
MutantExpandReturn(t) ==
  /\ pc[t] = "check"
  /\ Goto(t, "granted")
  /\ UNCHANGED <<meta, req, calls, reserved, trimmed>>

\* data_file_expand returns !is_panicked, which is also how the thread whose
\* ftruncate failed learns of it.
ExpandReturn(t) ==
  /\ pc[t] = "check"
  /\ Goto(t, IF is_panicked THEN "failed" ELSE "granted")
  /\ UNCHANGED <<meta, req, calls, reserved, trimmed>>

\* The caller is done with the range (or with LOG_CURSOR_INVALID).
Return(t) ==
  /\ pc[t] \in {"granted", "failed"}
  /\ Goto(t, "idle")
  /\ UNCHANGED <<meta, req, calls, reserved, trimmed>>

-----------------------------------------------------------------------------
(* mmlog_trim *)

\* Mutant: the trim keeps whole chunks only.
MutantTrimLoad(t) ==
  /\ t \in Trimmers
  /\ pc[t] = "idle"
  /\ calls[t] < MaxCalls
  /\ calls' = [calls EXCEPT ![t] = @ + 1]
  /\ req' = [req EXCEPT ![t] = [start |-> cursor - (cursor % ChunkSize), size |-> 0]]
  /\ Goto(t, "trim")
  /\ UNCHANGED <<meta, reserved, trimmed>>

\* The cursor is read first; req.start holds the local copy.
TrimLoad(t) ==
  /\ t \in Trimmers
  /\ pc[t] = "idle"
  /\ calls[t] < MaxCalls
  /\ calls' = [calls EXCEPT ![t] = @ + 1]
  /\ req' = [req EXCEPT ![t] = [start |-> cursor, size |-> 0]]
  /\ Goto(t, "trim")
  /\ UNCHANGED <<meta, reserved, trimmed>>

\* ftruncate(data_fd, cursor); a failure is only recorded in mmlog_errno.
\* Nothing updates metadata->file_size.
TrimFtruncate(t) ==
  /\ pc[t] = "trim"
  /\ \/ phys' = req[t].start /\ trimmed' = TRUE
     \/ UNCHANGED <<phys, trimmed>>
  /\ Goto(t, "idle")
  /\ UNCHANGED <<cursor, file_size, is_locked, is_panicked, req, calls, reserved>>

-----------------------------------------------------------------------------
\* A process is killed: its threads stop where they are, and what they stored
\* in the shared page stays.
Crash(p) ==
  /\ p \in Crashers
  /\ \E t \in Threads : ProcOf[t] = p /\ pc[t] # "dead"
  /\ pc' = [t \in Threads |-> IF ProcOf[t] = p THEN "dead" ELSE pc[t]]
  /\ UNCHANGED <<meta, req, calls, reserved, trimmed>>

\* The steps inside mmlog_checkout, once it has been called.
CheckoutStep(t) ==
  \/ CheckoutLoadSize(t)
  \/ ExpandTryLock(t)
  \/ ExpandTimeout(t)
  \/ ExpandCheckPanic(t)
  \/ ExpandLoadSize(t)
  \/ ExpandFtruncate(t)
  \/ ExpandStoreSize(t)
  \/ ExpandStorePanic(t)
  \/ ExpandUnlock(t)
  \/ ExpandReturn(t)

Next ==
  \/ \E t \in Threads :
       \/ \E size \in Sizes : CheckoutFetchAdd(t, size)
       \/ CheckoutStep(t)
       \/ Return(t)
       \/ TrimLoad(t)
       \/ TrimFtruncate(t)
  \/ \E p \in Procs : Crash(p)

Spec == Init /\ [][Next]_cvars

-----------------------------------------------------------------------------
(* What the reservation protocol promises *)

\* The cells of a range.
Cells(r) == r.start .. (r.start + r.size - 1)

\* The ranges a call may have taken.
Reservations == [owner : Threads, call : Nat, start : Nat, size : Sizes]

\* Every field keeps its type; a request in flight lies below the bound.
TypeOK ==
  /\ cursor \in 0 .. MaxCursor
  /\ file_size \in Nat
  /\ phys \in Nat
  /\ is_locked \in BOOLEAN
  /\ is_panicked \in BOOLEAN
  /\ pc \in [Threads -> Labels]
  /\ req \in [Threads -> [start : Nat, size : Nat]]
  /\ calls \in [Threads -> Nat]
  /\ reserved \subseteq Reservations
  /\ trimmed \in BOOLEAN
  /\ \A t \in Threads : End(t) <= MaxCursor

\* No cell of the log is ever handed to two calls of mmlog_checkout, whatever
\* the calls that time out, panic or die in between, and no call gets a cell
\* above the cursor.
RangesDisjoint ==
  /\ \A r \in reserved : r.start + r.size <= cursor
  /\ \A r, s \in reserved :
       r # s => r.start + r.size <= s.start \/ s.start + s.size <= r.start

\* A start position returned by mmlog_checkout is backed by the file: the
\* caller may write up to the end of its range.  The decision is taken on a
\* file_size read without the lock, or by an expansion another thread made.
\* (A trim ends that: it leaves file_size as it was.)
GrantCovered ==
  \A t \in Threads : pc[t] = "granted" /\ ~trimmed => End(t) <= phys

\* mmlog_trim truncates to a cursor it read before.  What other threads reserved in
\* between is cut off, but whole: no message ends up half inside the file.
TrimCutsBetween ==
  \A t \in Threads : pc[t] = "trim" =>
    /\ req[t].start <= cursor
    /\ \A r \in reserved : r.start + r.size <= req[t].start \/ req[t].start <= r.start

\* An expansion never takes cells away: a thread that expands to a smaller
\* end than the file already has would cut off ranges granted to others.
FileNeverShrinks == [][~trimmed' => phys' >= phys]_phys

\* Once an ftruncate has failed the file and file_size stay as they are, but for
\* a thread that is inside mmlog_trim.
PanicIsFinal ==
  [][is_panicked =>
       /\ is_panicked' /\ file_size' = file_size
       /\ phys' = phys \/ \E t \in Threads : pc[t] = "trim" /\ pc'[t] = "idle"]_cvars

\* file_size is the "Current physical size of the data file" (mmlog.h:31): the
\* two agree whenever nobody expands the file.  A trim ends that for good.
FileSizeIsPhysical == ~is_locked => file_size = phys

-----------------------------------------------------------------------------
(* The inductive invariant behind GrantCovered *)

\* The expansion lock excludes: one thread at a time is in the critical
\* section, and only while is_locked is set.
LockInv ==
  /\ \A t \in Threads : pc[t] \in Critical => is_locked
  /\ \A t, u \in Threads : pc[t] \in Critical /\ pc[u] \in Critical => t = u

\* Until somebody trims, file_size is the size of the file, except between the
\* ftruncate and the store that follows it, or for good when a process died in
\* between.  It never goes down, with or without a trim.
SizeInv ==
  /\ \A t \in Threads : pc[t] \in {"grow", "store"} => file_size < End(t)
  /\ ~trimmed =>
       /\ file_size <= phys
       /\ FileSizeIsPhysical
       /\ \A t \in Threads :
            /\ pc[t] \in Critical \ {"store"} => file_size = phys
            /\ pc[t] = "store" => phys = ALIGN(End(t), ChunkSize)

\* What a thread knows about its own range on the way out.
CoverInv ==
  \A t \in Threads :
    /\ pc[t] = "granted" => End(t) <= file_size
    /\ pc[t] \in {"unlock", "check"} => End(t) <= file_size \/ is_panicked

\* Nobody is past the panic check once the flag is set, but to unlock.
PanicInv ==
  is_panicked => \A t \in Threads : pc[t] \notin {"size", "grow", "store", "set_panic"}

\* All of it holds in every state.
CheckoutInv == LockInv /\ SizeInv /\ CoverInv /\ PanicInv

=============================================================================
