------------------------------- MODULE MMLog -------------------------------
(***************************************************************************)
(* mmlog_insert of fastlog/include/mmlog.h: a reservation (the module      *)
(* MMLogCheckout) followed by the write of the message, either by pwrite   *)
(* or through the ring of mapped chunks that each process keeps.           *)
(*                                                                         *)
(* The write goes on while pc[t] = "granted"; wpc says how far it is.  What *)
(* happens under head_locked to the head and the slots of the ring is one  *)
(* step, since nobody else reads them meanwhile (clean_chunks looks at     *)
(* them only when the tail is set, and it never is).                       *)
(***************************************************************************)
EXTENDS MMLogCheckout, Sequences

CONSTANTS
  Capacity,    \* chunk_count given to mmlog_open
  PageSize,    \* LOG_PAGE_SIZE, in cells
  Children     \* processes that come into being by a fork with the log open

ASSUME RingAssumption ==
  /\ Capacity \in Nat /\ Capacity >= 2
  /\ PageSize \in Nat \ {0} /\ ChunkSize % PageSize = 0
  /\ Children \subseteq Procs
  /\ IsFiniteSet(Threads)

VARIABLES
  heap,        \* chunk_info_t's that each process allocated
  buffer,      \* chunks.buffer of each process: indices of heap, 0 is NULL
  head,        \* chunks.head: a slot
  tail,        \* chunks.tail: a slot or NULL
  head_locked, \* chunks.head_locked
  born,        \* processes that exist
  wpc,         \* where each thread is in the write of its message
  written,     \* bytes_written
  at,          \* chunk: index in heap of the chunk checked out
  content,     \* which call wrote each cell of the file
  committed    \* history: reservations whose mmlog_insert returned true

ring == <<heap, buffer, head, tail, head_locked>>
wvars == <<ring, born, wpc, written, at, content, committed>>
vars == <<cvars, wvars>>

NULL == -1

Slots == 0 .. Capacity - 1

FileCells == 0 .. MaxCursor - 1

Hole == [owner |-> 0, call |-> 0]

\* What a thread's current call writes in its cells.
Mark(t) == [owner |-> t, call |-> calls[t]]

\* The reservation of a thread's current call.
Current(t) ==
  [owner |-> t, call |-> calls[t], start |-> req[t].start, size |-> req[t].size]

GotoW(t, l) == wpc' = [wpc EXCEPT ![t] = l]

\* Outcome of ftruncate to the size n: cells from n on read as zero.
Cut(n) == [c \in FileCells |-> IF c < n THEN content[c] ELSE Hole]

\* A thread stores its message in the cells of S.
Store(t, S) == [c \in FileCells |-> IF c \in S THEN Mark(t) ELSE content[c]]

\* mmlog_open on a log that exists: an empty ring, the tail left NULL.
MMLogInit ==
  /\ Init
  /\ heap = [p \in Procs |-> << >>]
  /\ buffer = [p \in Procs |-> [i \in Slots |-> 0]]
  /\ head = [p \in Procs |-> 0]
  /\ tail = [p \in Procs |-> NULL]
  /\ head_locked = [p \in Procs |-> FALSE]
  /\ born = Procs \ Children
  /\ wpc = [t \in Threads |-> "start"]
  /\ written = [t \in Threads |-> 0]
  /\ at = [t \in Threads |-> 0]
  /\ content = [c \in FileCells |-> Hole]
  /\ committed = {}

-----------------------------------------------------------------------------
(* Arithmetic of mmlog_insert *)

\* mmlog_cross_count
CrossCount(start, size) == (start + size) \div ChunkSize - start \div ChunkSize

\* Messages that bypass the ring.
Direct(t) ==
  \/ CrossCount(req[t].start, req[t].size) > 1
  \/ req[t].size = ChunkSize /\ req[t].start % ChunkSize = 0

\* current_cursor
CurrentCursor(t) == req[t].start + written[t]

\* Mutant: the piece is not cut at the chunk boundary.
MutantPiece(t) == req[t].size - written[t]

\* Mutant: the piece always reaches to the chunk boundary.
MutantWholeChunk(t) ==
  (CurrentCursor(t) \div ChunkSize + 1) * ChunkSize - CurrentCursor(t)

\* bytes_to_write: what is left of the message, up to the chunk boundary.
Piece(t) ==
  LET rest == req[t].size - written[t]
      chunk_end == (CurrentCursor(t) \div ChunkSize + 1) * ChunkSize
  IN IF CurrentCursor(t) + rest > chunk_end
     THEN chunk_end - CurrentCursor(t)
     ELSE rest

PieceCells(t) == CurrentCursor(t) .. (CurrentCursor(t) + Piece(t) - 1)

\* is_cursor_in_chunk, for the chunk of a slot
InChunk(p, slot, cursr) ==
  LET c == buffer[p][slot]
  IN c # 0 /\ heap[p][c].start <= cursr /\ cursr < heap[p][c].start + ChunkSize

\* get_next_head_ptr
NextSlot(i) == (i + 1) % Capacity

-----------------------------------------------------------------------------
(* The call and its reservation *)

Insert(t, size) ==
  /\ ProcOf[t] \in born
  /\ CheckoutFetchAdd(t, size)
  /\ UNCHANGED wvars

\* A step of mmlog_checkout; only ftruncate touches the contents.
InsertCheckout(t) ==
  /\ CheckoutStep(t)
  /\ content' = IF phys' = phys THEN content ELSE Cut(phys')
  /\ UNCHANGED <<ring, born, wpc, written, at, committed>>

\* mmlog_insert returns, with success or not.
Finish(t, success) ==
  /\ Goto(t, "idle")
  /\ GotoW(t, "start")
  /\ written' = [written EXCEPT ![t] = 0]
  /\ committed' = IF success THEN committed \cup {Current(t)} ELSE committed
  /\ UNCHANGED <<req, calls, reserved, trimmed>>

\* mmlog_checkout gave LOG_CURSOR_INVALID.
InsertInvalid(t) ==
  /\ pc[t] = "failed"
  /\ Finish(t, FALSE)
  /\ UNCHANGED <<meta, ring, born, at, content>>

-----------------------------------------------------------------------------
(* The direct path *)

\* Mutant: a short write passes for a complete one.
MutantPwrite(t) ==
  /\ pc[t] = "granted" /\ wpc[t] = "start" /\ Direct(t)
  /\ \E n \in 1 .. req[t].size :
       /\ content' = Store(t, req[t].start .. (req[t].start + n - 1))
       /\ Finish(t, TRUE)
  /\ UNCHANGED <<meta, ring, born, at>>

\* pwrite of the message at its position, complete, short or failed.  A file
\* that was trimmed meanwhile grows as far as the write reaches.
Pwrite(t) ==
  /\ pc[t] = "granted" /\ wpc[t] = "start" /\ Direct(t)
  /\ \E n \in 0 .. req[t].size :
       LET reach == req[t].start + n
       IN /\ content' = Store(t, req[t].start .. (reach - 1))
          /\ phys' = IF n > 0 /\ reach > phys THEN reach ELSE phys
          /\ Finish(t, n = req[t].size)
  /\ UNCHANGED <<cursor, file_size, is_locked, is_panicked, ring, born, at>>

-----------------------------------------------------------------------------
(* mmlog_rb_checkout *)

\* Mutant: a plain store instead of the compare-and-swap.
MutantLockHead(t) ==
  /\ pc[t] = "granted" /\ wpc[t] \in {"start", "relock"} /\ ~Direct(t)
  /\ head_locked' = [head_locked EXCEPT ![ProcOf[t]] = TRUE]
  /\ GotoW(t, "find")
  /\ UNCHANGED <<cvars, heap, buffer, head, tail, born, written, at, content, committed>>

\* lock_head_inner, retried by hot_wait_for_cond
LockHead(t) ==
  LET p == ProcOf[t]
  IN /\ pc[t] = "granted" /\ wpc[t] \in {"start", "relock"} /\ ~Direct(t)
     /\ \/ /\ ~head_locked[p]
           /\ head_locked' = [head_locked EXCEPT ![p] = TRUE]
           /\ GotoW(t, "find")
        \/ /\ head_locked[p]
           /\ GotoW(t, "relock")
           /\ UNCHANGED head_locked
     /\ UNCHANGED <<cvars, heap, buffer, head, tail, born, written, at, content, committed>>

\* Mutant: no bound on the wait for the head lock.
MutantLockTimeout(t) ==
  /\ wpc[t] = "relock" /\ pc[t] = "granted"
  /\ ~head_locked[ProcOf[t]]
  /\ Finish(t, FALSE)
  /\ UNCHANGED <<meta, ring, born, at, content>>

\* SLEEP_TIME_MAX_MS passed: write_to_chunk and mmlog_insert return false,
\* whatever pieces have been written before.
LockTimeout(t) ==
  /\ wpc[t] = "relock" /\ pc[t] = "granted"
  /\ Finish(t, FALSE)
  /\ UNCHANGED <<meta, ring, born, at, content>>

\* Mutant: the user of the head chunk is not counted.
MutantFindChunk(t) ==
  LET p == ProcOf[t]
      c == buffer[p][head[p]]
  IN /\ wpc[t] = "find" /\ pc[t] = "granted"
     /\ InChunk(p, head[p], CurrentCursor(t))
     /\ at' = [at EXCEPT ![t] = c]
     /\ GotoW(t, "hit")
     /\ UNCHANGED <<cvars, ring, born, written, content, committed>>

\* The head chunk holds the cursor: one more user.
FindChunk(t) ==
  LET p == ProcOf[t]
      c == buffer[p][head[p]]
  IN /\ wpc[t] = "find" /\ pc[t] = "granted"
     /\ InChunk(p, head[p], CurrentCursor(t))
     /\ heap' = [heap EXCEPT ![p][c].ref = @ + 1]
     /\ at' = [at EXCEPT ![t] = c]
     /\ GotoW(t, "hit")
     /\ UNCHANGED <<cvars, buffer, head, tail, head_locked, born, written, content, committed>>

\* clean_chunks: the tail chunk is neither the head nor in use.
Reapable(p) ==
  /\ tail[p] # NULL
  /\ tail[p] # head[p]
  /\ buffer[p][tail[p]] # 0
  /\ heap[p][buffer[p][tail[p]]].ref = 0

\* create_chunk_at_cursor, without the mmap that may fail
NewChunk(cursr) ==
  [start |-> (cursr \div ChunkSize) * ChunkSize, ref |-> 1, mapped |-> TRUE]

\* One round of clean_chunks: take the tail and unmap its chunk.
ReapTail(p) ==
  /\ heap' = [heap EXCEPT ![p][buffer[p][tail[p]]].mapped = FALSE]
  /\ tail' = [tail EXCEPT ![p] = NextSlot(@)]

\* add_new_chunk.  A ring is full when the slot after the head is the tail: it
\* is cleaned, and refused when that does not help.  Otherwise the chunk that
\* was in the slot is forgotten.
AddNewChunk(t) ==
  LET p == ProcOf[t]
      slot == NextSlot(head[p])
  IN /\ wpc[t] = "find" /\ pc[t] = "granted"
     /\ ~InChunk(p, head[p], CurrentCursor(t))
     /\ IF slot = tail[p]
        THEN /\ IF Reapable(p)
                THEN ReapTail(p) /\ UNCHANGED wpc
                ELSE GotoW(t, "nochunk") /\ UNCHANGED <<heap, tail>>
             /\ UNCHANGED <<buffer, head, at>>
        ELSE /\ \/ /\ heap' = [heap EXCEPT ![p] = Append(@, NewChunk(CurrentCursor(t)))]
                   /\ buffer' = [buffer EXCEPT ![p][slot] = Len(heap[p]) + 1]
                   /\ head' = [head EXCEPT ![p] = slot]
                   /\ at' = [at EXCEPT ![t] = Len(heap[p]) + 1]
                   /\ GotoW(t, "added")
                \/ /\ buffer' = [buffer EXCEPT ![p][slot] = 0]  \* calloc or mmap failed
                   /\ GotoW(t, "nochunk")
                   /\ UNCHANGED <<heap, head, at>>
             /\ UNCHANGED tail
     /\ UNCHANGED <<cvars, head_locked, born, written, content, committed>>

\* Mutant: the path without a chunk returns with the lock.
MutantUnlockHead(t) ==
  LET p == ProcOf[t]
  IN /\ pc[t] = "granted"
     /\ \/ /\ wpc[t] = "hit" /\ GotoW(t, "copy")
           /\ head_locked' = [head_locked EXCEPT ![p] = FALSE]
           /\ UNCHANGED <<cvars, written, committed>>
        \/ /\ wpc[t] = "added" /\ GotoW(t, "pin")
           /\ head_locked' = [head_locked EXCEPT ![p] = FALSE]
           /\ UNCHANGED <<cvars, written, committed>>
        \/ wpc[t] = "nochunk" /\ Finish(t, FALSE) /\ UNCHANGED <<meta, head_locked>>
     /\ UNCHANGED <<heap, buffer, head, tail, born, at, content>>

\* unlock_head on the three ways out.
UnlockHead(t) ==
  LET p == ProcOf[t]
  IN /\ pc[t] = "granted"
     /\ head_locked' = [head_locked EXCEPT ![p] = FALSE]
     /\ \/ wpc[t] = "hit" /\ GotoW(t, "copy") /\ UNCHANGED <<cvars, written, committed>>
        \/ wpc[t] = "added" /\ GotoW(t, "pin") /\ UNCHANGED <<cvars, written, committed>>
        \/ wpc[t] = "nochunk" /\ Finish(t, FALSE) /\ UNCHANGED meta
     /\ UNCHANGED <<heap, buffer, head, tail, born, at, content>>

\* The user of a new chunk is counted after the lock is released.
Pin(t) ==
  /\ wpc[t] = "pin" /\ pc[t] = "granted"
  /\ heap' = [heap EXCEPT ![ProcOf[t]][at[t]].ref = @ + 1]
  /\ GotoW(t, "copy")
  /\ UNCHANGED <<cvars, buffer, head, tail, head_locked, born, written, at, content, committed>>

-----------------------------------------------------------------------------
(* write_to_chunk *)

\* First cell after the last page of the file.
MapEnd == ((phys + PageSize - 1) \div PageSize) * PageSize

\* memcpy of the piece.  A store behind the end of a trimmed file, but in its
\* last page, may or may not be seen again when the file grows.
Copy(t) ==
  /\ wpc[t] = "copy" /\ pc[t] = "granted"
  /\ CurrentCursor(t) + Piece(t) <= MapEnd
  /\ \E lost \in {{}, {c \in PieceCells(t) : c >= phys}} :
       content' = Store(t, PieceCells(t) \ lost)
  /\ GotoW(t, "unpin")
  /\ UNCHANGED <<cvars, ring, born, written, at, committed>>

\* Mutant: the count of written bytes advances by whole chunks.
MutantUnpin(t) ==
  /\ wpc[t] = "unpin" /\ pc[t] = "granted"
  /\ heap' = [heap EXCEPT ![ProcOf[t]][at[t]].ref = @ - 1]
  /\ written' = [written EXCEPT ![t] = @ + ChunkSize]
  /\ GotoW(t, IF written'[t] < req[t].size THEN "start" ELSE "clean")
  /\ UNCHANGED <<cvars, buffer, head, tail, head_locked, born, at, content, committed>>

\* The user is gone; on to the next piece or to clean_chunks.
Unpin(t) ==
  /\ wpc[t] = "unpin" /\ pc[t] = "granted"
  /\ heap' = [heap EXCEPT ![ProcOf[t]][at[t]].ref = @ - 1]
  /\ written' = [written EXCEPT ![t] = @ + Piece(t)]
  /\ GotoW(t, IF written'[t] < req[t].size THEN "start" ELSE "clean")
  /\ UNCHANGED <<cvars, buffer, head, tail, head_locked, born, at, content, committed>>

\* clean_chunks takes and unmaps the tail while it can, then the call returns.
Clean(t) ==
  LET p == ProcOf[t]
  IN /\ wpc[t] = "clean" /\ pc[t] = "granted"
     /\ IF Reapable(p)
        THEN ReapTail(p) /\ UNCHANGED <<cvars, wpc, written, committed>>
        ELSE Finish(t, TRUE) /\ UNCHANGED <<meta, heap, tail>>
     /\ UNCHANGED <<buffer, head, head_locked, born, at, content>>

-----------------------------------------------------------------------------
(* The rest of the world *)

\* A process dies; a memcpy it was in may have stored any part of its piece.
Die(p) ==
  LET copying == {t \in Threads : ProcOf[t] = p /\ pc[t] = "granted" /\ wpc[t] = "copy"}
  IN /\ pc' = [t \in Threads |-> IF ProcOf[t] = p THEN "dead" ELSE pc[t]]
     /\ \E done \in SUBSET {c \in UNION {PieceCells(t) : t \in copying} : c < phys} :
          content' = [c \in FileCells |->
                        IF c \in done
                        THEN Mark(CHOOSE t \in copying : c \in PieceCells(t))
                        ELSE content[c]]
     /\ UNCHANGED <<meta, req, calls, reserved, trimmed, ring, born, wpc, written, at, committed>>

\* The process is killed from outside.
Kill(p) ==
  /\ p \in Crashers \cap born
  /\ \E t \in Threads : ProcOf[t] = p /\ pc[t] # "dead"
  /\ Die(p)

\* memcpy runs into a page that the file no longer has: SIGBUS.
BusError(t) ==
  /\ wpc[t] = "copy" /\ pc[t] = "granted"
  /\ CurrentCursor(t) + Piece(t) > MapEnd
  /\ Die(ProcOf[t])

\* An idle thread of p forks: the child has its own copy of the ring, with the
\* locks and the counts as they are, and none of the other threads of p.
Fork(p, q) ==
  /\ p \in born /\ q \in Children \ born
  /\ \E t \in Threads : ProcOf[t] = p /\ pc[t] = "idle"
  /\ heap' = [heap EXCEPT ![q] = heap[p]]
  /\ buffer' = [buffer EXCEPT ![q] = buffer[p]]
  /\ head' = [head EXCEPT ![q] = head[p]]
  /\ tail' = [tail EXCEPT ![q] = tail[p]]
  /\ head_locked' = [head_locked EXCEPT ![q] = head_locked[p]]
  /\ born' = born \cup {q}
  /\ UNCHANGED <<cvars, wpc, written, at, content, committed>>

\* mmlog_trim
Trim(t) ==
  /\ ProcOf[t] \in born
  /\ TrimLoad(t) \/ TrimFtruncate(t)
  /\ content' = IF phys' = phys THEN content ELSE Cut(phys')
  /\ UNCHANGED <<ring, born, wpc, written, at, committed>>

-----------------------------------------------------------------------------
\* The steps of a call of mmlog_insert after the reservation.
WriteStep(t) ==
  \/ InsertInvalid(t)
  \/ Pwrite(t)
  \/ LockHead(t)
  \/ LockTimeout(t)
  \/ FindChunk(t)
  \/ AddNewChunk(t)
  \/ UnlockHead(t)
  \/ Pin(t)
  \/ Copy(t)
  \/ BusError(t)
  \/ Unpin(t)
  \/ Clean(t)

MMLogNext ==
  \/ \E t \in Threads :
       \/ \E size \in Sizes : Insert(t, size)
       \/ InsertCheckout(t)
       \/ WriteStep(t)
       \/ Trim(t)
  \/ \E p \in Procs : Kill(p)
  \/ \E p, q \in Procs : Fork(p, q)

MMLogSpec == MMLogInit /\ [][MMLogNext]_vars

\* A thread inside mmlog_insert is scheduled, and its clock advances.
MMLogFairSpec ==
  MMLogSpec /\ \A t \in Threads : WF_vars(InsertCheckout(t) \/ WriteStep(t))

-----------------------------------------------------------------------------
(* Properties *)

Chunks == [start : Nat, ref : Nat, mapped : BOOLEAN]

WriteLabels ==
  {"start", "relock", "find", "hit", "added", "nochunk", "pin", "copy", "unpin", "clean"}

\* The rings, the threads and the contents keep their types; a slot points to
\* an allocated chunk, and so does a thread that has checked one out.
MMLogTypeOK ==
  /\ TypeOK
  /\ heap \in [Procs -> Seq(Chunks)]
  /\ buffer \in [Procs -> [Slots -> Nat]]
  /\ head \in [Procs -> Slots]
  /\ tail \in [Procs -> Slots \cup {NULL}]
  /\ head_locked \in [Procs -> BOOLEAN]
  /\ born \subseteq Procs
  /\ wpc \in [Threads -> WriteLabels]
  /\ written \in [Threads -> Nat]
  /\ at \in [Threads -> Nat]
  /\ \A p \in Procs : \A i \in Slots : buffer[p][i] <= Len(heap[p])
  /\ \A t \in Threads : written[t] <= req[t].size /\ at[t] <= Len(heap[ProcOf[t]])
  /\ content \in [FileCells -> {Hole} \cup [owner : Threads, call : Nat]]
  /\ committed \subseteq reserved

\* The message of a call that returned true is in the file, whole, for good:
\* no other insert, expansion or death of a process touches a cell of it.
CommittedIntact ==
  \A r \in committed : \A c \in Cells(r) : content[c] = [owner |-> r.owner, call |-> r.call]

\* A cell holds nothing but what the call that reserved it wrote there, also
\* when the file is trimmed under the writers or a writer dies.
CellsOwned ==
  \A c \in FileCells :
    content[c] # Hole =>
      \E r \in reserved : c \in Cells(r) /\ content[c] = [owner |-> r.owner, call |-> r.call]

\* memcpy stays inside the chunk that was checked out, which is still mapped
\* and was mapped at the place of the piece.
CopyIsMapped ==
  \A t \in Threads :
    pc[t] = "granted" /\ wpc[t] = "copy" =>
      LET c == heap[ProcOf[t]][at[t]]
      IN /\ c.mapped
         /\ c.start <= CurrentCursor(t)
         /\ CurrentCursor(t) + Piece(t) <= c.start + ChunkSize

\* The pages that a memcpy stores to exist, so that no insert kills its
\* process with a SIGBUS.  tests/mmlog.c:854 inserts after mmlog_trim as well.
NoBusError ==
  \A t \in Threads :
    pc[t] = "granted" /\ wpc[t] = "copy" => CurrentCursor(t) + Piece(t) <= MapEnd

\* Threads of p that are counted as users of chunk c.
Users(p, c) ==
  {t \in Threads : ProcOf[t] = p /\ pc[t] = "granted" /\ at[t] = c
                   /\ wpc[t] \in {"hit", "copy", "unpin"}}

\* The count of a chunk never falls below its users, so a chunk in use is
\* never one that clean_chunks may unmap, and the unsigned count never wraps.
RefCoversUsers ==
  \A p \in Procs : \A c \in 1 .. Len(heap[p]) :
    heap[p][c].ref >= Cardinality(Users(p, c)) + 1

\* At most one thread of a process works on the ring, and it holds the lock.
HeadLockExcludes ==
  \A t, u \in Threads :
    LET holds(x) == pc[x] = "granted" /\ wpc[x] \in {"find", "hit", "added", "nochunk"}
    IN /\ holds(t) => head_locked[ProcOf[t]]
       /\ holds(t) /\ holds(u) /\ ProcOf[t] = ProcOf[u] => t = u

\* Every call of mmlog_insert returns or dies with its process, even in a
\* child that was forked while another thread held the head lock.
InsertReturns ==
  \A t \in Threads : pc[t] \notin {"idle", "trim", "dead"} ~> pc[t] \in {"idle", "dead"}

\* The head lock of a living process is released again on every path, but not
\* the copy of a held lock that a child inherits.
HeadLockReleased ==
  \A p \in Procs \ Children :
    head_locked[p] ~> ~head_locked[p] \/ \A t \in Threads : ProcOf[t] = p => pc[t] = "dead"

\* mmlog.h:653 and 108: a full ring is cleaned or refuses another chunk, so
\* that every mapping a process holds is in a slot of its ring.
MappingsTracked ==
  \A p \in Procs : \A c \in 1 .. Len(heap[p]) :
    heap[p][c].mapped => \E i \in Slots : buffer[p][i] = c

-----------------------------------------------------------------------------
(* Refinement *)

\* The entries whose insert is under way.
OpenEntries ==
  {r \in reserved : r.call = calls[r.owner] /\ pc[r.owner] \notin {"idle", "dead"}}

Abstract == INSTANCE AppendLog WITH
  Owners <- Threads, next <- cursor, entries <- reserved,
  open <- OpenEntries, cells <- content

\* mmlog_insert implements the append-only log: timeouts, panics, short writes
\* and deaths in the middle of a record included, as long as nobody trims.
ImplementsAppendLog == Abstract!AppendSpec

=============================================================================
