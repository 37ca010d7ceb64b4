----------------------------- MODULE RingBuffer -----------------------------
(***************************************************************************)
(* The shared-memory ring of simple_ringbuffer (ring_buffer.hpp) and the   *)
(* two processes of main.cpp: callers of write, a child that reads until   *)
(* the ring is empty, and the parent's last read once everybody is done.   *)
(*                                                                         *)
(* The buffer is counted in cells.  An entry is one header cell, which     *)
(* carries the serialized size, and body cells; the mirror mapping makes   *)
(* cell i + Size the same cell as i.  A cell holds <<n, k>>: cell k of the *)
(* n-th entry accepted, and <<0, 0>> is the zero page of a new memfd.      *)
(***************************************************************************)
EXTENDS Integers, Sequences

CONSTANTS
  Producers,   \* callers of write
  Size,        \* size of the ring, in cells
  EntrySizes,  \* serializedSize() of the entries written
  MaxWrites    \* bound: entries accepted in a behaviour

ASSUME RingAssumption ==
  /\ Size \in Nat \ {0}
  /\ EntrySizes \subseteq 2 .. Size
  /\ MaxWrites \in Nat

Readers == {"child", "parent"}

VARIABLES
  ctor,        \* the constructor: source tried, step, descriptors, mappings
  write_pos,
  read_pos,
  buffer,
  wr,          \* each producer: step, saved_write, saved_read, size, tries, entry
  rd,          \* each reader: step and the size it read
  entries,     \* history: entries accepted, with the place and size reserved
  lapped,      \* history: a reservation has reached the end of the buffer
  early,       \* history: the child read while a producer was still writing
  got,         \* history: entries read whole and in order
  torn         \* history: something else was read

pos == <<write_pos, read_pos>>
hist == <<entries, lapped, early, got, torn>>
rvars == <<ctor, pos, buffer, wr, rd, hist>>

\* A caller between two calls of write.
Between(step) == [at |-> step, w |-> 0, r |-> 0, size |-> 0, tries |-> 0, n |-> 0]

RingInit ==
  /\ ctor = [source |-> "memfd", step |-> "open", fds |-> 0, maps |-> {}]
  /\ write_pos = 0 /\ read_pos = 0
  /\ buffer = [i \in 0 .. Size - 1 |-> <<0, 0>>]
  /\ wr = [p \in Producers |-> Between("idle")]
  /\ rd = [c \in Readers |-> [at |-> "idle", size |-> 0]]
  /\ entries = <<>> /\ lapped = FALSE /\ early = FALSE /\ got = 0 /\ torn = FALSE

-----------------------------------------------------------------------------
(* The constructor: a memfd, then a file without a name in some directory. *)

\* close() of a descriptor number that is no longer open fails with EBADF.
Close(c) == [c EXCEPT !.fds = IF @ = 0 THEN 0 ELSE @ - 1]

GiveUpSource(c) ==
  IF c.source = "memfd" THEN [c EXCEPT !.source = "tmpfile", !.step = "open"]
                        ELSE [c EXCEPT !.step = "thrown"]

MutantUnmap(c) == c

Unmap(c) == [c EXCEPT !.maps = {}]

OpenBacking ==
  /\ ctor.step = "open"
  /\ \/ ctor' = [ctor EXCEPT !.step = "resize", !.fds = @ + 1]
     \/ ctor' = GiveUpSource(ctor)

Resize ==
  /\ ctor.step = "resize"
  /\ \/ ctor' = [ctor EXCEPT !.step = "map"]
     \/ ctor' = GiveUpSource(Close(ctor))

\* On failure try_map closes the descriptor and its caller closes it again.
TryMap ==
  /\ ctor.step = "map"
  /\ \/ ctor' = [ctor EXCEPT !.step = "mirror", !.maps = {"both"}]
     \/ ctor' = GiveUpSource(Close(Close(ctor)))

TryMirror ==
  /\ ctor.step = "mirror"
  /\ \/ ctor' = Close([ctor EXCEPT !.step = "ready", !.maps = {"ring", "mirror"}])
     \/ ctor' = GiveUpSource(Close(Close(Unmap(ctor))))

Construct == (OpenBacking \/ Resize \/ TryMap \/ TryMirror)
             /\ UNCHANGED <<pos, buffer, wr, rd, hist>>

-----------------------------------------------------------------------------
(* write *)

WriteBegin(p, size) ==
  /\ wr[p].at = "idle" /\ ctor.step = "ready"
  /\ Len(entries) < MaxWrites
  /\ wr' = [wr EXCEPT ![p] = [@ EXCEPT !.at = "load", !.size = size, !.tries = 3,
                                       !.n = Len(entries)]]
  /\ UNCHANGED <<ctor, pos, buffer, rd, hist>>

LoadWritePos(p) ==
  /\ wr[p].at = "load"
  /\ wr' = [wr EXCEPT ![p].at = "load_read", ![p].w = write_pos]
  /\ UNCHANGED <<ctor, pos, buffer, rd, hist>>

LoadReadPos(p) ==
  /\ wr[p].at = "load_read"
  /\ wr' = [wr EXCEPT ![p].at = "test", ![p].r = read_pos]
  /\ UNCHANGED <<ctor, pos, buffer, rd, hist>>

\* next_write, not wrapped around
NextWrite(p) == wr[p].w + wr[p].size

MutantEnoughSpace(p) == NextWrite(p) <= wr[p].r + Size

EnoughSpace(p) == NextWrite(p) < wr[p].r + Size

NoSpace(p) ==
  /\ wr[p].at = "test" /\ ~EnoughSpace(p)
  /\ wr' = [wr EXCEPT ![p] = Between("stopped")]
  /\ UNCHANGED <<ctor, pos, buffer, rd, hist>>

MutantCompareExchange(p) == TRUE

CompareExchange(p) == write_pos = wr[p].w

Reserve(p) ==
  /\ wr[p].at = "test" /\ EnoughSpace(p) /\ CompareExchange(p)
  /\ write_pos' = NextWrite(p) % Size
  /\ entries' = Append(entries, [start |-> wr[p].w, size |-> wr[p].size])
  /\ lapped' = (lapped \/ NextWrite(p) >= Size)
  /\ wr' = [wr EXCEPT ![p].at = "header", ![p].n = Len(entries) + 1]
  /\ UNCHANGED <<ctor, read_pos, buffer, rd, early, got, torn>>

MutantContended(p) ==
  /\ wr[p].at = "test" /\ EnoughSpace(p) /\ ~CompareExchange(p)
  /\ wr' = [wr EXCEPT ![p].at = "gave_up"]
  /\ UNCHANGED <<ctor, pos, buffer, rd, hist>>

\* The exchange failed: try again, at most three times in all.
Contended(p) ==
  /\ wr[p].at = "test" /\ EnoughSpace(p) /\ ~CompareExchange(p)
  /\ wr' = [wr EXCEPT ![p].tries = @ - 1,
                      ![p].at = IF wr[p].tries - 1 > 0 THEN "load" ELSE "gave_up"]
  /\ UNCHANGED <<ctor, pos, buffer, rd, hist>>

Cell(p, k) == (wr[p].w + k) % Size

SerializeHeader(p) ==
  /\ wr[p].at = "header"
  /\ buffer' = [buffer EXCEPT ![Cell(p, 0)] = <<wr[p].n, 0>>]
  /\ wr' = [wr EXCEPT ![p].at = "body"]
  /\ UNCHANGED <<ctor, pos, rd, hist>>

SerializeBody(p) ==
  /\ wr[p].at = "body"
  /\ buffer' = [i \in DOMAIN buffer |->
       IF \E k \in 1 .. wr[p].size - 1 : Cell(p, k) = i
         THEN <<wr[p].n, CHOOSE k \in 1 .. wr[p].size - 1 : Cell(p, k) = i>>
         ELSE buffer[i]]
  /\ wr' = [wr EXCEPT ![p] = Between("idle")]
  /\ UNCHANGED <<ctor, pos, rd, hist>>

\* The caller's loop over write ends, also on its own account.
Leave(p) ==
  /\ ctor.step = "ready"
  /\ wr[p].at \in {"idle", "gave_up"}
  /\ wr' = [wr EXCEPT ![p] = Between("stopped")]
  /\ UNCHANGED <<ctor, pos, buffer, rd, hist>>

-----------------------------------------------------------------------------
(* read *)

Writing == \E p \in Producers : wr[p].at # "stopped"

MayRead(c) == ctor.step = "ready" /\ (c = "parent" => ~Writing /\ rd["child"].at = "done")

ReadEmpty(c) ==
  /\ rd[c].at = "idle" /\ MayRead(c)
  /\ read_pos = write_pos
  /\ rd' = [rd EXCEPT ![c].at = "done"]
  /\ early' = (early \/ Writing)
  /\ UNCHANGED <<ctor, pos, buffer, wr, entries, lapped, got, torn>>

MutantHeaderSizes(cell) ==
  IF cell[1] = 0 THEN {0}
  ELSE IF cell[2] = 0 THEN {entries[cell[1]].size - 1} ELSE 0 .. Size - 1

\* What the first word at read_pos can say: nothing was written there yet, the
\* size of an entry, or some word from the middle of an entry.
HeaderSizes(cell) ==
  IF cell[1] = 0 THEN {0}
  ELSE IF cell[2] = 0 THEN {entries[cell[1]].size} ELSE 0 .. Size - 1

ReadHeader(c) ==
  /\ rd[c].at = "idle" /\ MayRead(c)
  /\ read_pos # write_pos
  /\ \E size \in HeaderSizes(buffer[read_pos]) :
       rd' = [rd EXCEPT ![c] = [at |-> "body", size |-> size]]
  /\ early' = (early \/ Writing)
  /\ UNCHANGED <<ctor, pos, buffer, wr, entries, lapped, got, torn>>

\* The cells from i on hold all of entry n.
Whole(n, i) == \A k \in 0 .. entries[n].size - 1 : buffer[(i + k) % Size] = <<n, k>>

\* The rest of deserialize, and read_pos moved past the entry.
ReadBody(c) ==
  /\ rd[c].at = "body"
  /\ rd' = [rd EXCEPT ![c].at = "idle"]
  /\ read_pos' = (read_pos + rd[c].size) % Size
  /\ LET next == got + 1
         whole == next <= Len(entries) /\ Whole(next, read_pos) /\ rd[c].size = entries[next].size
     IN  /\ got' = IF whole THEN next ELSE got
         /\ torn' = (torn \/ (~whole /\ rd[c].size # 0))
  /\ UNCHANGED <<ctor, write_pos, buffer, wr, entries, lapped, early>>

-----------------------------------------------------------------------------
WriteStep(p) ==
  \/ \E size \in EntrySizes : WriteBegin(p, size)
  \/ LoadWritePos(p) \/ LoadReadPos(p) \/ NoSpace(p) \/ Reserve(p) \/ Contended(p)
  \/ SerializeHeader(p) \/ SerializeBody(p) \/ Leave(p)

ReadStep(c) == ReadEmpty(c) \/ ReadHeader(c) \/ ReadBody(c)

RingNext == Construct \/ (\E p \in Producers : WriteStep(p)) \/ (\E c \in Readers : ReadStep(c))

RingSpec == RingInit /\ [][RingNext]_rvars

-----------------------------------------------------------------------------
(* Properties *)

\* Both ways to get a region can fail at any step.  When the constructor
\* throws it has left no descriptor and no mapping behind, and when it returns
\* the ring and its mirror are mapped and the descriptor is closed.
ConstructedOrClean ==
  /\ ctor.step = "thrown" => ctor.fds = 0 /\ ctor.maps = {}
  /\ ctor.step = "ready" => ctor.fds = 0 /\ ctor.maps = {"ring", "mirror"}
  /\ ctor.step = "open" => ctor.maps = {}

Serialized(n) == \A p \in Producers : ~(wr[p].n = n /\ wr[p].at \in {"header", "body"})

\* Until a reservation reaches the end of the buffer, concurrent producers keep
\* to their own cells, and a reader that overtakes the serialization of an
\* entry finds size zero and stays put: read_pos is always the start of an
\* entry or the end of the data.
FirstLapSound ==
  ~lapped =>
    /\ \A n \in DOMAIN entries : Serialized(n) => Whole(n, entries[n].start)
    /\ read_pos = write_pos \/ \E n \in DOMAIN entries : entries[n].start = read_pos

\* A write gives up for contention only when three other writes were accepted
\* since it began: each failed exchange is somebody else's progress.
GivesUpAfterThree ==
  \A p \in Producers : wr[p].at = "gave_up" => Len(entries) >= wr[p].n + 3

\* main.cpp: when the child's sleep outlasts the writers, the child reads every
\* accepted entry, whole and in order, before it finds the ring empty, and the
\* parent's last read finds nothing.
DrainsAll ==
  ~early => /\ rd["child"].at = "done" => got = Len(entries) /\ ~torn
            /\ rd["parent"].at # "body"

\* "We have enough room": the cells of a new reservation hold no entry that is
\* still to be read, and are not those that another producer is filling.
EnoughRoom ==
  [][\A p \in Producers : wr[p].at = "test" /\ wr'[p].at = "header" =>
       wr[p].size < Size - ((write_pos - read_pos) % Size)]_rvars
=============================================================================
