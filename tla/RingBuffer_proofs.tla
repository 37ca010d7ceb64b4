------------------------- MODULE RingBuffer_proofs --------------------------
(***************************************************************************)
(* Theorems about RingBuffer, for any number of producers and any size:    *)
(* whichever of its calls fail, the constructor leaves a whole ring or     *)
(* nothing behind; a write gives up only under real contention; the first  *)
(* lap is sound; and a child that reads after the writers drains the ring. *)
(***************************************************************************)
EXTENDS RingBuffer, TLAPS

\* What the constructor holds at each of its steps.
Holds(step, fds, maps) ==
  \/ step \in {"open", "thrown"} /\ fds = 0 /\ maps = {}
  \/ step \in {"resize", "map"} /\ fds = 1 /\ maps = {}
  \/ step = "mirror" /\ fds = 1 /\ maps = {"both"}
  \/ step = "ready" /\ fds = 0 /\ maps = {"ring", "mirror"}

CtorInv ==
  \E source, step, fds, maps :
    /\ ctor = [source |-> source, step |-> step, fds |-> fds, maps |-> maps]
    /\ Holds(step, fds, maps)

\* Closing a descriptor gives it up, and closing it again changes nothing.
LEMMA CloseOnce ==
  ASSUME NEW source, NEW step, NEW maps
  PROVE  Close([source |-> source, step |-> step, fds |-> 1, maps |-> maps])
           = [source |-> source, step |-> step, fds |-> 0, maps |-> maps]
BY DEF Close

\* Closing what is closed changes nothing.
LEMMA CloseAgain ==
  ASSUME NEW source, NEW step, NEW maps
  PROVE  Close([source |-> source, step |-> step, fds |-> 0, maps |-> maps])
           = [source |-> source, step |-> step, fds |-> 0, maps |-> maps]
BY DEF Close

\* Giving up a source that holds nothing leads to the next one, or to the exception.
LEMMA GivingUp ==
  ASSUME NEW source, NEW step, NEW c,
         c = [source |-> source, step |-> step, fds |-> 0, maps |-> {}]
  PROVE  \E src, st : /\ GiveUpSource(c) = [source |-> src, step |-> st, fds |-> 0, maps |-> {}]
                      /\ st \in {"open", "thrown"}
<1>1. CASE source = "memfd"
  <2>1. GiveUpSource(c) = [source |-> "tmpfile", step |-> "open", fds |-> 0, maps |-> {}]
    BY <1>1 DEF GiveUpSource
  <2> QED
    BY <2>1
<1>2. CASE source # "memfd"
  <2>1. GiveUpSource(c) = [source |-> source, step |-> "thrown", fds |-> 0, maps |-> {}]
    BY <1>2 DEF GiveUpSource
  <2> QED
    BY <2>1
<1> QED
  BY <1>1, <1>2

\* Every step of the constructor, failing or not, keeps to what it holds.
LEMMA ConstructSteps == CtorInv /\ Construct => CtorInv'
<1> SUFFICES ASSUME CtorInv, Construct
             PROVE  CtorInv'
  OBVIOUS
<1>1. PICK source, step, fds, maps :
        /\ ctor = [source |-> source, step |-> step, fds |-> fds, maps |-> maps]
        /\ Holds(step, fds, maps)
  BY DEF CtorInv
<1> DEFINE empty == [source |-> source, step |-> step, fds |-> 0, maps |-> {}]
<1>2. ASSUME ctor' = GiveUpSource(empty)
      PROVE  CtorInv'
  BY <1>2, GivingUp DEF CtorInv, Holds
<1>3. CASE OpenBacking
  <2>1. fds = 0 /\ maps = {}
    BY <1>1, <1>3 DEF OpenBacking, Holds
  <2>2. CASE ctor' = [ctor EXCEPT !.step = "resize", !.fds = @ + 1]
    <3>1. ctor' = [source |-> source, step |-> "resize", fds |-> 1, maps |-> {}]
      <4>1. ctor.fds + 1 = 1
        BY <1>1, <2>1
      <4> QED
        BY <1>1, <2>1, <2>2, <4>1
    <3> QED
      BY <3>1 DEF CtorInv, Holds
  <2>3. CASE ctor' = GiveUpSource(ctor)
    BY <1>1, <1>2, <2>1, <2>3
  <2> QED
    BY <1>3, <2>2, <2>3 DEF OpenBacking
<1>4. CASE Resize
  <2>1. fds = 1 /\ maps = {}
    BY <1>1, <1>4 DEF Resize, Holds
  <2>2. CASE ctor' = [ctor EXCEPT !.step = "map"]
    <3>1. ctor' = [source |-> source, step |-> "map", fds |-> 1, maps |-> {}]
      BY <1>1, <2>1, <2>2
    <3> QED
      BY <3>1 DEF CtorInv, Holds
  <2>3. CASE ctor' = GiveUpSource(Close(ctor))
    <3>1. Close(ctor) = empty
      BY <1>1, <2>1 DEF Close
    <3> QED
      BY <1>2, <2>3, <3>1
  <2> QED
    BY <1>4, <2>2, <2>3 DEF Resize
<1>5. CASE TryMap
  <2>1. fds = 1 /\ maps = {}
    BY <1>1, <1>5 DEF TryMap, Holds
  <2>2. CASE ctor' = [ctor EXCEPT !.step = "mirror", !.maps = {"both"}]
    <3>1. ctor' = [source |-> source, step |-> "mirror", fds |-> 1, maps |-> {"both"}]
      BY <1>1, <2>1, <2>2
    <3> QED
      BY <3>1 DEF CtorInv, Holds
  <2>3. CASE ctor' = GiveUpSource(Close(Close(ctor)))
    <3>1. Close(Close(ctor)) = empty
      BY <1>1, <2>1, CloseOnce, CloseAgain
    <3> QED
      BY <1>2, <2>3, <3>1
  <2> QED
    BY <1>5, <2>2, <2>3 DEF TryMap
<1>6. CASE TryMirror
  <2>1. fds = 1 /\ maps = {"both"}
    BY <1>1, <1>6 DEF TryMirror, Holds
  <2>2. CASE ctor' = Close([ctor EXCEPT !.step = "ready", !.maps = {"ring", "mirror"}])
    <3>1. ctor' = [source |-> source, step |-> "ready", fds |-> 0, maps |-> {"ring", "mirror"}]
      <4> DEFINE done == [ctor EXCEPT !.step = "ready", !.maps = {"ring", "mirror"}]
      <4>1. ASSUME NEW c, c = done
            PROVE  c = [source |-> source, step |-> "ready", fds |-> 1, maps |-> {"ring", "mirror"}]
        BY <1>1, <2>1, <4>1
      <4> QED
        BY <2>2, <4>1, CloseOnce
    <3> QED
      BY <3>1 DEF CtorInv, Holds
  <2>3. CASE ctor' = GiveUpSource(Close(Close(Unmap(ctor))))
    <3>1. Unmap(ctor) = [source |-> source, step |-> step, fds |-> 1, maps |-> {}]
      BY <1>1, <2>1 DEF Unmap
    <3>2. Close(Close(Unmap(ctor))) = empty
      BY <3>1, CloseOnce, CloseAgain
    <3> QED
      BY <1>2, <2>3, <3>2
  <2> QED
    BY <1>6, <2>2, <2>3 DEF TryMirror
<1> QED
  BY <1>3, <1>4, <1>5, <1>6 DEF Construct

\* Whatever fails and in whichever order, a RingBuffer that was constructed has
\* its ring and its mirror and no descriptor, and one that threw has left neither
\* mappings nor descriptors, in spite of the descriptors that try_map and its
\* caller both close.
THEOREM ConstructorIsClean == RingSpec => []ConstructedOrClean
<1>1. RingInit => CtorInv
  BY DEF RingInit, CtorInv, Holds
<1>2. CtorInv /\ [RingNext]_rvars => CtorInv'
  <2> SUFFICES ASSUME CtorInv, [RingNext]_rvars
               PROVE  CtorInv'
    OBVIOUS
  <2>1. CASE Construct
    BY <2>1, ConstructSteps
  <2>2. CASE UNCHANGED ctor
    BY <2>2 DEF CtorInv
  <2>3. ASSUME NEW p \in Producers, WriteStep(p)
        PROVE  UNCHANGED ctor
    BY <2>3 DEF WriteStep, WriteBegin, LoadWritePos, LoadReadPos, NoSpace, Reserve,
                Contended, SerializeHeader, SerializeBody, Leave
  <2>4. ASSUME NEW c \in Readers, ReadStep(c)
        PROVE  UNCHANGED ctor
    BY <2>4 DEF ReadStep, ReadEmpty, ReadHeader, ReadBody
  <2> QED
    BY <2>1, <2>2, <2>3, <2>4 DEF RingNext, rvars
<1>3. CtorInv => ConstructedOrClean
  BY DEF CtorInv, Holds, ConstructedOrClean
<1> QED
  BY <1>1, <1>2, <1>3, PTL DEF RingSpec

-----------------------------------------------------------------------------
(* Types, and what each step of a writer does to its own state *)

WrSteps == {"idle", "load", "load_read", "test", "header", "body", "gave_up", "stopped"}

Wr == [at : WrSteps, w : Int, r : Int, size : EntrySizes \cup {0}, tries : Int, n : Nat]

InWrite == {"load", "load_read", "test", "header", "body"}

RingTypeOK ==
  /\ entries \in Seq([start : Int, size : EntrySizes])
  /\ write_pos \in 0 .. Size - 1 /\ read_pos \in 0 .. Size - 1
  /\ wr \in [Producers -> Wr]
  /\ \A p \in Producers : wr[p].at \in InWrite => wr[p].size \in EntrySizes
  /\ \A p \in Producers : wr[p].at \in {"header", "body"} => wr[p].n \in 1 .. Len(entries)
  /\ rd \in [Readers -> [at : {"idle", "body", "done"}, size : Int]]
  /\ buffer \in [0 .. Size - 1 -> (0 .. Len(entries)) \X Nat]
  /\ got \in Nat

\* Producer p goes on with the fields given, the others stay as they are.
Moves(p, at, w, r, size, tries, n) ==
  /\ wr' \in [Producers -> Wr]
  /\ wr'[p].at = at /\ wr'[p].w = w /\ wr'[p].r = r /\ wr'[p].size = size
  /\ wr'[p].tries = tries /\ wr'[p].n = n
  /\ \A q \in Producers \ {p} : wr'[q] = wr[q]

\* The assumptions on the constants, in the form the steps need.
LEMMA SizesArePositive == Size \in Nat \ {0} /\ \A s \in EntrySizes : s \in Nat /\ s >= 2 /\ s <= Size
BY RingAssumption

\* A new record for one producer moves that producer alone.
LEMMA Moving ==
  ASSUME wr \in [Producers -> Wr], NEW p \in Producers, NEW rec \in Wr,
         wr' = [wr EXCEPT ![p] = rec]
  PROVE  Moves(p, rec.at, rec.w, rec.r, rec.size, rec.tries, rec.n)
BY DEF Moves

\* What the steps of a write do to the record of the writer: it begins with three tries,
LEMMA BeginMoves ==
  ASSUME RingTypeOK, NEW p \in Producers, NEW size \in EntrySizes, WriteBegin(p, size)
  PROVE  Moves(p, "load", wr[p].w, wr[p].r, size, 3, Len(entries))
<1> DEFINE new == Len(entries)
           rec == [wr[p] EXCEPT !.at = "load", !.size = size, !.tries = 3, !.n = new]
<1>1. wr \in [Producers -> Wr] /\ new \in Nat
  BY DEF RingTypeOK
<1>2. wr' = [wr EXCEPT ![p] = rec]
  BY DEF WriteBegin
<1> HIDE DEF new
<1>3. wr' = [wr EXCEPT ![p] = rec]
  BY <1>1, <1>2
<1>4. rec \in Wr
  <2> DEFINE half == [wr[p] EXCEPT !.at = "load", !.size = size]
  <2>1. half \in Wr
    BY <1>1 DEF Wr, WrSteps
  <2> DEFINE most == [half EXCEPT !.tries = 3]
  <2>2. rec = [most EXCEPT !.n = new]
    BY Zenon
  <2> HIDE DEF half, rec
  <2>3. most \in Wr
    BY <2>1 DEF Wr
  <2> HIDE DEF most
  <2> QED
    BY <1>1, <2>2, <2>3 DEF Wr
<1>5. /\ rec.at = "load" /\ rec.w = wr[p].w /\ rec.r = wr[p].r /\ rec.size = size
      /\ rec.tries = 3 /\ rec.n = new
  BY <1>1 DEF Wr
<1> HIDE DEF rec
<1> QED
  BY <1>1, <1>3, <1>4, <1>5, Moving DEF new

\* loads write_pos,
LEMMA LoadWriteMoves ==
  ASSUME RingTypeOK, NEW p \in Producers, LoadWritePos(p)
  PROVE  Moves(p, "load_read", write_pos, wr[p].r, wr[p].size, wr[p].tries, wr[p].n)
<1> DEFINE new == write_pos
           rec == [wr[p] EXCEPT !.at = "load_read", !.w = new]
<1>1. wr \in [Producers -> Wr] /\ new \in Int
  BY DEF RingTypeOK
<1>2. wr' = [wr EXCEPT ![p].at = "load_read", ![p].w = new]
  BY DEF LoadWritePos
<1> HIDE DEF new
<1>3. wr' = [wr EXCEPT ![p] = rec]
  BY <1>1, <1>2
<1>4. rec \in Wr
  BY <1>1 DEF Wr, WrSteps
<1>5. /\ rec.at = "load_read" /\ rec.w = new /\ rec.r = wr[p].r /\ rec.size = wr[p].size
      /\ rec.tries = wr[p].tries /\ rec.n = wr[p].n
  BY <1>1 DEF Wr
<1> HIDE DEF rec
<1> QED
  BY <1>1, <1>3, <1>4, <1>5, Moving DEF new

\* loads read_pos,
LEMMA LoadReadMoves ==
  ASSUME RingTypeOK, NEW p \in Producers, LoadReadPos(p)
  PROVE  Moves(p, "test", wr[p].w, read_pos, wr[p].size, wr[p].tries, wr[p].n)
<1> DEFINE new == read_pos
           rec == [wr[p] EXCEPT !.at = "test", !.r = new]
<1>1. wr \in [Producers -> Wr] /\ new \in Int
  BY DEF RingTypeOK
<1>2. wr' = [wr EXCEPT ![p].at = "test", ![p].r = new]
  BY DEF LoadReadPos
<1> HIDE DEF new
<1>3. wr' = [wr EXCEPT ![p] = rec]
  BY <1>1, <1>2
<1>4. rec \in Wr
  BY <1>1 DEF Wr, WrSteps
<1>5. /\ rec.at = "test" /\ rec.w = wr[p].w /\ rec.r = new /\ rec.size = wr[p].size
      /\ rec.tries = wr[p].tries /\ rec.n = wr[p].n
  BY <1>1 DEF Wr
<1> HIDE DEF rec
<1> QED
  BY <1>1, <1>3, <1>4, <1>5, Moving DEF new

\* reserves its entry,
LEMMA ReserveMoves ==
  ASSUME RingTypeOK, NEW p \in Producers, Reserve(p)
  PROVE  Moves(p, "header", wr[p].w, wr[p].r, wr[p].size, wr[p].tries, Len(entries) + 1)
<1> DEFINE new == Len(entries) + 1
           rec == [wr[p] EXCEPT !.at = "header", !.n = new]
<1>1. wr \in [Producers -> Wr] /\ new \in Nat
  BY DEF RingTypeOK
<1>2. wr' = [wr EXCEPT ![p].at = "header", ![p].n = new]
  BY DEF Reserve
<1> HIDE DEF new
<1>3. wr' = [wr EXCEPT ![p] = rec]
  BY <1>1, <1>2
<1>4. rec \in Wr
  BY <1>1 DEF Wr, WrSteps
<1>5. /\ rec.at = "header" /\ rec.w = wr[p].w /\ rec.r = wr[p].r /\ rec.size = wr[p].size
      /\ rec.tries = wr[p].tries /\ rec.n = new
  BY <1>1 DEF Wr
<1> HIDE DEF rec
<1> QED
  BY <1>1, <1>3, <1>4, <1>5, Moving DEF new

\* or loses the exchange and one try,
LEMMA ContendedMoves ==
  ASSUME RingTypeOK, NEW p \in Producers, Contended(p)
  PROVE  Moves(p, IF wr[p].tries - 1 > 0 THEN "load" ELSE "gave_up",
               wr[p].w, wr[p].r, wr[p].size, wr[p].tries - 1, wr[p].n)
<1> DEFINE at == IF wr[p].tries - 1 > 0 THEN "load" ELSE "gave_up"
           left == wr[p].tries - 1
<1>1. wr \in [Producers -> Wr] /\ left \in Int /\ at \in {"load", "gave_up"}
  BY DEF RingTypeOK, Wr
<1>2. wr' = [wr EXCEPT ![p].tries = left, ![p].at = at]
  BY <1>1 DEF Contended
<1> HIDE DEF at, left
<1> DEFINE rec == [wr[p] EXCEPT !.tries = left, !.at = at]
<1>3. wr' = [wr EXCEPT ![p] = rec]
  BY <1>1, <1>2
<1>4. /\ rec \in Wr /\ rec.at = at /\ rec.w = wr[p].w /\ rec.r = wr[p].r
      /\ rec.size = wr[p].size /\ rec.tries = left /\ rec.n = wr[p].n
  BY <1>1 DEF Wr, WrSteps
<1> HIDE DEF rec
<1>5. Moves(p, at, wr[p].w, wr[p].r, wr[p].size, left, wr[p].n)
  BY <1>1, <1>3, <1>4, Moving
<1> QED
  BY <1>5 DEF at, left

\* serializes the header,
LEMMA HeaderMoves ==
  ASSUME RingTypeOK, NEW p \in Producers, SerializeHeader(p)
  PROVE  Moves(p, "body", wr[p].w, wr[p].r, wr[p].size, wr[p].tries, wr[p].n)
<1> DEFINE rec == [wr[p] EXCEPT !.at = "body"]
<1>1. wr' = [wr EXCEPT ![p] = rec] /\ wr \in [Producers -> Wr]
  BY DEF SerializeHeader, RingTypeOK
<1>2. /\ rec \in Wr /\ rec.at = "body" /\ rec.w = wr[p].w /\ rec.r = wr[p].r
      /\ rec.size = wr[p].size /\ rec.tries = wr[p].tries /\ rec.n = wr[p].n
  BY <1>1 DEF Wr, WrSteps
<1> HIDE DEF rec
<1> QED
  BY <1>1, <1>2, Moving

\* and returns.
LEMMA EndMoves ==
  ASSUME RingTypeOK, NEW p \in Producers, NEW step \in {"idle", "stopped"},
         wr' = [wr EXCEPT ![p] = Between(step)]
  PROVE  Moves(p, step, 0, 0, 0, 0, 0)
<1>1. /\ Between(step) \in Wr /\ Between(step).at = step
      /\ Between(step).w = 0 /\ Between(step).r = 0 /\ Between(step).size = 0
      /\ Between(step).tries = 0 /\ Between(step).n = 0
  BY DEF Between, Wr, WrSteps
<1> QED
  <2> DEFINE rec == Between(step)
  <2>1. wr \in [Producers -> Wr] /\ wr' = [wr EXCEPT ![p] = rec]
    BY DEF RingTypeOK
  <2>2. /\ rec \in Wr /\ rec.at = step /\ rec.w = 0 /\ rec.r = 0 /\ rec.size = 0
        /\ rec.tries = 0 /\ rec.n = 0
    BY <1>1
  <2> HIDE DEF rec
  <2> QED
    BY <2>1, <2>2, Moving

-----------------------------------------------------------------------------
(* Type correctness *)

\* A reservation appends one entry, which starts at write_pos as it was loaded.
LEMMA ReserveAppends ==
  ASSUME RingTypeOK, NEW p \in Producers, Reserve(p)
  PROVE  /\ Len(entries') = Len(entries) + 1 /\ Len(entries) \in Nat
         /\ \A n \in 1 .. Len(entries) : entries'[n] = entries[n]
         /\ entries'[Len(entries) + 1].start = write_pos
         /\ entries'[Len(entries) + 1].size = wr[p].size
         /\ wr[p].w = write_pos /\ wr[p].size \in EntrySizes
         /\ entries' \in Seq([start : Int, size : EntrySizes])
         /\ write_pos' = (write_pos + wr[p].size) % Size
         /\ ~lapped' => ~lapped /\ write_pos + wr[p].size < Size
<1>1. wr[p].w = write_pos /\ wr[p].size \in EntrySizes /\ write_pos \in Int
  BY DEF Reserve, CompareExchange, RingTypeOK, InWrite
<1> DEFINE e == [start |-> wr[p].w, size |-> wr[p].size]
<1>2. e \in [start : Int, size : EntrySizes] /\ e.start = write_pos /\ e.size = wr[p].size
  BY <1>1
<1>3. entries' = Append(entries, e) /\ entries \in Seq([start : Int, size : EntrySizes])
  BY DEF Reserve, RingTypeOK
<1> HIDE DEF e
<1>4. /\ Len(entries') = Len(entries) + 1 /\ Len(entries) \in Nat
      /\ \A n \in 1 .. Len(entries) : entries'[n] = entries[n]
      /\ entries'[Len(entries) + 1] = e
      /\ entries' \in Seq([start : Int, size : EntrySizes])
  BY <1>2, <1>3
<1>5. write_pos' = (write_pos + wr[p].size) % Size
  BY <1>1 DEF Reserve, NextWrite
<1>6. ~lapped' => ~lapped /\ write_pos + wr[p].size < Size
  <2> DEFINE past == write_pos + wr[p].size >= Size
  <2>1. lapped' = (lapped \/ past)
    BY <1>1, Zenon DEF Reserve, NextWrite
  <2>2. past \/ write_pos + wr[p].size < Size
    BY <1>1, SizesArePositive
  <2> QED
    BY <2>1, <2>2, Zenon
<1> QED
  BY <1>1, <1>2, <1>4, <1>5, <1>6

\* A step of a writer that touches neither the positions nor the buffer.
LEMMA QuietTypes ==
  ASSUME RingTypeOK, NEW p \in Producers, UNCHANGED <<pos, buffer, rd, entries, got>>,
         NEW at, NEW w, NEW r, NEW size, NEW tries, NEW n, Moves(p, at, w, r, size, tries, n),
         at \in InWrite => size \in EntrySizes,
         at \in {"header", "body"} => n \in 1 .. Len(entries)
  PROVE  RingTypeOK'
<1>1. \A q \in Producers : wr'[q].at \in InWrite => wr'[q].size \in EntrySizes
  BY DEF RingTypeOK, Moves
<1>2. \A q \in Producers : wr'[q].at \in {"header", "body"} => wr'[q].n \in 1 .. Len(entries')
  BY DEF RingTypeOK, Moves
<1> QED
  BY <1>1, <1>2 DEF RingTypeOK, Moves, pos

\* The steps of a write keep the types.
LEMMA WriteTypes == ASSUME RingTypeOK, NEW p \in Producers, WriteStep(p) PROVE RingTypeOK'
<1>1. ASSUME NEW size \in EntrySizes, WriteBegin(p, size) PROVE RingTypeOK'
  BY <1>1, BeginMoves, QuietTypes DEF WriteBegin, hist
<1>2. CASE LoadWritePos(p)
  <2>1. wr[p].size \in EntrySizes
    BY <1>2 DEF LoadWritePos, RingTypeOK, InWrite
  <2> QED
    BY <1>2, <2>1, LoadWriteMoves, QuietTypes DEF LoadWritePos, hist
<1>3. CASE LoadReadPos(p)
  <2>1. wr[p].size \in EntrySizes
    BY <1>3 DEF LoadReadPos, RingTypeOK, InWrite
  <2> QED
    BY <1>3, <2>1, LoadReadMoves, QuietTypes DEF LoadReadPos, hist
<1>4. CASE NoSpace(p)
  BY <1>4, EndMoves, QuietTypes DEF NoSpace, InWrite, hist
<1>5. CASE Contended(p)
  <2>1. wr[p].size \in EntrySizes
    BY <1>5 DEF Contended, RingTypeOK, InWrite
  <2> QED
    BY <1>5, <2>1, ContendedMoves, QuietTypes DEF Contended, hist
<1>6. CASE Leave(p)
  BY <1>6, EndMoves, QuietTypes DEF Leave, InWrite, hist
<1>7. CASE Reserve(p)
  <2>1. Moves(p, "header", wr[p].w, wr[p].r, wr[p].size, wr[p].tries, Len(entries) + 1)
    BY <1>7, ReserveMoves
  <2>2. UNCHANGED <<read_pos, buffer, rd, got>>
    BY <1>7 DEF Reserve
  <2>3. write_pos' \in 0 .. Size - 1
    <3>1. write_pos' = (write_pos + wr[p].size) % Size /\ wr[p].size \in EntrySizes
      BY <1>7, ReserveAppends
    <3>2. write_pos + wr[p].size \in Int
      BY <3>1, SizesArePositive DEF RingTypeOK
    <3> QED
      BY <3>1, <3>2, SizesArePositive
  <2>4. \A q \in Producers : wr'[q].at \in InWrite => wr'[q].size \in EntrySizes
    BY <1>7, <2>1, ReserveAppends DEF RingTypeOK, Moves
  <2>5. \A q \in Producers : wr'[q].at \in {"header", "body"} => wr'[q].n \in 1 .. Len(entries')
    <3>1. Len(entries') = Len(entries) + 1 /\ Len(entries) \in Nat
      BY <1>7, ReserveAppends
    <3>2. wr'[p].n = Len(entries) + 1 /\ \A q \in Producers \ {p} : wr'[q] = wr[q]
      BY <2>1 DEF Moves
    <3> QED
      BY <3>1, <3>2 DEF RingTypeOK
  <2>6. buffer' \in [0 .. Size - 1 -> (0 .. Len(entries')) \X Nat]
    <3>1. (0 .. Len(entries)) \X Nat \subseteq (0 .. Len(entries')) \X Nat
      BY <1>7, ReserveAppends
    <3> HIDE DEF RingTypeOK
    <3> QED
      BY <2>2, <3>1 DEF RingTypeOK
  <2> QED
    BY <1>7, <2>1, <2>2, <2>3, <2>4, <2>5, <2>6, ReserveAppends DEF RingTypeOK, Moves
<1>8. CASE SerializeHeader(p)
  <2>1. /\ wr[p].n \in 1 .. Len(entries) /\ wr[p].size \in EntrySizes /\ Len(entries) \in Nat
        /\ Cell(p, 0) \in 0 .. Size - 1
    <3>1. wr[p].w + 0 \in Int
      BY DEF RingTypeOK, Wr
    <3>2. Cell(p, 0) \in 0 .. Size - 1
      BY <3>1, SizesArePositive DEF Cell
    <3> QED
      BY <1>8, <3>2 DEF SerializeHeader, RingTypeOK, InWrite
  <2>2. Moves(p, "body", wr[p].w, wr[p].r, wr[p].size, wr[p].tries, wr[p].n)
    BY <1>8, HeaderMoves
  <2>3. UNCHANGED <<pos, rd, entries, got>>
    BY <1>8 DEF SerializeHeader, hist
  <2>4. buffer' \in [0 .. Size - 1 -> (0 .. Len(entries)) \X Nat]
    <3>1. <<wr[p].n, 0>> \in (0 .. Len(entries)) \X Nat
      BY <2>1
    <3> QED
      BY <1>8, <2>1, <3>1 DEF SerializeHeader, RingTypeOK
  <2>5. \A q \in Producers : wr'[q].at \in InWrite => wr'[q].size \in EntrySizes
    BY <2>1, <2>2 DEF RingTypeOK, Moves
  <2>6. \A q \in Producers : wr'[q].at \in {"header", "body"} => wr'[q].n \in 1 .. Len(entries')
    BY <2>1, <2>2, <2>3 DEF RingTypeOK, Moves
  <2> QED
    BY <2>2, <2>3, <2>4, <2>5, <2>6 DEF RingTypeOK, Moves, pos
<1>9. CASE SerializeBody(p)
  <2>1. /\ wr[p].n \in 1 .. Len(entries) /\ wr[p].size \in EntrySizes /\ Len(entries) \in Nat
    BY <1>9 DEF SerializeBody, RingTypeOK, InWrite
  <2>2. Moves(p, "idle", 0, 0, 0, 0, 0)
    BY <1>9, EndMoves DEF SerializeBody
  <2>3. UNCHANGED <<pos, rd, entries, got>>
    BY <1>9 DEF SerializeBody, hist
  <2>4. buffer' \in [0 .. Size - 1 -> (0 .. Len(entries)) \X Nat]
    <3> DEFINE K(i) == CHOOSE k \in 1 .. wr[p].size - 1 : Cell(p, k) = i
               Body(i) == \E k \in 1 .. wr[p].size - 1 : Cell(p, k) = i
    <3>1. ASSUME NEW i \in 0 .. Size - 1, Body(i)
          PROVE  K(i) \in Nat
      <4>1. wr[p].size \in Nat
        BY <2>1, SizesArePositive
      <4>2. K(i) \in 1 .. wr[p].size - 1
        BY <3>1
      <4> HIDE DEF K
      <4> QED
        BY <4>1, <4>2
    <3>2. buffer' = [i \in 0 .. Size - 1 |-> IF Body(i) THEN <<wr[p].n, K(i)>> ELSE buffer[i]]
      BY <1>9 DEF SerializeBody, RingTypeOK
    <3> HIDE DEF K, Body
    <3>3. \A i \in 0 .. Size - 1 : buffer[i] \in (0 .. Len(entries)) \X Nat
      BY DEF RingTypeOK
    <3>4. wr[p].n \in 0 .. Len(entries)
      BY <2>1
    <3> QED
      BY <3>1, <3>2, <3>3, <3>4
  <2>5. \A q \in Producers : wr'[q].at \in InWrite => wr'[q].size \in EntrySizes
    BY <2>2 DEF RingTypeOK, Moves, InWrite
  <2>6. \A q \in Producers : wr'[q].at \in {"header", "body"} => wr'[q].n \in 1 .. Len(entries')
    BY <2>2, <2>3 DEF RingTypeOK, Moves
  <2> QED
    BY <2>2, <2>3, <2>4, <2>5, <2>6 DEF RingTypeOK, Moves, pos
<1> QED
  BY <1>1, <1>2, <1>3, <1>4, <1>5, <1>6, <1>7, <1>8, <1>9 DEF WriteStep

\* An entry has its fields.
LEMMA EntryTypes ==
  ASSUME RingTypeOK, NEW n \in 1 .. Len(entries)
  PROVE  entries[n].size \in EntrySizes /\ entries[n].start \in Int
<1> DEFINE E == [start : Int, size : EntrySizes]
<1>1. entries \in Seq(E)
  BY DEF RingTypeOK
<1> HIDE DEF E
<1>2. entries[n] \in E
  BY <1>1
<1> QED
  BY <1>2 DEF E

\* The steps of a reader keep the types and touch nothing that the writers own.
LEMMA ReadTypes == ASSUME RingTypeOK, NEW c \in Readers, ReadStep(c)
                   PROVE  RingTypeOK' /\ UNCHANGED <<write_pos, buffer, wr, entries, lapped>>
<1>1. rd \in [Readers -> [at : {"idle", "body", "done"}, size : Int]]
  BY DEF RingTypeOK
<1>2. CASE ReadEmpty(c)
  <2>1. UNCHANGED <<pos, buffer, wr, entries, lapped, got>> /\ rd' = [rd EXCEPT ![c].at = "done"]
    BY <1>2 DEF ReadEmpty
  <2>2. rd' \in [Readers -> [at : {"idle", "body", "done"}, size : Int]]
    BY <1>1, <2>1
  <2> QED
    BY <2>1, <2>2 DEF RingTypeOK, pos
<1>3. CASE ReadHeader(c)
  <2>1. PICK size \in HeaderSizes(buffer[read_pos]) :
          rd' = [rd EXCEPT ![c] = [at |-> "body", size |-> size]]
    BY <1>3 DEF ReadHeader
  <2>2. UNCHANGED <<pos, buffer, wr, entries, lapped, got>>
    BY <1>3 DEF ReadHeader
  <2>3. size \in Int
    <3> DEFINE cell == buffer[read_pos]
    <3>1. cell \in (0 .. Len(entries)) \X Nat
      BY DEF RingTypeOK
    <3>2. cell[1] \in 0 .. Len(entries) /\ Len(entries) \in Nat
      BY <3>1 DEF RingTypeOK
    <3>3. size \in HeaderSizes(cell)
      OBVIOUS
    <3> HIDE DEF cell
    <3>4. CASE cell[1] = 0
      BY <3>3, <3>4 DEF HeaderSizes
    <3>5. CASE cell[1] # 0 /\ cell[2] = 0
      <4>1. size = entries[cell[1]].size /\ cell[1] \in 1 .. Len(entries)
        BY <3>2, <3>3, <3>5 DEF HeaderSizes
      <4>2. entries[cell[1]].size \in EntrySizes
        BY <4>1, EntryTypes
      <4> QED
        BY <4>1, <4>2, SizesArePositive
    <3>6. CASE cell[1] # 0 /\ cell[2] # 0
      BY <3>3, <3>6, SizesArePositive DEF HeaderSizes
    <3> QED
      BY <3>4, <3>5, <3>6
  <2>4. rd' \in [Readers -> [at : {"idle", "body", "done"}, size : Int]]
    BY <1>1, <2>1, <2>3
  <2> QED
    BY <2>2, <2>4 DEF RingTypeOK, pos
<1>4. CASE ReadBody(c)
  <2>1. UNCHANGED <<write_pos, buffer, wr, entries, lapped>> /\ rd' = [rd EXCEPT ![c].at = "idle"]
    BY <1>4 DEF ReadBody
  <2>2. rd' \in [Readers -> [at : {"idle", "body", "done"}, size : Int]]
    BY <1>1, <2>1
  <2>3. read_pos' \in 0 .. Size - 1
    <3>1. rd[c].size \in Int
      BY <1>1
    <3>2. read_pos + rd[c].size \in Int
      BY <3>1 DEF RingTypeOK
    <3> QED
      BY <1>4, <3>2, SizesArePositive DEF ReadBody
  <2>4. got' \in Nat
    BY <1>4 DEF ReadBody, RingTypeOK
  <2> QED
    BY <2>1, <2>2, <2>3, <2>4 DEF RingTypeOK
<1> QED
  BY <1>2, <1>3, <1>4 DEF ReadStep

\* The empty ring is well typed.
LEMMA RingTypesStart == RingInit => RingTypeOK
<1> SUFFICES ASSUME RingInit
             PROVE  RingTypeOK
  OBVIOUS
<1>1. Len(entries) = 0 /\ entries \in Seq([start : Int, size : EntrySizes])
  BY DEF RingInit
<1>2. \A step \in {"idle"} : Between(step) \in Wr /\ Between(step).at = step
  BY DEF Between, Wr, WrSteps
<1>3. wr \in [Producers -> Wr] /\ \A p \in Producers : wr[p].at = "idle"
  BY <1>2 DEF RingInit
<1>4. <<0, 0>> \in (0 .. Len(entries)) \X Nat
  BY <1>1
<1>5. buffer \in [0 .. Size - 1 -> (0 .. Len(entries)) \X Nat]
  BY <1>4 DEF RingInit
<1>6. rd \in [Readers -> [at : {"idle", "body", "done"}, size : Int]]
  BY DEF RingInit
<1>7. write_pos \in 0 .. Size - 1 /\ read_pos \in 0 .. Size - 1 /\ got \in Nat
  BY SizesArePositive DEF RingInit
<1> QED
  BY <1>1, <1>3, <1>5, <1>6, <1>7 DEF RingTypeOK, InWrite

\* A step of nobody, or of the constructor.
Aside == UNCHANGED <<pos, buffer, wr, rd, hist>>

\* Every step is one of the constructor, of a writer or of a reader.
LEMMA StepKinds == [RingNext]_rvars => \/ Aside
                                       \/ \E p \in Producers : WriteStep(p)
                                       \/ \E c \in Readers : ReadStep(c)
BY DEF RingNext, Construct, Aside, rvars

\* The types are inductive.
LEMMA RingTypesStep == RingTypeOK /\ [RingNext]_rvars => RingTypeOK'
<1> SUFFICES ASSUME RingTypeOK, [RingNext]_rvars
             PROVE  RingTypeOK'
  OBVIOUS
<1>1. CASE Aside
  BY <1>1 DEF Aside, RingTypeOK, pos, hist
<1> QED
  BY <1>1, StepKinds, WriteTypes, ReadTypes

-----------------------------------------------------------------------------
(* Giving up *)

\* A writer that has t tries left has seen 3 - t exchanges fail, each because of
\* an entry accepted since it loaded write_pos.
TriesOf(p) ==
  /\ wr[p].at \in {"load", "load_read", "test"} =>
       wr[p].tries \in 1 .. 3 /\ wr[p].n + (3 - wr[p].tries) <= Len(entries)
  /\ wr[p].at \in {"load_read", "test"} /\ Len(entries) = wr[p].n + (3 - wr[p].tries) =>
       write_pos = wr[p].w
  /\ wr[p].at = "gave_up" => wr[p].n + 3 <= Len(entries)

TriesInv == \A p \in Producers : TriesOf(p)

\* A writer keeps its count while nothing is accepted.
LEMMA TriesStay ==
  ASSUME NEW q \in Producers, TriesOf(q), wr'[q] = wr[q], UNCHANGED <<entries, write_pos>>
  PROVE  TriesOf(q)'
BY DEF TriesOf

\* Only an accepted entry makes the exchange of another writer fail.
LEMMA TriesSteps == RingTypeOK /\ TriesInv /\ [RingNext]_rvars => TriesInv'
<1> SUFFICES ASSUME RingTypeOK, TriesInv, [RingNext]_rvars, NEW q \in Producers
             PROVE  TriesOf(q)'
  BY DEF TriesInv
<1>1. TriesOf(q) /\ Len(entries) \in Nat /\ wr[q].n \in Nat /\ wr[q].tries \in Int
  BY DEF TriesInv, RingTypeOK, Wr
<1>2. CASE Aside
  BY <1>1, <1>2, TriesStay DEF Aside, pos, hist
<1>3. CASE \E c \in Readers : ReadStep(c)
  BY <1>1, <1>3, ReadTypes, TriesStay
<1>4. ASSUME NEW p \in Producers, WriteStep(p)
      PROVE  TriesOf(q)'
  <2>1. CASE Reserve(p)
    <3>1. /\ Len(entries') = Len(entries) + 1
          /\ wr'[p].at = "header" /\ \A x \in Producers \ {p} : wr'[x] = wr[x]
      BY <2>1, ReserveAppends, ReserveMoves DEF Moves
    <3>2. CASE q = p
      BY <3>1, <3>2 DEF TriesOf
    <3>3. CASE q # p
      <4>1. wr'[q] = wr[q]
        BY <3>1, <3>3
      <4> QED
        BY <1>1, <3>1, <4>1 DEF TriesOf
    <3> QED
      BY <3>2, <3>3
  <2>2. CASE ~Reserve(p)
    <3>1. UNCHANGED <<entries, write_pos>>
      BY <1>4, <2>2 DEF WriteStep, WriteBegin, LoadWritePos, LoadReadPos, NoSpace, Contended,
                        SerializeHeader, SerializeBody, Leave, pos, hist
    <3>2. ASSUME NEW at, NEW w, NEW r, NEW size, NEW tries, NEW n,
                 Moves(p, at, w, r, size, tries, n), q # p
          PROVE  TriesOf(q)'
      BY <1>1, <3>1, <3>2, TriesStay DEF Moves
    <3>3. ASSUME NEW size \in EntrySizes, WriteBegin(p, size)
          PROVE  TriesOf(q)'
      <4>1. Moves(p, "load", wr[p].w, wr[p].r, size, 3, Len(entries))
        BY <3>3, BeginMoves
      <4>2. CASE q = p
        BY <1>1, <3>1, <4>1, <4>2 DEF TriesOf, Moves
      <4> QED
        BY <3>2, <4>1, <4>2
    <3>4. CASE LoadWritePos(p)
      <4>1. Moves(p, "load_read", write_pos, wr[p].r, wr[p].size, wr[p].tries, wr[p].n)
        BY <3>4, LoadWriteMoves
      <4>2. CASE q = p
        BY <1>1, <3>1, <3>4, <4>1, <4>2 DEF TriesOf, Moves, LoadWritePos
      <4> QED
        BY <3>2, <4>1, <4>2
    <3>5. CASE LoadReadPos(p)
      <4>1. Moves(p, "test", wr[p].w, read_pos, wr[p].size, wr[p].tries, wr[p].n)
        BY <3>5, LoadReadMoves
      <4>2. CASE q = p
        BY <1>1, <3>1, <3>5, <4>1, <4>2 DEF TriesOf, Moves, LoadReadPos
      <4> QED
        BY <3>2, <4>1, <4>2
    <3>6. CASE Contended(p)
      <4>1. Moves(p, IF wr[p].tries - 1 > 0 THEN "load" ELSE "gave_up",
                  wr[p].w, wr[p].r, wr[p].size, wr[p].tries - 1, wr[p].n)
        BY <3>6, ContendedMoves
      <4>2. CASE q = p
        <5>1. wr[p].at = "test" /\ write_pos # wr[p].w
          BY <3>6 DEF Contended, CompareExchange
        <5>2. wr[p].tries \in 1 .. 3 /\ wr[p].n + (3 - wr[p].tries) < Len(entries)
          BY <1>1, <4>2, <5>1 DEF TriesOf
        <5>3. /\ wr'[p].tries = wr[p].tries - 1 /\ wr'[p].n = wr[p].n
              /\ wr'[p].at = IF wr[p].tries - 1 > 0 THEN "load" ELSE "gave_up"
          BY <4>1 DEF Moves
        <5> QED
          BY <1>1, <3>1, <4>2, <5>2, <5>3 DEF TriesOf
      <4> QED
        BY <3>2, <4>1, <4>2
    <3>7. CASE SerializeHeader(p)
      <4>1. Moves(p, "body", wr[p].w, wr[p].r, wr[p].size, wr[p].tries, wr[p].n)
        BY <3>7, HeaderMoves
      <4>2. CASE q = p
        BY <4>1, <4>2 DEF TriesOf, Moves
      <4> QED
        BY <3>2, <4>1, <4>2
    <3>8. CASE SerializeBody(p) \/ NoSpace(p) \/ Leave(p)
      <4>1. PICK step \in {"idle", "stopped"} : Moves(p, step, 0, 0, 0, 0, 0)
        BY <3>8, EndMoves DEF SerializeBody, NoSpace, Leave
      <4>2. CASE q = p
        BY <4>1, <4>2 DEF TriesOf, Moves
      <4> QED
        BY <3>2, <4>1, <4>2
    <3> QED
      BY <1>4, <2>2, <3>3, <3>4, <3>5, <3>6, <3>7, <3>8 DEF WriteStep
  <2> QED
    BY <2>1, <2>2
<1> QED
  BY <1>2, <1>3, <1>4, StepKinds

\* write returns for contention only when three other writes were accepted since
\* it began, however many producers there are and however they interleave: the
\* bound of three tries costs an entry only under real contention.
THEOREM GiveUpNeedsContention == RingSpec => []GivesUpAfterThree
<1>1. RingInit => TriesInv
  <2> SUFFICES ASSUME RingInit, NEW p \in Producers
               PROVE  TriesOf(p)
    BY DEF TriesInv
  <2>1. wr[p].at = "idle"
    BY DEF RingInit, Between
  <2> QED
    BY <2>1 DEF TriesOf
<1>2. RingTypeOK /\ TriesInv => GivesUpAfterThree
  BY DEF RingTypeOK, Wr, TriesInv, TriesOf, GivesUpAfterThree
<1> QED
  BY <1>1, <1>2, RingTypesStart, RingTypesStep, TriesSteps, PTL DEF RingSpec

-----------------------------------------------------------------------------
(* The first lap *)

End(n) == entries[n].start + entries[n].size

\* The entries lie end to end, from the start of the buffer to write_pos.
Layout ==
  /\ \A n \in 1 .. Len(entries) :
       /\ 0 <= entries[n].start /\ End(n) <= write_pos
       /\ n = 1 => entries[n].start = 0
       /\ n = Len(entries) => End(n) = write_pos
       /\ n < Len(entries) => entries[n + 1].start = End(n)
       /\ \A m \in 1 .. n - 1 : End(m) <= entries[n].start
  /\ Len(entries) = 0 => write_pos = 0

\* A cell was never written, or belongs to the entry that lies there.
CellOf(i) ==
  \/ buffer[i] = <<0, 0>>
  \/ \E n \in 1 .. Len(entries), k \in Nat :
       k < entries[n].size /\ buffer[i] = <<n, k>> /\ i = entries[n].start + k

CellsPlaced == \A i \in 0 .. Size - 1 : CellOf(i)

Filling(p) == wr[p].at \in {"header", "body"}

\* Every writer that serializes has an entry of its own.
OwnEntry ==
  /\ \A p \in Producers : Filling(p) =>
       /\ entries[wr[p].n].start = wr[p].w /\ entries[wr[p].n].size = wr[p].size
       /\ wr[p].at = "body" => buffer[wr[p].w] = <<wr[p].n, 0>>
  /\ \A p, q \in Producers : Filling(p) /\ Filling(q) /\ p # q => wr[p].n # wr[q].n

\* The cells of an entry that no writer is still filling hold that entry.
Complete(n) == \A k \in Nat : k < entries[n].size => buffer[entries[n].start + k] = <<n, k>>

AllComplete == \A n \in 1 .. Len(entries) : Serialized(n) => Complete(n)

\* read_pos, and the size that a reader has taken from there.
Starts(i) == \E n \in 1 .. Len(entries) : entries[n].start = i

ReadPlace ==
  /\ read_pos = write_pos \/ Starts(read_pos)
  /\ \A c \in Readers : rd[c].at = "body" =>
       \/ rd[c].size = 0
       \/ \E n \in 1 .. Len(entries) : entries[n].start = read_pos /\ entries[n].size = rd[c].size

LapInv == Layout /\ CellsPlaced /\ OwnEntry /\ AllComplete /\ ReadPlace

\* The parent reads when the child is done.
OneReader == rd["parent"].at # "idle" => rd["child"].at = "done"

\* On the first lap an entry lies below write_pos and inside the buffer.
LEMMA Placed ==
  ASSUME RingTypeOK, Layout, NEW n \in 1 .. Len(entries)
  PROVE  /\ entries[n].start \in Nat /\ entries[n].size \in Nat /\ entries[n].size >= 2
         /\ End(n) \in Nat /\ End(n) <= write_pos /\ End(n) < Size
         /\ write_pos \in Nat /\ write_pos < Size /\ Len(entries) \in Nat
<1>1. entries[n].start \in Int /\ entries[n].size \in Nat /\ entries[n].size >= 2
  BY EntryTypes, SizesArePositive
<1>2. 0 <= entries[n].start /\ End(n) <= write_pos
  BY DEF Layout
<1>3. write_pos \in Nat /\ write_pos < Size /\ Len(entries) \in Nat
  BY SizesArePositive DEF RingTypeOK
<1> QED
  BY <1>1, <1>2, <1>3, SizesArePositive DEF End

\* Two entries share no cell.
LEMMA Disjoint ==
  ASSUME RingTypeOK, Layout, NEW m \in 1 .. Len(entries), NEW n \in 1 .. Len(entries), m # n,
         NEW k \in Nat, NEW l \in Nat, k < entries[m].size, l < entries[n].size
  PROVE  entries[m].start + k # entries[n].start + l
<1>1. End(m) <= entries[n].start \/ End(n) <= entries[m].start
  <2>1. m < n \/ n < m
    OBVIOUS
  <2>2. CASE m < n
    BY <2>2 DEF Layout
  <2>3. CASE n < m
    BY <2>3 DEF Layout
  <2> QED
    BY <2>1, <2>2, <2>3
<1>2. /\ entries[m].start \in Nat /\ entries[m].size \in Nat
      /\ entries[n].start \in Nat /\ entries[n].size \in Nat
  BY Placed
<1>3. PICK a \in Nat, b \in Nat, c \in Nat, d \in Nat :
        /\ a = entries[m].start /\ b = entries[m].size
        /\ c = entries[n].start /\ d = entries[n].size
  BY <1>2
<1>4. a + b <= c \/ c + d <= a
  BY <1>1, <1>3 DEF End
<1>5. a + k # c + l
  <2>1. k < b /\ l < d
    BY <1>3
  <2>2. a + k < c + l \/ c + l < a + k
    BY <1>4, <2>1
  <2>3. a + k \in Nat /\ c + l \in Nat
    OBVIOUS
  <2> QED
    BY <2>2, <2>3
<1> QED
  BY <1>3, <1>5

\* Positions of the first lap do not wrap.
LEMMA SmallMod == ASSUME NEW x \in Nat, x < Size PROVE x % Size = x
BY SizesArePositive

\* An accepted reservation extends the layout by one entry.
LEMMA ReserveLays ==
  ASSUME RingTypeOK, Layout, NEW p \in Producers, Reserve(p), ~lapped'
  PROVE  Layout' /\ write_pos' = write_pos + wr[p].size /\ ~lapped
<1>0. PICK len \in Nat, size \in EntrySizes : len = Len(entries) /\ size = wr[p].size
  BY ReserveAppends
<1>1. /\ Len(entries') = len + 1 /\ len \in Nat
      /\ \A n \in 1 .. len : entries'[n] = entries[n]
      /\ entries'[len + 1].start = write_pos /\ entries'[len + 1].size = size
      /\ size \in EntrySizes /\ write_pos' = (write_pos + size) % Size
      /\ ~lapped /\ write_pos + size < Size
  BY <1>0, ReserveAppends
<1>2. size \in Nat /\ size >= 2 /\ Size \in Nat /\ write_pos \in Nat /\ write_pos < Size
  BY <1>1, SizesArePositive DEF RingTypeOK
<1>3. write_pos' = write_pos + size
  <2>1. write_pos + size \in Nat /\ write_pos + size < Size
    BY <1>1, <1>2
  <2> QED
    BY <1>1, <2>1, SmallMod
<1>4. \A n \in 1 .. len : End(n)' = End(n)
  BY <1>1 DEF End
<1>5. End(len + 1)' = write_pos + size
  BY <1>1 DEF End
<1>6. ASSUME NEW n \in 1 .. Len(entries')
      PROVE  /\ 0 <= entries'[n].start /\ End(n)' <= write_pos'
             /\ n = 1 => entries'[n].start = 0
             /\ n = Len(entries') => End(n)' = write_pos'
             /\ n < Len(entries') => entries'[n + 1].start = End(n)'
             /\ \A m \in 1 .. n - 1 : End(m)' <= entries'[n].start
  <2>1. CASE n = len + 1
    <3>1. n = 1 => write_pos = 0
      BY <1>0, <1>1, <2>1 DEF Layout
    <3>2. \A m \in 1 .. n - 1 : m \in 1 .. len /\ End(m) <= write_pos
      BY <1>0, <1>1, <2>1 DEF Layout
    <3> QED
      BY <1>1, <1>2, <1>3, <1>4, <1>5, <2>1, <3>1, <3>2
  <2>2. CASE n \in 1 .. len
    <3>0. End(n) \in Nat
      BY <1>0, <2>2, Placed
    <3>1. /\ 0 <= entries[n].start /\ End(n) <= write_pos
          /\ n = 1 => entries[n].start = 0
          /\ n = len => End(n) = write_pos
          /\ n < len => entries[n + 1].start = End(n)
          /\ \A m \in 1 .. n - 1 : m \in 1 .. len /\ End(m) <= entries[n].start
      <4>1. \A m \in 1 .. n - 1 : m \in 1 .. len
        BY <2>2
      <4> QED
        BY <1>0, <1>1, <2>2, <4>1 DEF Layout
    <3>2. n < len => n + 1 \in 1 .. len
      BY <1>1, <2>2
    <3> QED
      BY <1>1, <1>2, <1>3, <1>4, <2>2, <3>0, <3>1, <3>2
  <2> QED
    BY <1>1, <2>1, <2>2
<1>7. Len(entries') # 0
  BY <1>1
<1>8. Layout'
  BY <1>6, <1>7 DEF Layout
<1> QED
  BY <1>0, <1>1, <1>3, <1>8

\* A step of a writer outside its serialization leaves the lap as it is.
LEMMA QuietLap ==
  ASSUME LapInv, NEW p \in Producers, UNCHANGED <<pos, buffer, rd, entries>>,
         NEW at, NEW w, NEW r, NEW size, NEW tries, NEW n, Moves(p, at, w, r, size, tries, n),
         at \notin {"header", "body"}, ~Filling(p)
  PROVE  LapInv'
<1>1. \A q \in Producers : Filling(q)' => Filling(q) /\ wr'[q] = wr[q]
  BY DEF Filling, Moves
<1>2. \A q \in Producers : Filling(q) => Filling(q)' /\ wr'[q] = wr[q]
  BY DEF Filling, Moves
<1>3. Layout' /\ CellsPlaced' /\ ReadPlace'
  BY DEF LapInv, Layout, End, CellsPlaced, CellOf, ReadPlace, Starts, pos
<1>4. OwnEntry'
  BY <1>1 DEF LapInv, OwnEntry
<1>5. ASSUME NEW e \in 1 .. Len(entries'), Serialized(e)'
      PROVE  Complete(e)'
  <2>1. Serialized(e)
    BY <1>2, <1>5 DEF Serialized, Filling
  <2> QED
    BY <2>1 DEF LapInv, AllComplete, Complete
<1> QED
  BY <1>3, <1>4, <1>5 DEF LapInv, AllComplete

\* A reservation that does not reach the end of the buffer keeps the lap.
LEMMA ReserveLap ==
  ASSUME RingTypeOK, LapInv, NEW p \in Producers, Reserve(p), ~lapped'
  PROVE  LapInv'
<1>0. PICK len \in Nat : len = Len(entries)
  BY ReserveAppends
<1>1. /\ Len(entries') = len + 1
      /\ \A n \in 1 .. len : entries'[n] = entries[n]
      /\ entries'[len + 1].start = write_pos /\ entries'[len + 1].size = wr[p].size
      /\ wr[p].w = write_pos
  BY <1>0, ReserveAppends
<1>2. Layout'
  BY ReserveLays DEF LapInv
<1>3. UNCHANGED <<read_pos, buffer, rd>>
  BY DEF Reserve
<1>4. /\ wr'[p].at = "header" /\ wr'[p].n = len + 1
      /\ wr'[p].w = wr[p].w /\ wr'[p].size = wr[p].size
      /\ \A q \in Producers \ {p} : wr'[q] = wr[q]
  BY <1>0, ReserveMoves DEF Moves
<1>5. ASSUME NEW i \in 0 .. Size - 1
      PROVE  CellOf(i)'
  <2>1. CellOf(i)
    BY DEF LapInv, CellsPlaced
  <2>2. \A n \in 1 .. len : n \in 1 .. Len(entries')
    BY <1>1
  <2> QED
    BY <1>0, <1>1, <1>3, <2>1, <2>2 DEF CellOf
<1>6. \A q \in Producers : Filling(q) => wr[q].n \in 1 .. len
  BY <1>0 DEF RingTypeOK, Filling
<1>7. OwnEntry'
  <2>1. ASSUME NEW q \in Producers, Filling(q)'
        PROVE  /\ entries'[wr'[q].n].start = wr'[q].w /\ entries'[wr'[q].n].size = wr'[q].size
               /\ wr'[q].at = "body" => buffer'[wr'[q].w] = <<wr'[q].n, 0>>
    <3>1. CASE q = p
      BY <1>1, <1>4, <3>1
    <3>2. CASE q # p
      <4>1. wr'[q] = wr[q] /\ Filling(q)
        BY <1>4, <2>1, <3>2 DEF Filling
      <4>2. wr[q].n \in 1 .. len
        BY <1>6, <4>1
      <4> QED
        BY <1>1, <1>3, <4>1, <4>2 DEF LapInv, OwnEntry
    <3> QED
      BY <3>1, <3>2
  <2>2. ASSUME NEW x \in Producers, NEW q \in Producers, Filling(x)', Filling(q)', x # q
        PROVE  wr'[x].n # wr'[q].n
    <3>1. \A y \in Producers \ {p} : Filling(y)' => Filling(y) /\ wr'[y] = wr[y] /\ wr[y].n \in 1 .. len
      BY <1>4, <1>6 DEF Filling
    <3>2. len + 1 \notin 1 .. len
      OBVIOUS
    <3>3. CASE x = p
      BY <1>4, <2>2, <3>1, <3>2, <3>3
    <3>4. CASE q = p
      BY <1>4, <2>2, <3>1, <3>2, <3>4
    <3>5. CASE x # p /\ q # p
      BY <2>2, <3>1, <3>5 DEF LapInv, OwnEntry
    <3> QED
      BY <3>3, <3>4, <3>5
  <2> QED
    BY <2>1, <2>2 DEF OwnEntry
<1>8. ASSUME NEW e \in 1 .. Len(entries'), Serialized(e)'
      PROVE  Complete(e)'
  <2>1. e # len + 1
    BY <1>4, <1>8 DEF Serialized
  <2>2. e \in 1 .. len
    BY <1>1, <2>1
  <2>3. Serialized(e)
    <3>1. SUFFICES ASSUME NEW q \in Producers, wr[q].n = e, wr[q].at \in {"header", "body"}
                   PROVE  FALSE
      BY DEF Serialized
    <3>2. wr[p].at = "test"
      BY DEF Reserve
    <3>3. wr'[q] = wr[q]
      BY <1>4, <3>1, <3>2
    <3> QED
      BY <1>8, <3>1, <3>3 DEF Serialized
  <2>4. Complete(e)
    BY <1>0, <2>2, <2>3 DEF LapInv, AllComplete
  <2> QED
    BY <1>1, <1>3, <2>2, <2>4 DEF Complete
<1>9. ReadPlace'
  <2>1. \A n \in 1 .. len : n \in 1 .. Len(entries') /\ entries'[n] = entries[n]
    BY <1>1
  <2>2. len + 1 \in 1 .. Len(entries')
    BY <1>1
  <2>3. Starts(read_pos)'
    BY <1>0, <1>1, <1>3, <2>1, <2>2 DEF LapInv, ReadPlace, Starts
  <2>4. ASSUME NEW c \in Readers, rd'[c].at = "body", rd'[c].size # 0
        PROVE  \E n \in 1 .. Len(entries') :
                 entries'[n].start = read_pos' /\ entries'[n].size = rd'[c].size
    BY <1>0, <1>3, <2>1, <2>4 DEF LapInv, ReadPlace
  <2> QED
    BY <2>3, <2>4 DEF ReadPlace
<1> QED
  BY <1>2, <1>5, <1>7, <1>8, <1>9 DEF LapInv, CellsPlaced, AllComplete

\* Writing cells of an entry that is being filled: the cells of the other
\* entries, and every header, stay.
LEMMA FillStep ==
  ASSUME RingTypeOK, LapInv, NEW p \in Producers, Filling(p), NEW e, e = wr[p].n,
         UNCHANGED <<pos, rd, entries>>,
         \A q \in Producers \ {p} : wr'[q] = wr[q],
         \A i \in 0 .. Size - 1 : \/ buffer'[i] = buffer[i]
                                  \/ \E k \in Nat : /\ k < entries[e].size
                                                    /\ i = entries[e].start + k
                                                    /\ buffer'[i] = <<e, k>>
  PROVE  /\ Layout' /\ CellsPlaced' /\ ReadPlace'
         /\ e \in 1 .. Len(entries)
         /\ \A n \in 1 .. Len(entries) : n # e => \A k \in Nat :
              k < entries[n].size => buffer'[entries[n].start + k] = buffer[entries[n].start + k]
         /\ \A n \in 1 .. Len(entries) : n # e /\ Serialized(n) => Complete(n)'
         /\ \A q \in Producers \ {p} : Filling(q) => 
              /\ entries'[wr'[q].n].start = wr'[q].w /\ entries'[wr'[q].n].size = wr'[q].size
              /\ wr'[q].at = "body" => buffer'[wr'[q].w] = <<wr'[q].n, 0>>
              /\ wr[q].n # e
<1>1. e \in 1 .. Len(entries)
  BY DEF RingTypeOK, Filling
<1>2. Layout' /\ ReadPlace'
  BY DEF LapInv, Layout, End, ReadPlace, Starts, pos
<1>3. CellsPlaced'
  BY <1>1 DEF LapInv, CellsPlaced, CellOf
<1>4. ASSUME NEW n \in 1 .. Len(entries), n # e, NEW k \in Nat, k < entries[n].size
      PROVE  buffer'[entries[n].start + k] = buffer[entries[n].start + k]
  <2>1. entries[n].start + k \in 0 .. Size - 1
    <3>1. /\ entries[n].start \in Nat /\ entries[n].size \in Nat
          /\ entries[n].start + entries[n].size < Size
      BY Placed DEF LapInv, End
    <3> QED
      BY <1>4, <3>1, SizesArePositive
  <2>2. \A l \in Nat : l < entries[e].size => entries[n].start + k # entries[e].start + l
    BY <1>1, <1>4, Disjoint DEF LapInv
  <2> QED
    BY <2>1, <2>2
<1>5. ASSUME NEW n \in 1 .. Len(entries), n # e, Serialized(n)
      PROVE  Complete(n)'
  <2>1. Complete(n)
    BY <1>5 DEF LapInv, AllComplete
  <2> QED
    BY <1>4, <1>5, <2>1 DEF Complete
<1>6. ASSUME NEW q \in Producers \ {p}, Filling(q)
      PROVE  /\ entries'[wr'[q].n].start = wr'[q].w /\ entries'[wr'[q].n].size = wr'[q].size
             /\ wr'[q].at = "body" => buffer'[wr'[q].w] = <<wr'[q].n, 0>>
             /\ wr[q].n # e
  <2>1. wr'[q] = wr[q] /\ wr[q].n # e /\ wr[q].n \in 1 .. Len(entries)
    BY <1>6 DEF LapInv, OwnEntry, RingTypeOK, Filling
  <2>2. entries[wr[q].n].start = wr[q].w /\ entries[wr[q].n].size = wr[q].size
    BY <1>6 DEF LapInv, OwnEntry
  <2>3. wr[q].at = "body" => buffer[wr[q].w] = <<wr[q].n, 0>>
    BY <1>6 DEF LapInv, OwnEntry
  <2>4. buffer'[wr[q].w] = buffer[wr[q].w]
    <3>1. 0 < entries[wr[q].n].size /\ wr[q].w + 0 = wr[q].w
      BY <2>1, <2>2, Placed DEF LapInv
    <3> QED
      BY <1>4, <2>1, <2>2, <3>1
  <2> QED
    BY <2>1, <2>2, <2>3, <2>4
<1> QED
  BY <1>1, <1>2, <1>3, <1>4, <1>5, <1>6

\* So does the header that a writer puts at the start of its own entry.
LEMMA HeaderLap ==
  ASSUME RingTypeOK, LapInv, NEW p \in Producers, SerializeHeader(p)
  PROVE  LapInv'
<1>0. PICK e \in 1 .. Len(entries) : e = wr[p].n
  BY DEF SerializeHeader, RingTypeOK
<1>1. /\ wr'[p].at = "body" /\ wr'[p].w = wr[p].w /\ wr'[p].size = wr[p].size
      /\ wr'[p].n = e
      /\ \A q \in Producers \ {p} : wr'[q] = wr[q]
  BY <1>0, HeaderMoves DEF Moves
<1>2. UNCHANGED <<pos, rd, entries>> /\ Filling(p)
  BY DEF SerializeHeader, Filling, hist
<1>3. entries[e].start = wr[p].w /\ entries[e].size = wr[p].size
  BY <1>0, <1>2 DEF LapInv, OwnEntry
<1>4. /\ wr[p].w \in Nat /\ wr[p].w < Size /\ 0 < entries[e].size /\ wr[p].w + 0 = wr[p].w
      /\ wr[p].w \in 0 .. Size - 1
  <2>1. /\ entries[e].start \in Nat /\ entries[e].size \in Nat /\ entries[e].size >= 2
        /\ entries[e].start + entries[e].size < Size
    BY Placed DEF LapInv, End
  <2> QED
    BY <1>3, <2>1, SizesArePositive
<1>5. Cell(p, 0) = wr[p].w
  BY <1>4, SmallMod DEF Cell
<1>6. buffer' = [buffer EXCEPT ![wr[p].w] = <<e, 0>>] /\ DOMAIN buffer = 0 .. Size - 1
  BY <1>0, <1>5 DEF SerializeHeader, RingTypeOK
<1>7. buffer'[wr[p].w] = <<e, 0>>
  BY <1>4, <1>6
<1>8. \A i \in 0 .. Size - 1 : \/ buffer'[i] = buffer[i]
                               \/ \E k \in Nat : /\ k < entries[e].size
                                                 /\ i = entries[e].start + k
                                                 /\ buffer'[i] = <<e, k>>
  BY <1>3, <1>4, <1>6
<1>9. /\ Layout' /\ CellsPlaced' /\ ReadPlace'
      /\ \A n \in 1 .. Len(entries) : n # e /\ Serialized(n) => Complete(n)'
      /\ \A q \in Producers \ {p} : Filling(q) => 
           /\ entries'[wr'[q].n].start = wr'[q].w /\ entries'[wr'[q].n].size = wr'[q].size
           /\ wr'[q].at = "body" => buffer'[wr'[q].w] = <<wr'[q].n, 0>>
           /\ wr[q].n # e
  BY <1>0, <1>1, <1>2, <1>8, FillStep
<1>10. \A q \in Producers : Filling(q)' => Filling(q) /\ wr'[q].n = wr[q].n
  BY <1>0, <1>1, <1>2 DEF Filling
<1>11. OwnEntry'
  <2>1. ASSUME NEW q \in Producers, Filling(q)'
        PROVE  /\ entries'[wr'[q].n].start = wr'[q].w /\ entries'[wr'[q].n].size = wr'[q].size
               /\ wr'[q].at = "body" => buffer'[wr'[q].w] = <<wr'[q].n, 0>>
    <3>1. CASE q = p
      BY <1>1, <1>2, <1>3, <1>7, <3>1
    <3> QED
      BY <1>9, <1>10, <2>1, <3>1
  <2>2. \A x, q \in Producers : Filling(x)' /\ Filling(q)' /\ x # q => wr'[x].n # wr'[q].n
    BY <1>10 DEF LapInv, OwnEntry
  <2> QED
    BY <2>1, <2>2 DEF OwnEntry
<1>12. ASSUME NEW n \in 1 .. Len(entries'), Serialized(n)'
       PROVE  Complete(n)'
  <2>1. n # e
    BY <1>1, <1>12 DEF Serialized
  <2>2. Serialized(n)
    BY <1>0, <1>1, <1>12, <2>1 DEF Serialized
  <2> QED
    BY <1>2, <1>9, <2>1, <2>2
<1> QED
  BY <1>9, <1>11, <1>12 DEF LapInv, AllComplete

\* The body completes the entry of its writer and no other.
LEMMA BodyLap ==
  ASSUME RingTypeOK, LapInv, NEW p \in Producers, SerializeBody(p)
  PROVE  LapInv'
<1>0. PICK e \in 1 .. Len(entries) : e = wr[p].n
  BY DEF SerializeBody, RingTypeOK
<1>1. wr'[p].at = "idle" /\ \A q \in Producers \ {p} : wr'[q] = wr[q]
  BY EndMoves DEF SerializeBody, Moves
<1>2. UNCHANGED <<pos, rd, entries>> /\ Filling(p)
  BY DEF SerializeBody, Filling, hist
<1>3. /\ entries[e].start = wr[p].w /\ entries[e].size = wr[p].size
      /\ buffer[wr[p].w] = <<e, 0>>
  BY <1>0, <1>2 DEF LapInv, OwnEntry, SerializeBody
<1>4. PICK w \in Nat, s \in Nat : w = wr[p].w /\ s = wr[p].size /\ s >= 2 /\ w + s < Size
  <2>1. /\ entries[e].start \in Nat /\ entries[e].size \in Nat /\ entries[e].size >= 2
        /\ entries[e].start + entries[e].size < Size
    BY Placed DEF LapInv, End
  <2> QED
    BY <1>3, <2>1
<1>5. ASSUME NEW k \in 1 .. s - 1
      PROVE  Cell(p, k) = w + k /\ w + k \in 0 .. Size - 1
  <2>1. Size \in Nat /\ w + s < Size
    BY <1>4, SizesArePositive
  <2>2. w + k \in Nat /\ w + k < Size /\ w + k \in 0 .. Size - 1
    BY <2>1
  <2>3. (w + k) % Size = w + k
    BY <2>2, SmallMod
  <2>4. Cell(p, k) = (w + k) % Size
    BY <1>4 DEF Cell
  <2> QED
    BY <2>2, <2>3, <2>4
<1>6. ASSUME NEW i \in 0 .. Size - 1
      PROVE  buffer'[i] = IF i \in w + 1 .. (w + s) - 1 THEN <<e, i - w>> ELSE buffer[i]
  <2> DEFINE K == CHOOSE k \in 1 .. wr[p].size - 1 : Cell(p, k) = i
             Body == \E k \in 1 .. wr[p].size - 1 : Cell(p, k) = i
  <2>1. buffer'[i] = IF Body THEN <<e, K>> ELSE buffer[i]
    BY <1>0 DEF SerializeBody, RingTypeOK
  <2>2. Body <=> i \in w + 1 .. (w + s) - 1
    <3>1. ASSUME Body PROVE i \in w + 1 .. (w + s) - 1
      <4>1. PICK k \in 1 .. s - 1 : Cell(p, k) = i
        BY <1>4, <3>1
      <4>2. i = w + k
        BY <1>5, <4>1
      <4> QED
        BY <4>2
    <3>2. ASSUME i \in w + 1 .. (w + s) - 1 PROVE Body
      <4>1. i - w \in 1 .. s - 1 /\ w + (i - w) = i
        BY <3>2
      <4> QED
        BY <1>4, <1>5, <4>1
    <3> QED
      BY <3>1, <3>2
  <2>3. ASSUME Body PROVE K = i - w
    <3>1. K \in 1 .. s - 1 /\ Cell(p, K) = i
      BY <1>4, <2>3
    <3> HIDE DEF K
    <3> QED
      BY <1>5, <3>1
  <2> HIDE DEF K, Body
  <2> QED
    BY <2>1, <2>2, <2>3
<1>7. \A i \in 0 .. Size - 1 : \/ buffer'[i] = buffer[i]
                               \/ \E k \in Nat : /\ k < entries[e].size
                                                 /\ i = entries[e].start + k
                                                 /\ buffer'[i] = <<e, k>>
  <2> SUFFICES ASSUME NEW i \in 0 .. Size - 1, buffer'[i] # buffer[i]
               PROVE  \E k \in Nat : k < s /\ i = w + k /\ buffer'[i] = <<e, k>>
    BY <1>3, <1>4
  <2>1. i \in w + 1 .. (w + s) - 1 /\ buffer'[i] = <<e, i - w>>
    BY <1>6
  <2>2. i - w \in Nat /\ i - w < s /\ i = w + (i - w)
    BY <2>1
  <2> QED
    BY <2>1, <2>2
<1>8. /\ Layout' /\ CellsPlaced' /\ ReadPlace'
      /\ \A n \in 1 .. Len(entries) : n # e /\ Serialized(n) => Complete(n)'
      /\ \A q \in Producers \ {p} : Filling(q) => 
           /\ entries'[wr'[q].n].start = wr'[q].w /\ entries'[wr'[q].n].size = wr'[q].size
           /\ wr'[q].at = "body" => buffer'[wr'[q].w] = <<wr'[q].n, 0>>
           /\ wr[q].n # e
  BY <1>0, <1>1, <1>2, <1>7, FillStep
<1>9. \A q \in Producers : Filling(q)' => q # p /\ Filling(q) /\ wr'[q].n = wr[q].n
  BY <1>1 DEF Filling
<1>10. OwnEntry'
  <2>1. ASSUME NEW q \in Producers, Filling(q)'
        PROVE  /\ entries'[wr'[q].n].start = wr'[q].w /\ entries'[wr'[q].n].size = wr'[q].size
               /\ wr'[q].at = "body" => buffer'[wr'[q].w] = <<wr'[q].n, 0>>
    BY <1>8, <1>9, <2>1
  <2>2. \A x, q \in Producers : Filling(x)' /\ Filling(q)' /\ x # q => wr'[x].n # wr'[q].n
    BY <1>9 DEF LapInv, OwnEntry
  <2> QED
    BY <2>1, <2>2 DEF OwnEntry
<1>11. ASSUME NEW n \in 1 .. Len(entries'), Serialized(n)'
       PROVE  Complete(n)'
  <2>1. CASE n = e
    <3>1. ASSUME NEW k \in Nat, k < s
          PROVE  buffer'[w + k] = <<e, k>>
      <4>0. Size \in Nat /\ w + s < Size
        BY <1>4, SizesArePositive
      <4>1. w + k \in 0 .. Size - 1
        BY <3>1, <4>0
      <4>2. CASE k = 0
        <5>1. w + k = w /\ w \notin w + 1 .. (w + s) - 1
          BY <4>2
        <5> QED
          BY <1>3, <1>4, <1>6, <4>1, <4>2, <5>1
      <4>3. CASE k # 0
        <5>1. w + k \in w + 1 .. (w + s) - 1 /\ (w + k) - w = k
          BY <3>1, <4>3
        <5> QED
          BY <1>6, <4>1, <5>1
      <4> QED
        BY <4>2, <4>3
    <3> QED
      BY <1>2, <1>3, <1>4, <2>1, <3>1 DEF Complete
  <2>2. CASE n # e
    <3>1. Serialized(n)
      BY <1>0, <1>1, <1>11, <2>2 DEF Serialized
    <3> QED
      BY <1>2, <1>8, <2>2, <3>1
  <2> QED
    BY <2>1, <2>2
<1> QED
  BY <1>8, <1>10, <1>11 DEF LapInv, AllComplete

\* Every step of a write keeps the lap.
LEMMA WriteLap ==
  ASSUME RingTypeOK, ~lapped => LapInv, NEW p \in Producers, WriteStep(p), ~lapped'
  PROVE  LapInv'
<1>1. CASE Reserve(p)
  <2>1. ~lapped
    BY <1>1, ReserveAppends
  <2> QED
    BY <1>1, <2>1, ReserveLap
<1>2. CASE ~Reserve(p)
  <2>1. UNCHANGED <<entries, lapped, pos, rd>>
    BY <1>2 DEF WriteStep, WriteBegin, LoadWritePos, LoadReadPos, NoSpace, Contended,
                SerializeHeader, SerializeBody, Leave, hist
  <2>2. LapInv
    BY <2>1
  <2>3. ASSUME NEW at, NEW w, NEW r, NEW size, NEW tries, NEW n,
               Moves(p, at, w, r, size, tries, n), at \notin {"header", "body"},
               ~Filling(p), UNCHANGED buffer
        PROVE  LapInv'
    BY <2>1, <2>2, <2>3, QuietLap
  <2>4. ASSUME NEW size \in EntrySizes, WriteBegin(p, size)
        PROVE  LapInv'
    <3>1. ~Filling(p) /\ UNCHANGED buffer
      BY <2>4 DEF WriteBegin, Filling
    <3>2. Moves(p, "load", wr[p].w, wr[p].r, size, 3, Len(entries))
      BY <2>4, BeginMoves
    <3> QED
      BY <2>3, <3>1, <3>2
  <2>5. CASE LoadWritePos(p) \/ LoadReadPos(p)
    <3>1. ~Filling(p) /\ UNCHANGED buffer
      BY <2>5 DEF LoadWritePos, LoadReadPos, Filling
    <3>2. \/ Moves(p, "load_read", write_pos, wr[p].r, wr[p].size, wr[p].tries, wr[p].n)
          \/ Moves(p, "test", wr[p].w, read_pos, wr[p].size, wr[p].tries, wr[p].n)
      BY <2>5, LoadWriteMoves, LoadReadMoves
    <3> QED
      BY <2>3, <3>1, <3>2
  <2>6. CASE Contended(p)
    <3>1. ~Filling(p) /\ UNCHANGED buffer
      BY <2>6 DEF Contended, Filling
    <3> DEFINE at == IF wr[p].tries - 1 > 0 THEN "load" ELSE "gave_up"
    <3>2. Moves(p, at, wr[p].w, wr[p].r, wr[p].size, wr[p].tries - 1, wr[p].n)
      BY <2>6, ContendedMoves
    <3>3. at \notin {"header", "body"}
      OBVIOUS
    <3> HIDE DEF at
    <3> QED
      BY <2>3, <3>1, <3>2, <3>3
  <2>7. CASE NoSpace(p) \/ Leave(p)
    BY <2>1, <2>2, <2>7, EndMoves, QuietLap DEF NoSpace, Leave, Filling
  <2>8. CASE SerializeHeader(p) \/ SerializeBody(p)
    BY <2>2, <2>8, HeaderLap, BodyLap
  <2> QED
    BY <1>2, <2>3, <2>4, <2>5, <2>6, <2>7, <2>8 DEF WriteStep
<1> QED
  BY <1>1, <1>2

\* What each step of a reader does to its place and to read_pos.
LEMMA ReaderMoves ==
  ASSUME RingTypeOK, NEW c \in Readers, ReadStep(c)
  PROVE  /\ \A d \in Readers \ {c} : rd'[d] = rd[d]
         /\ ReadEmpty(c) => rd[c].at = "idle" /\ rd'[c].at = "done" /\ UNCHANGED <<read_pos, got, torn>>
         /\ ReadHeader(c) => rd[c].at = "idle" /\ rd'[c].at = "body" /\ UNCHANGED <<read_pos, got, torn>>
                             /\ read_pos # write_pos
                             /\ rd'[c].size \in HeaderSizes(buffer[read_pos])
         /\ ReadBody(c) => rd[c].at = "body" /\ rd'[c].at = "idle"
                           /\ read_pos' = (read_pos + rd[c].size) % Size
         /\ ReadEmpty(c) \/ ReadHeader(c) \/ ReadBody(c)
<1>1. rd \in [Readers -> [at : {"idle", "body", "done"}, size : Int]]
  BY DEF RingTypeOK
<1>2. CASE ReadEmpty(c)
  BY <1>1, <1>2 DEF ReadEmpty, ReadHeader, ReadBody, pos
<1>3. CASE ReadHeader(c)
  <2>1. PICK size \in HeaderSizes(buffer[read_pos]) :
          rd' = [rd EXCEPT ![c] = [at |-> "body", size |-> size]]
    BY <1>3 DEF ReadHeader
  <2>2. rd'[c].at = "body" /\ rd'[c].size = size /\ \A d \in Readers \ {c} : rd'[d] = rd[d]
    BY <1>1, <2>1
  <2>3. rd[c].at = "idle" /\ UNCHANGED <<read_pos, got, torn>> /\ read_pos # write_pos
    BY <1>3 DEF ReadHeader, pos
  <2> QED
    BY <1>3, <2>2, <2>3 DEF ReadEmpty, ReadBody
<1>4. CASE ReadBody(c)
  BY <1>1, <1>4 DEF ReadEmpty, ReadHeader, ReadBody, pos
<1> QED
  BY <1>2, <1>3, <1>4 DEF ReadStep

\* At most one reader is between its header and its body.
LEMMA OneReaderStep ==
  ASSUME RingTypeOK, OneReader, NEW c \in Readers, ReadStep(c)
  PROVE  OneReader' /\ (rd[c].at = "body" => \A d \in Readers : rd'[d].at # "body")
<1>1. Readers = {"child", "parent"}
  BY DEF Readers
<1>2. CASE c = "child"
  <2>1. rd[c].at # "done"
    BY ReaderMoves
  <2>2. rd'["parent"] = rd["parent"] /\ rd["parent"].at = "idle"
    BY <1>1, <1>2, <2>1, ReaderMoves DEF OneReader
  <2>3. rd[c].at = "body" => rd'[c].at # "body"
    BY ReaderMoves
  <2> QED
    BY <1>1, <1>2, <2>2, <2>3 DEF OneReader
<1>3. CASE c = "parent"
  <2>1. rd["child"].at = "done"
    <3>1. CASE rd[c].at = "idle"
      BY <1>3, <3>1 DEF ReadStep, ReadEmpty, ReadHeader, ReadBody, MayRead
    <3>2. CASE rd[c].at # "idle"
      BY <1>3, <3>2 DEF OneReader
    <3> QED
      BY <3>1, <3>2
  <2>2. rd'["child"] = rd["child"]
    BY <1>1, <1>3, ReaderMoves
  <2>3. rd[c].at = "body" => rd'[c].at # "body"
    BY ReaderMoves
  <2> QED
    BY <1>1, <1>3, <2>1, <2>2, <2>3 DEF OneReader
<1> QED
  BY <1>1, <1>2, <1>3

\* A reader finds size zero in an entry that is not serialized, or steps over a whole one.
LEMMA ReadLap ==
  ASSUME RingTypeOK, LapInv, OneReader, NEW c \in Readers, ReadStep(c)
  PROVE  LapInv'
<1>1. UNCHANGED <<write_pos, buffer, wr, entries, lapped>>
  BY ReadTypes
<1>2. Layout' /\ CellsPlaced' /\ OwnEntry' /\ AllComplete'
  BY <1>1 DEF LapInv, Layout, End, CellsPlaced, CellOf, OwnEntry, Filling, AllComplete, Serialized,
              Complete
<1>3. CASE ReadEmpty(c)
  <2>1. UNCHANGED read_pos /\ rd'[c].at = "done" /\ \A d \in Readers \ {c} : rd'[d] = rd[d]
    BY <1>3, ReaderMoves
  <2> QED
    BY <1>1, <1>2, <2>1 DEF LapInv, ReadPlace, Starts
<1>4. CASE ReadHeader(c)
  <2>1. PICK n \in 1 .. Len(entries) : entries[n].start = read_pos
    BY <1>4, ReaderMoves DEF LapInv, ReadPlace, Starts
  <2>2. rd'[c].size \in HeaderSizes(buffer[read_pos])
    BY <1>4, ReaderMoves
  <2>3. rd'[c].size = 0 \/ rd'[c].size = entries[n].size
    <3>1. CellOf(read_pos)
      BY DEF LapInv, CellsPlaced, RingTypeOK
    <3>2. CASE buffer[read_pos] = <<0, 0>>
      BY <2>2, <3>2 DEF HeaderSizes
    <3>3. ASSUME NEW m \in 1 .. Len(entries), NEW k \in Nat, k < entries[m].size,
                 buffer[read_pos] = <<m, k>>, read_pos = entries[m].start + k
          PROVE  rd'[c].size = entries[n].size
      <4>1. entries[n].start \in Nat /\ 0 < entries[n].size /\ entries[n].start + 0 = entries[n].start
        BY Placed DEF LapInv
      <4>2. m = n
        BY <2>1, <3>3, <4>1, Disjoint DEF LapInv
      <4>3. k = 0
        BY <2>1, <3>3, <4>1, <4>2
      <4>4. m # 0 /\ buffer[read_pos][1] = m /\ buffer[read_pos][2] = 0
        BY <3>3, <4>3
      <4> QED
        BY <2>2, <4>2, <4>4 DEF HeaderSizes
    <3> QED
      BY <3>1, <3>2, <3>3 DEF CellOf
  <2>4. UNCHANGED read_pos /\ \A d \in Readers \ {c} : rd'[d] = rd[d]
    BY <1>4, ReaderMoves
  <2>5. (read_pos = write_pos \/ Starts(read_pos))'
    BY <1>1, <2>4 DEF LapInv, ReadPlace, Starts
  <2>6. ASSUME NEW d \in Readers, rd'[d].at = "body", rd'[d].size # 0
        PROVE  \E e \in 1 .. Len(entries) :
                 entries[e].start = read_pos /\ entries[e].size = rd'[d].size
    <3>1. CASE d = c
      BY <2>1, <2>3, <2>6, <3>1
    <3>2. CASE d # c
      BY <2>4, <2>6, <3>2 DEF LapInv, ReadPlace
    <3> QED
      BY <3>1, <3>2
  <2> QED
    BY <1>1, <1>2, <2>4, <2>5, <2>6 DEF LapInv, ReadPlace
<1>5. CASE ReadBody(c)
  <2>1. \A d \in Readers : rd'[d].at # "body"
    BY <1>5, ReaderMoves, OneReaderStep
  <2>2. rd[c].at = "body" /\ read_pos' = (read_pos + rd[c].size) % Size
    BY <1>5, ReaderMoves
  <2>3. read_pos' = write_pos \/ \E n \in 1 .. Len(entries) : entries[n].start = read_pos'
    <3>1. CASE rd[c].size = 0
      <4>1. read_pos \in Nat /\ read_pos < Size /\ read_pos + 0 = read_pos
        BY SizesArePositive DEF RingTypeOK
      <4>2. read_pos' = read_pos
        BY <2>2, <3>1, <4>1, SmallMod
      <4> QED
        BY <4>2 DEF LapInv, ReadPlace, Starts
    <3>2. CASE rd[c].size # 0
      <4>1. PICK n \in 1 .. Len(entries) :
              entries[n].start = read_pos /\ entries[n].size = rd[c].size
        BY <2>2, <3>2 DEF LapInv, ReadPlace
      <4>2. End(n) \in Nat /\ End(n) < Size /\ read_pos + rd[c].size = End(n)
        BY <4>1, Placed DEF LapInv, End
      <4>3. read_pos' = End(n)
        BY <2>2, <4>2, SmallMod
      <4>4. End(n) = write_pos \/ (n + 1 \in 1 .. Len(entries) /\ entries[n + 1].start = End(n))
        <5>1. n = Len(entries) => End(n) = write_pos
          BY DEF LapInv, Layout
        <5>2. n < Len(entries) => entries[n + 1].start = End(n)
          BY DEF LapInv, Layout
        <5>3. Len(entries) \in Nat
          BY DEF RingTypeOK
        <5> QED
          BY <5>1, <5>2, <5>3
      <4> QED
        BY <4>3, <4>4
    <3> QED
      BY <3>1, <3>2
  <2> QED
    BY <1>1, <1>2, <2>1, <2>3 DEF LapInv, ReadPlace, Starts
<1> QED
  BY <1>3, <1>4, <1>5, ReaderMoves

FirstLap == RingTypeOK /\ OneReader /\ (~lapped => LapInv)

\* The invariant of the first lap is inductive.
LEMMA FirstLapSteps == FirstLap /\ [RingNext]_rvars => FirstLap'
<1> SUFFICES ASSUME FirstLap, [RingNext]_rvars
             PROVE  FirstLap'
  OBVIOUS
<1>1. RingTypeOK /\ RingTypeOK'
  BY RingTypesStep DEF FirstLap
<1>2. CASE Aside
  <2>1. OneReader'
    BY <1>2 DEF FirstLap, OneReader, Aside
  <2>2. UNCHANGED <<write_pos, read_pos, buffer, wr, rd, entries, lapped>>
    BY <1>2 DEF Aside, pos, hist
  <2>3. LapInv => LapInv'
    BY <2>2 DEF LapInv, Layout, End, CellsPlaced, CellOf, OwnEntry, Filling, AllComplete,
                Serialized, Complete, ReadPlace, Starts
  <2> QED
    BY <1>1, <2>1, <2>2, <2>3, Zenon DEF FirstLap
<1>3. ASSUME NEW p \in Producers, WriteStep(p)
      PROVE  FirstLap'
  <2>1. UNCHANGED rd
    BY <1>3 DEF WriteStep, WriteBegin, LoadWritePos, LoadReadPos, NoSpace, Contended, Reserve,
                SerializeHeader, SerializeBody, Leave
  <2> QED
    BY <1>1, <1>3, <2>1, WriteLap DEF FirstLap, OneReader
<1>4. ASSUME NEW c \in Readers, ReadStep(c)
      PROVE  FirstLap'
  <2>1. OneReader' /\ UNCHANGED lapped
    BY <1>1, <1>4, OneReaderStep, ReadTypes DEF FirstLap
  <2>2. LapInv => LapInv'
    BY <1>1, <1>4, ReadLap DEF FirstLap
  <2> QED
    BY <1>1, <2>1, <2>2, Zenon DEF FirstLap
<1> QED
  BY <1>2, <1>3, <1>4, StepKinds

\* It holds of the empty ring.
LEMMA FirstLapStarts == RingInit => FirstLap
<1> SUFFICES ASSUME RingInit
             PROVE  FirstLap
  OBVIOUS
<1>1. Len(entries) = 0 /\ write_pos = 0 /\ read_pos = 0
  BY DEF RingInit
<1>2. \A p \in Producers : wr[p].at = "idle"
  BY DEF RingInit, Between
<1>3. \A c \in Readers : rd[c].at = "idle"
  BY DEF RingInit
<1>4. OneReader
  BY <1>3 DEF OneReader, Readers
<1>5. CellsPlaced
  BY DEF RingInit, CellsPlaced, CellOf
<1>6. Layout /\ OwnEntry /\ AllComplete /\ ReadPlace
  BY <1>1, <1>2, <1>3 DEF Layout, OwnEntry, Filling, AllComplete, ReadPlace
<1> QED
  BY <1>4, <1>5, <1>6, RingTypesStart DEF FirstLap, LapInv

\* A complete entry is whole, the mirror being without use on the first lap.
LEMMA CompleteIsWhole ==
  ASSUME RingTypeOK, Layout, NEW n \in 1 .. Len(entries), Complete(n)
  PROVE  Whole(n, entries[n].start)
<1>1. PICK a \in Nat, s \in Nat : a = entries[n].start /\ s = entries[n].size /\ a + s < Size
  BY Placed DEF End
<1>2. ASSUME NEW k \in 0 .. s - 1
      PROVE  buffer[(a + k) % Size] = <<n, k>>
  <2>1. Size \in Nat /\ a + s < Size
    BY <1>1, SizesArePositive
  <2>2. a + k \in Nat /\ a + k < Size /\ k \in Nat /\ k < s
    BY <2>1
  <2>3. (a + k) % Size = a + k
    BY <2>2, SmallMod
  <2> QED
    BY <1>1, <2>2, <2>3 DEF Complete
<1> QED
  BY <1>1, <1>2 DEF Whole

\* Until a reservation reaches the end of the buffer the ring is sound for any
\* number of producers: nobody writes into the entry of another, an entry that
\* is no longer being serialized is whole, and read_pos stands at an entry or at
\* the end of the data, even when the reader overtakes a serialization.
THEOREM FirstLapIsSound == RingSpec => []FirstLapSound
<1>1. FirstLap => FirstLapSound
  <2> SUFFICES ASSUME FirstLap, ~lapped
               PROVE  /\ \A n \in DOMAIN entries : Serialized(n) => Whole(n, entries[n].start)
                      /\ read_pos = write_pos \/ \E n \in DOMAIN entries : entries[n].start = read_pos
    BY DEF FirstLapSound
  <2>1. DOMAIN entries = 1 .. Len(entries)
    BY DEF FirstLap, RingTypeOK
  <2>2. RingTypeOK /\ LapInv
    BY DEF FirstLap
  <2>3. \A n \in 1 .. Len(entries) : Serialized(n) => Complete(n)
    BY <2>2 DEF LapInv, AllComplete
  <2> QED
    BY <2>1, <2>2, <2>3, CompleteIsWhole DEF LapInv, ReadPlace, Starts
<1> QED
  BY <1>1, FirstLapStarts, FirstLapSteps, PTL DEF RingSpec

-----------------------------------------------------------------------------
(* The run of main.cpp in which the child's sleep outlasts the writers *)

\* Where the reader stands after g entries.
Place(g) == IF g < Len(entries) THEN entries[g + 1].start ELSE write_pos

\* As long as nobody has read, no reservation reaches the end of the buffer;
\* after that the child is at the entry that follows those it has read.
Drain ==
  /\ ~lapped /\ ~torn
  /\ got <= Len(entries) /\ read_pos = Place(got)
  /\ Writing => got = 0 /\ \A c \in Readers : rd[c].at = "idle"
  /\ \A p \in Producers : wr[p].at = "test" => wr[p].r = 0
  /\ rd["child"].at = "body" => got < Len(entries) /\ rd["child"].size = entries[got + 1].size
  /\ rd["child"].at = "done" => got = Len(entries)
  /\ rd["parent"].at # "body"

DrainInv == FirstLap /\ (~early => Drain)

\* The first entry is at the start of the buffer.
LEMMA FirstPlace == RingTypeOK /\ Layout => Place(0) = 0
<1> SUFFICES ASSUME RingTypeOK, Layout
             PROVE  Place(0) = 0
  OBVIOUS
<1>1. Len(entries) \in Nat
  BY DEF RingTypeOK
<1>2. CASE Len(entries) = 0
  BY <1>2 DEF Place, Layout
<1>3. CASE Len(entries) # 0
  <2>1. 1 \in 1 .. Len(entries) /\ 0 < Len(entries) /\ 0 + 1 = 1
    BY <1>1, <1>3
  <2>2. entries[1].start = 0
    BY <2>1 DEF Layout
  <2> QED
    BY <2>1, <2>2 DEF Place
<1> QED
  BY <1>2, <1>3

\* As long as a writer runs the readers wait.
LEMMA DrainWrites ==
  ASSUME FirstLap, FirstLap', Drain, NEW p \in Producers, WriteStep(p)
  PROVE  Drain' /\ UNCHANGED early
<1>1. wr[p].at # "stopped"
  BY DEF WriteStep, WriteBegin, LoadWritePos, LoadReadPos, NoSpace, Contended, Reserve,
         SerializeHeader, SerializeBody, Leave
<1>2. got = 0 /\ \A c \in Readers : rd[c].at = "idle"
  BY <1>1 DEF Drain, Writing
<1>3. UNCHANGED <<rd, read_pos, got, torn, early>>
  BY DEF WriteStep, WriteBegin, LoadWritePos, LoadReadPos, NoSpace, Contended, Reserve,
         SerializeHeader, SerializeBody, Leave, pos, hist
<1>4. RingTypeOK /\ RingTypeOK' /\ LapInv
  BY DEF FirstLap, Drain
<1>5. read_pos = 0
  BY <1>2, <1>4, FirstPlace DEF Drain, LapInv
<1>6. ~lapped'
  <2>1. CASE Reserve(p)
    <3>1. wr[p].r = 0 /\ EnoughSpace(p) /\ wr[p].w \in Int /\ wr[p].size \in EntrySizes
      BY <1>4, <2>1 DEF Reserve, Drain, RingTypeOK, Wr, InWrite
    <3>2. wr[p].size \in Int /\ Size \in Int
      BY <3>1, SizesArePositive
    <3> DEFINE past == NextWrite(p) >= Size
    <3>3. ~past
      BY <3>1, <3>2 DEF EnoughSpace, NextWrite
    <3>4. lapped' = (lapped \/ past)
      BY <2>1, Zenon DEF Reserve
    <3> HIDE DEF past
    <3> QED
      BY <3>3, <3>4, Zenon DEF Drain
  <2>2. CASE ~Reserve(p)
    <3>1. UNCHANGED lapped
      BY <2>2 DEF WriteStep, WriteBegin, LoadWritePos, LoadReadPos, NoSpace, Contended,
                  SerializeHeader, SerializeBody, Leave, hist
    <3> QED
      BY <3>1, Zenon DEF Drain
  <2> QED
    BY <2>1, <2>2
<1>7. got' <= Len(entries') /\ read_pos' = Place(got)'
  <2>1. LapInv' /\ Len(entries') \in Nat
    BY <1>4, <1>6 DEF FirstLap, RingTypeOK
  <2>2. Place(0)' = 0
    <3>1. (RingTypeOK /\ Layout => Place(0) = 0)'
      BY FirstPlace, PTL
    <3> QED
      BY <1>4, <2>1, <3>1 DEF LapInv
  <2>3. got' = 0 /\ read_pos' = 0
    BY <1>2, <1>3, <1>5
  <2> QED
    BY <2>1, <2>2, <2>3 DEF Place
<1>8. ASSUME NEW q \in Producers, wr'[q].at = "test"
      PROVE  wr'[q].r = 0
  <2>1. ASSUME NEW at, NEW w, NEW r, NEW size, NEW tries, NEW n,
               Moves(p, at, w, r, size, tries, n), at = "test" => r = 0
        PROVE  wr'[q].r = 0
    BY <1>8, <2>1 DEF Moves, Drain
  <2>2. ASSUME NEW size \in EntrySizes, WriteBegin(p, size)
        PROVE  wr'[q].r = 0
    <3>1. Moves(p, "load", wr[p].w, wr[p].r, size, 3, Len(entries))
      BY <1>4, <2>2, BeginMoves
    <3> QED
      BY <2>1, <3>1
  <2>3. CASE LoadWritePos(p)
    <3>1. Moves(p, "load_read", write_pos, wr[p].r, wr[p].size, wr[p].tries, wr[p].n)
      BY <1>4, <2>3, LoadWriteMoves
    <3> QED
      BY <2>1, <3>1
  <2>4. CASE LoadReadPos(p)
    <3>1. Moves(p, "test", wr[p].w, read_pos, wr[p].size, wr[p].tries, wr[p].n)
      BY <1>4, <2>4, LoadReadMoves
    <3> QED
      BY <1>5, <2>1, <3>1
  <2>5. CASE Reserve(p)
    <3>1. Moves(p, "header", wr[p].w, wr[p].r, wr[p].size, wr[p].tries, Len(entries) + 1)
      BY <1>4, <2>5, ReserveMoves
    <3> QED
      BY <2>1, <3>1
  <2>6. CASE Contended(p)
    <3> DEFINE at == IF wr[p].tries - 1 > 0 THEN "load" ELSE "gave_up"
    <3>1. Moves(p, at, wr[p].w, wr[p].r, wr[p].size, wr[p].tries - 1, wr[p].n)
      BY <1>4, <2>6, ContendedMoves
    <3>2. at # "test"
      OBVIOUS
    <3> HIDE DEF at
    <3> QED
      BY <2>1, <3>1, <3>2
  <2>7. CASE SerializeHeader(p)
    <3>1. Moves(p, "body", wr[p].w, wr[p].r, wr[p].size, wr[p].tries, wr[p].n)
      BY <1>4, <2>7, HeaderMoves
    <3> QED
      BY <2>1, <3>1
  <2>8. CASE SerializeBody(p) \/ NoSpace(p) \/ Leave(p)
    <3>1. PICK step \in {"idle", "stopped"} : Moves(p, step, 0, 0, 0, 0, 0)
      BY <1>4, <2>8, EndMoves DEF SerializeBody, NoSpace, Leave
    <3> QED
      BY <2>1, <3>1
  <2> QED
    BY <2>2, <2>3, <2>4, <2>5, <2>6, <2>7, <2>8 DEF WriteStep
<1>9. rd'["child"].at = "idle" /\ rd'["parent"].at = "idle"
  BY <1>2, <1>3 DEF Readers
<1>10. ~torn'
  BY <1>3, Zenon DEF Drain
<1>11. got' = 0 /\ \A c \in Readers : rd'[c].at = "idle"
  BY <1>2, <1>3
<1> QED
  BY <1>3, <1>6, <1>7, <1>8, <1>9, <1>10, <1>11 DEF Drain

\* The child reads the next entry, whole.
LEMMA DrainReads ==
  ASSUME FirstLap, Drain, NEW c \in Readers, ReadStep(c), ~early'
  PROVE  Drain'
<1>1. RingTypeOK /\ LapInv /\ OneReader /\ Layout
  BY DEF FirstLap, Drain, LapInv
<1>2. UNCHANGED <<write_pos, buffer, wr, entries, lapped>>
  BY <1>1, ReadTypes
<1>3. c = "child" \/ c = "parent"
  BY DEF Readers
<1>4. ~Writing
  <2>1. CASE ReadBody(c)
    BY <1>1, <2>1, ReaderMoves DEF Drain
  <2>2. CASE ReadEmpty(c) \/ ReadHeader(c)
    <3>1. early' = (early \/ Writing)
      BY <2>2, Zenon DEF ReadEmpty, ReadHeader
    <3> QED
      BY <3>1, Zenon
  <2> QED
    BY <2>1, <2>2 DEF ReadStep
<1>5. \A n \in 1 .. Len(entries) : Complete(n)
  <2>1. \A n \in 1 .. Len(entries) : Serialized(n)
    BY <1>4 DEF Writing, Serialized
  <2> QED
    BY <1>1, <2>1 DEF LapInv, AllComplete
<1>6. PICK g \in Nat, len \in Nat : g = got /\ len = Len(entries) /\ g <= len
  <2>1. got \in Nat /\ Len(entries) \in Nat
    BY <1>1 DEF RingTypeOK
  <2>2. got <= Len(entries)
    BY DEF Drain
  <2> QED
    BY <2>1, <2>2
<1>7. g < len => /\ g + 1 \in 1 .. len /\ read_pos = entries[g + 1].start
                 /\ read_pos # write_pos /\ read_pos \in Nat
                 /\ entries[g + 1].size \in Nat /\ entries[g + 1].size >= 2
                 /\ read_pos + entries[g + 1].size = End(g + 1)
                 /\ End(g + 1) \in Nat /\ End(g + 1) < Size
  <2> SUFFICES ASSUME g < len
               PROVE  /\ g + 1 \in 1 .. len /\ read_pos = entries[g + 1].start
                      /\ read_pos # write_pos /\ read_pos \in Nat
                      /\ entries[g + 1].size \in Nat /\ entries[g + 1].size >= 2
                      /\ read_pos + entries[g + 1].size = End(g + 1)
                      /\ End(g + 1) \in Nat /\ End(g + 1) < Size
    OBVIOUS
  <2>1. g + 1 \in 1 .. len /\ read_pos = entries[g + 1].start
    BY <1>6 DEF Drain, Place
  <2>2. /\ entries[g + 1].start \in Nat /\ entries[g + 1].size \in Nat /\ entries[g + 1].size >= 2
        /\ End(g + 1) \in Nat /\ End(g + 1) <= write_pos /\ End(g + 1) < Size
        /\ write_pos \in Nat
    BY <1>1, <1>6, <2>1, Placed
  <2> QED
    BY <2>1, <2>2 DEF End
<1>8. \A q \in Producers : wr'[q].at = "test" => wr'[q].r = 0
  BY <1>2 DEF Drain
<1>9. ~lapped' /\ ~Writing'
  <2>1. ~lapped'
    BY <1>2, Zenon DEF Drain
  <2>2. ~Writing'
    BY <1>2, <1>4 DEF Writing
  <2> QED
    BY <2>1, <2>2
<1>10. ASSUME UNCHANGED <<read_pos, got, torn>>
       PROVE  ~torn' /\ got' <= Len(entries') /\ read_pos' = Place(got)'
  BY <1>2, <1>10, Zenon DEF Drain, Place
<1>11. CASE ReadEmpty(c)
  <2>1. UNCHANGED <<read_pos, got, torn>> /\ rd'[c].at = "done" /\ rd[c].at = "idle"
        /\ \A d \in Readers \ {c} : rd'[d] = rd[d]
    BY <1>1, <1>11, ReaderMoves
  <2>2. g = len
    BY <1>6, <1>7, <1>11 DEF ReadEmpty
  <2>3. rd'["child"].at = "body" => got' < Len(entries') /\ rd'["child"].size = entries'[got' + 1].size
    BY <1>2, <2>1 DEF Drain, Readers
  <2>4. rd'["parent"].at # "body"
    BY <2>1 DEF Drain, Readers
  <2> QED
    BY <1>2, <1>6, <1>8, <1>9, <1>10, <2>1, <2>2, <2>3, <2>4 DEF Drain
<1>12. CASE ReadHeader(c)
  <2>1. /\ UNCHANGED <<read_pos, got, torn>> /\ rd'[c].at = "body" /\ rd[c].at = "idle"
        /\ rd'[c].size \in HeaderSizes(buffer[read_pos]) /\ read_pos # write_pos
        /\ \A d \in Readers \ {c} : rd'[d] = rd[d]
    BY <1>1, <1>12, ReaderMoves
  <2>2. g < len
    <3>1. ~(g < len) => read_pos = write_pos
      BY <1>6 DEF Drain, Place
    <3> QED
      BY <2>1, <3>1
  <2>3. c = "child"
    <3>1. c = "parent" => rd["child"].at = "done"
      BY <1>12 DEF ReadHeader, MayRead
    <3> QED
      BY <1>3, <1>6, <2>2, <3>1 DEF Drain
  <2>4. buffer[read_pos] = <<g + 1, 0>>
    <3>1. Complete(g + 1) /\ read_pos + 0 = read_pos /\ read_pos = entries[g + 1].start
          /\ 0 < entries[g + 1].size
      BY <1>5, <1>6, <1>7, <2>2
    <3> QED
      BY <3>1 DEF Complete
  <2>5. rd'[c].size = entries[g + 1].size
    <3>1. g + 1 # 0 /\ buffer[read_pos][1] = g + 1 /\ buffer[read_pos][2] = 0
      BY <2>4
    <3> QED
      BY <2>1, <3>1 DEF HeaderSizes
  <2>6. rd'["parent"].at # "body"
    BY <2>1, <2>3 DEF Drain, Readers
  <2> QED
    BY <1>2, <1>6, <1>8, <1>9, <1>10, <2>1, <2>2, <2>3, <2>5, <2>6 DEF Drain
<1>13. CASE ReadBody(c)
  <2>1. /\ rd[c].at = "body" /\ rd'[c].at = "idle"
        /\ read_pos' = (read_pos + rd[c].size) % Size
        /\ \A d \in Readers \ {c} : rd'[d] = rd[d]
    BY <1>1, <1>13, ReaderMoves
  <2>2. c = "child"
    BY <1>3, <2>1 DEF Drain
  <2>3. g < len /\ rd[c].size = entries[g + 1].size
    BY <1>6, <2>1, <2>2 DEF Drain
  <2>4. read_pos' = End(g + 1)
    BY <1>7, <2>1, <2>3, SmallMod
  <2>5. Whole(g + 1, read_pos)
    BY <1>1, <1>5, <1>6, <1>7, <2>3, CompleteIsWhole
  <2>6. got' = g + 1 /\ ~torn'
    <3> DEFINE whole == got + 1 <= Len(entries) /\ Whole(got + 1, read_pos)
                        /\ rd[c].size = entries[got + 1].size
    <3>1. whole
      BY <1>6, <2>3, <2>5
    <3>2. /\ got' = IF whole THEN got + 1 ELSE got
          /\ torn' = (torn \/ (~whole /\ rd[c].size # 0))
      BY <1>13, Zenon DEF ReadBody
    <3> HIDE DEF whole
    <3>3. ~torn'
      BY <3>1, <3>2, Zenon DEF Drain
    <3> QED
      BY <1>6, <3>1, <3>2, <3>3
  <2>7. End(g + 1) = IF g + 1 < len THEN entries[(g + 1) + 1].start ELSE write_pos
    <3>1. g + 1 \in 1 .. len
      BY <1>7, <2>3
    <3>2. /\ g + 1 = len => End(g + 1) = write_pos
          /\ g + 1 < len => entries[(g + 1) + 1].start = End(g + 1)
      BY <1>1, <1>6, <3>1 DEF Layout
    <3> QED
      BY <3>1, <3>2
  <2>8. got' <= Len(entries') /\ read_pos' = Place(got)'
    BY <1>2, <1>6, <1>7, <2>3, <2>4, <2>6, <2>7 DEF Place
  <2>9. rd'["child"].at = "idle" /\ rd'["parent"].at # "body"
    BY <2>1, <2>2 DEF Drain, Readers
  <2> QED
    BY <1>2, <1>8, <1>9, <2>6, <2>8, <2>9 DEF Drain
<1> QED
  BY <1>11, <1>12, <1>13 DEF ReadStep

\* The invariant of the late reader is inductive.
LEMMA DrainSteps == DrainInv /\ [RingNext]_rvars => DrainInv'
<1> SUFFICES ASSUME DrainInv, [RingNext]_rvars
             PROVE  DrainInv'
  OBVIOUS
<1>1. FirstLap /\ FirstLap'
  BY FirstLapSteps DEF DrainInv
<1>2. CASE Aside
  <2>1. UNCHANGED <<write_pos, read_pos, wr, rd, entries, lapped, early, got, torn>>
    BY <1>2 DEF Aside, pos, hist
  <2>2. Drain => Drain'
    BY <2>1 DEF Drain, Place, Writing
  <2> QED
    BY <1>1, <2>1, <2>2, Zenon DEF DrainInv
<1>3. ASSUME NEW p \in Producers, WriteStep(p)
      PROVE  DrainInv'
  <2>1. Drain => Drain'
    BY <1>1, <1>3, DrainWrites
  <2>2. UNCHANGED early
    BY <1>3 DEF WriteStep, WriteBegin, LoadWritePos, LoadReadPos, NoSpace, Contended, Reserve,
                SerializeHeader, SerializeBody, Leave, hist
  <2> QED
    BY <1>1, <2>1, <2>2, Zenon DEF DrainInv
<1>4. ASSUME NEW c \in Readers, ReadStep(c), ~early'
      PROVE  Drain'
  <2>1. ~early
    BY <1>4, Zenon DEF ReadStep, ReadEmpty, ReadHeader, ReadBody
  <2> QED
    BY <1>1, <1>4, <2>1, DrainReads DEF DrainInv
<1> QED
  BY <1>1, <1>2, <1>3, <1>4, StepKinds DEF DrainInv

\* When the child's sleep outlasts the writers nothing is lost: for any number of
\* producers, any sizes and any size of the ring, the child reads every accepted
\* entry whole and in order before it finds the ring empty, and the parent's last
\* read finds nothing.
THEOREM LateReaderDrains == RingSpec => []DrainsAll
<1>1. RingInit => DrainInv
  <2> SUFFICES ASSUME RingInit
               PROVE  Drain
    BY FirstLapStarts DEF DrainInv
  <2>1. Len(entries) = 0 /\ write_pos = 0 /\ read_pos = 0 /\ got = 0 /\ ~lapped /\ ~torn
    BY DEF RingInit
  <2>2. \A p \in Producers : wr[p].at = "idle"
    BY DEF RingInit, Between
  <2>3. \A c \in Readers : rd[c].at = "idle"
    BY DEF RingInit
  <2>4. rd["child"].at = "idle" /\ rd["parent"].at = "idle"
    BY <2>3 DEF Readers
  <2> QED
    BY <2>1, <2>2, <2>3, <2>4 DEF Drain, Place
<1>2. DrainInv => DrainsAll
  BY DEF DrainInv, Drain, DrainsAll
<1> QED
  BY <1>1, <1>2, DrainSteps, PTL DEF RingSpec
=============================================================================
