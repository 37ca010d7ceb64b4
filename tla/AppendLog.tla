----------------------------- MODULE AppendLog -----------------------------
(***************************************************************************)
(* What a shared append-only log promises to the processes that insert     *)
(* into it, with none of the machinery of fastlog/include/mmlog.h: every   *)
(* insert gets cells of its own after all the cells handed out before, no  *)
(* cell is written but by the insert that owns it, and an insert that      *)
(* reports success has written all of its cells.                           *)
(***************************************************************************)
EXTENDS Integers

CONSTANTS
  Owners,     \* who inserts
  Sizes,      \* sizes of messages
  MaxCursor,  \* bound: cells of the log
  MaxCalls    \* bound: calls of each owner

\* What the constants have to be: messages are not empty.
Parameters ==
  Sizes \subseteq Nat \ {0} /\ MaxCursor \in Nat /\ MaxCalls \in Nat

VARIABLES
  next,       \* first cell not handed out
  entries,    \* the ranges handed out
  open,       \* the entries whose insert has not returned
  cells,      \* which entry wrote each cell last
  committed   \* the entries whose insert reported success

avars == <<next, entries, open, cells, committed>>

\* The cells of an entry.
EntryCells(e) == e.start .. (e.start + e.size - 1)

\* A cell nobody wrote.
Hole == [owner |-> 0, call |-> 0]

\* The name an entry leaves in the cells it writes.
Mark(e) == [owner |-> e.owner, call |-> e.call]

AppendInit ==
  /\ next = 0
  /\ entries = {}
  /\ open = {}
  /\ cells = [c \in 0 .. MaxCursor - 1 |-> Hole]
  /\ committed = {}

\* An insert is called: it gets the cells after the last ones handed out.
Reserve ==
  \E w \in Owners, k \in 1 .. MaxCalls, n \in Sizes :
    LET e == [owner |-> w, call |-> k, start |-> next, size |-> n]
    IN /\ \A f \in entries : Mark(f) # Mark(e)
       /\ \A f \in open : f.owner # w
       /\ next + n <= MaxCursor
       /\ next' = next + n
       /\ entries' = entries \cup {e}
       /\ open' = open \cup {e}
       /\ UNCHANGED <<cells, committed>>

\* Some inserts write cells of theirs; some of them return, some die; a
\* return with success leaves no cell of the entry unwritten.
Progress ==
  /\ open' \in SUBSET open
  /\ \E done \in SUBSET (open \ open') :
       /\ committed' = committed \cup done
       /\ cells' \in [0 .. MaxCursor - 1 -> {Hole} \cup {Mark(e) : e \in entries}]
       /\ \A c \in 0 .. MaxCursor - 1 :
            cells'[c] # cells[c] =>
              \E e \in open : c \in EntryCells(e) /\ cells'[c] = Mark(e)
       /\ \A e \in done : \A c \in EntryCells(e) : cells'[c] = Mark(e)
  /\ UNCHANGED <<next, entries>>

AppendNext == Reserve \/ Progress

AppendSpec == AppendInit /\ [][AppendNext]_avars

-----------------------------------------------------------------------------
(* What the users of the log rely on *)

\* The state of the log keeps its types; a call is under way or committed, not
\* both.
AppendTypeOK ==
  /\ next \in 0 .. MaxCursor
  /\ entries \subseteq [owner : Owners, call : 1 .. MaxCalls, start : Nat, size : Sizes]
  /\ open \subseteq entries
  /\ committed \subseteq entries
  /\ open \cap committed = {}
  /\ cells \in [0 .. MaxCursor - 1 -> {Hole} \cup {Mark(e) : e \in entries}]

\* Entries do not overlap.
EntriesDisjoint ==
  /\ \A e \in entries : e.start + e.size <= next
  /\ \A e, f \in entries :
       e # f => e.start + e.size <= f.start \/ f.start + f.size <= e.start

\* What was reported as inserted stays in the log, whole.
CommittedWhole ==
  \A e \in committed : \A c \in EntryCells(e) : cells[c] = Mark(e)

=============================================================================
