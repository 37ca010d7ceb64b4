------------------------ MODULE LogInterface_proofs -------------------------
(***************************************************************************)
(* Theorems on what a program sees of the log: the append-only log that an *)
(* insert promises (AppendLog), and mmlog_open (MMLogOpen) for any number  *)
(* of processes, killed, trimming or removing the data file where they     *)
(* like.                                                                   *)
(***************************************************************************)
EXTENDS AppendLog, MMLogOpen, TLAPS

-----------------------------------------------------------------------------
(* AppendLog *)

\* The inductive invariant.
AInv == AppendTypeOK /\ EntriesDisjoint /\ CommittedWhole

\* An empty log satisfies it.
LEMMA AInvInit == ASSUME Parameters PROVE AppendInit => AInv
BY DEF Parameters, AppendInit, AInv, AppendTypeOK, EntriesDisjoint, CommittedWhole

\* A reservation starts at the first free cell and disturbs no other entry.
LEMMA ReserveInv == ASSUME Parameters, AInv, Reserve PROVE AInv'
<1> USE DEF Parameters
<1>0. AppendTypeOK /\ EntriesDisjoint /\ CommittedWhole
  BY DEF AInv
<1>1. PICK w \in Owners, k \in 1 .. MaxCalls, n \in Sizes :
        LET e == [owner |-> w, call |-> k, start |-> next, size |-> n]
        IN /\ \A f \in entries : Mark(f) # Mark(e)
           /\ \A f \in open : f.owner # w
           /\ next + n <= MaxCursor
           /\ next' = next + n
           /\ entries' = entries \cup {e}
           /\ open' = open \cup {e}
           /\ UNCHANGED <<cells, committed>>
  BY Zenon DEF Reserve
<1> DEFINE e == [owner |-> w, call |-> k, start |-> next, size |-> n]
<1>2. n \in Nat /\ next \in Nat /\ next + n <= MaxCursor /\ next' = next + n
  BY <1>0, <1>1 DEF AppendTypeOK
<1>3. entries' = entries \cup {e} /\ open' = open \cup {e} /\ cells' = cells /\ committed' = committed
  BY <1>1
<1>4. e \in [owner : Owners, call : 1 .. MaxCalls, start : Nat, size : Sizes]
  BY <1>2
<1>5. e \notin entries
  BY <1>1
<1>6. e.start = next /\ e.size = n
  OBVIOUS
<1>7. \A f \in entries : f.start \in Nat /\ f.size \in Nat
  BY <1>0 DEF AppendTypeOK
<1> HIDE DEF e
<1>8. AppendTypeOK'
  BY <1>0, <1>2, <1>3, <1>4, <1>5 DEF AppendTypeOK
<1>9. EntriesDisjoint'
  BY <1>0, <1>2, <1>3, <1>6, <1>7 DEF EntriesDisjoint
<1>10. CommittedWhole'
  BY <1>0, <1>3 DEF CommittedWhole
<1> QED BY <1>8, <1>9, <1>10 DEF AInv

\* Writers write cells of their own entries, none of which is committed.
LEMMA ProgressInv == ASSUME Parameters, AInv, Progress PROVE AInv'
<1> USE DEF Parameters
<1>0. AppendTypeOK /\ EntriesDisjoint /\ CommittedWhole
  BY DEF AInv
<1>1. PICK done \in SUBSET (open \ open') :
        /\ committed' = committed \cup done
        /\ cells' \in [0 .. MaxCursor - 1 -> {Hole} \cup {Mark(e) : e \in entries}]
        /\ \A c \in 0 .. MaxCursor - 1 :
             cells'[c] # cells[c] =>
               \E e \in open : c \in EntryCells(e) /\ cells'[c] = Mark(e)
        /\ \A e \in done : \A c \in EntryCells(e) : cells'[c] = Mark(e)
  BY DEF Progress
<1>2. open' \subseteq open /\ next' = next /\ entries' = entries
  BY DEF Progress
<1>3. AppendTypeOK'
  BY <1>0, <1>1, <1>2 DEF AppendTypeOK
<1>4. EntriesDisjoint'
  BY <1>0, <1>2 DEF EntriesDisjoint
<1>5. ASSUME NEW e \in committed', NEW c \in EntryCells(e) PROVE cells'[c] = Mark(e)
  <2>1. CASE e \in done
    BY <1>1, <2>1
  <2>2. CASE e \in committed
    <3>1. e \in entries /\ e.start \in Nat /\ e.size \in Nat
      BY <1>0, <2>2 DEF AppendTypeOK
    <3>2. c \in 0 .. MaxCursor - 1
      BY <1>0, <3>1 DEF AppendTypeOK, EntriesDisjoint, EntryCells
    <3>3. cells[c] = Mark(e)
      BY <1>0, <2>2 DEF CommittedWhole
    <3>4. ASSUME NEW f \in open, c \in EntryCells(f) PROVE FALSE
      <4>1. f \in entries /\ f.start \in Nat /\ f.size \in Nat /\ f # e
        BY <1>0, <2>2 DEF AppendTypeOK
      <4> QED BY <1>0, <3>1, <3>4, <4>1 DEF EntriesDisjoint, EntryCells
    <3> QED BY <1>1, <3>2, <3>3, <3>4
  <2> QED BY <1>1, <1>5, <2>1, <2>2
<1> QED BY <1>3, <1>4, <1>5 DEF AInv, CommittedWhole

\* The invariant is inductive.
LEMMA AInvStep == ASSUME Parameters PROVE AInv /\ [AppendNext]_avars => AInv'
<1> SUFFICES ASSUME AInv, [AppendNext]_avars PROVE AInv'
  OBVIOUS
<1>1. CASE UNCHANGED avars
  BY <1>1 DEF avars, AInv, AppendTypeOK, EntriesDisjoint, CommittedWhole
<1> QED BY <1>1, ReserveInv, ProgressInv DEF AppendNext

\* Entries of an append-only log never overlap.
THEOREM AppendDisjoint == ASSUME Parameters PROVE AppendSpec => []EntriesDisjoint
<1>1. AInv => EntriesDisjoint
  BY DEF AInv
<1> QED BY <1>1, AInvInit, AInvStep, PTL DEF AppendSpec

\* What an insert into an append-only log reported as written stays, whole,
\* whatever the other inserts do and wherever they stop.
THEOREM AppendDurable == ASSUME Parameters PROVE AppendSpec => []CommittedWhole
<1>1. AInv => CommittedWhole
  BY DEF AInv
<1> QED BY <1>1, AInvInit, AInvStep, PTL DEF AppendSpec

-----------------------------------------------------------------------------
(* MMLogOpen *)

USE OpenAssumption

\* The inductive invariant.
OpenIInv == OpenTypeOK /\ CreatorInv

\* A log that nobody opened yet satisfies it, whatever old data file is there.
LEMMA OpenIInvInit == OpenInit => OpenIInv
<1> SUFFICES ASSUME OpenInit PROVE OpenIInv
  OBVIOUS
<1>1. meta = NoMeta /\ \A p \in Openers : pc[p] = "start"
  BY DEF OpenInit
<1>2. data \in [exists : BOOLEAN, size : Nat]
  <2>1. CASE data = [exists |-> FALSE, size |-> 0]
    BY <2>1
  <2>2. ASSUME NEW n \in OldSizes, data = [exists |-> TRUE, size |-> n]
        PROVE  data \in [exists : BOOLEAN, size : Nat]
    BY <2>2
  <2> QED BY <2>1, <2>2 DEF OpenInit
<1>3. CreatorInv
  BY <1>1 DEF CreatorInv, NoMeta, Creating
<1>4. meta \in [exists : BOOLEAN, sized : BOOLEAN, chunk_size : {0, ChunkSize},
                file_size : {0, ChunkSize}, is_ready : BOOLEAN]
  BY <1>1 DEF NoMeta
<1> QED BY <1>2, <1>3, <1>4 DEF OpenIInv, OpenInit, OpenTypeOK

\* No call of mmlog_open, finished, failed or killed half-way, leaves the types.
LEMMA OpenTypeStep ==
  ASSUME OpenTypeOK, [OpenNext]_ovars PROVE OpenTypeOK'
<1> USE DEF OpenTypeOK, Creating, Waiting, Goto, Try, TryFile
<1>1. ASSUME NEW p \in Openers, OpenStep(p) PROVE OpenTypeOK'
  <2>1. CASE OpenExcl(p) BY <2>1 DEF OpenExcl
  <2>2. CASE CreateTruncate(p)
    <3>1. meta' \in [exists : BOOLEAN, sized : BOOLEAN, chunk_size : {0, ChunkSize},
                     file_size : {0, ChunkSize}, is_ready : BOOLEAN]
      BY <2>2 DEF CreateTruncate
    <3>2. pc' = [pc EXCEPT ![p] = "c_map"] \/ pc' = [pc EXCEPT ![p] = "null"]
      BY <2>2 DEF CreateTruncate
    <3> QED BY <2>2, <3>1, <3>2 DEF CreateTruncate
  <2>3. CASE CreateMap(p) BY <2>3 DEF CreateMap
  <2>4. CASE CreateInit(p) BY <2>4 DEF CreateInit
  <2>5. CASE CreateData(p) BY <2>5 DEF CreateData
  <2>6. CASE CreateZero(p) BY <2>6 DEF CreateZero
  <2>7. CASE CreateGrow(p) BY <2>7 DEF CreateGrow
  <2>8. CASE CreateStoreSize(p) BY <2>8 DEF CreateStoreSize
  <2>9. CASE CreateStoreReady(p) BY <2>9 DEF CreateStoreReady
  <2>10. CASE WaitTimeout(p) BY <2>10 DEF WaitTimeout
  <2>11. CASE OpenMeta(p) BY <2>11 DEF OpenMeta
  <2>12. CASE OpenMap(p) BY <2>12 DEF OpenMap
  <2>13. CASE OpenReady(p) BY <2>13 DEF OpenReady
  <2>14. CASE OpenData(p) BY <2>14 DEF OpenData
  <2> QED BY <1>1, <2>1, <2>2, <2>3, <2>4, <2>5, <2>6, <2>7, <2>8, <2>9, <2>10, <2>11, <2>12,
    <2>13, <2>14 DEF OpenStep
<1>2. ASSUME NEW p \in Openers, MmlogOpen(p) PROVE OpenTypeOK'
  BY <1>2 DEF MmlogOpen
<1>3. ASSUME NEW p \in Openers, Crash(p) PROVE OpenTypeOK'
  BY <1>3 DEF Crash
<1>4. ASSUME NEW p \in Openers, Trim(p) PROVE OpenTypeOK'
  BY <1>4 DEF Trim
<1>5. CASE Unlink
  BY <1>5 DEF Unlink
<1>6. CASE UNCHANGED ovars
  BY <1>6 DEF ovars
<1> QED BY <1>1, <1>2, <1>3, <1>4, <1>5, <1>6 DEF OpenNext

\* Nor does it break what is known about the creator.
LEMMA CreatorStep ==
  ASSUME OpenIInv, OpenTypeOK', [OpenNext]_ovars
  PROVE  CreatorInv'
<1> USE DEF Creating, Waiting, Goto, Try, TryFile
<1>0. OpenTypeOK /\ CreatorInv
  BY DEF OpenIInv
<1>1. ASSUME NEW p \in Openers, OpenStep(p) PROVE CreatorInv'
  <2>1. CASE OpenExcl(p) BY <1>0, <2>1 DEF OpenExcl, OpenTypeOK, CreatorInv
  <2>2. CASE CreateTruncate(p) BY <1>0, <2>2 DEF CreateTruncate, OpenTypeOK, CreatorInv
  <2>3. CASE CreateMap(p) BY <1>0, <2>3 DEF CreateMap, OpenTypeOK, CreatorInv
  <2>4. CASE CreateInit(p) BY <1>0, <2>4 DEF CreateInit, OpenTypeOK, CreatorInv
  <2>5. CASE CreateData(p) BY <1>0, <2>5 DEF CreateData, OpenTypeOK, CreatorInv
  <2>6. CASE CreateZero(p) BY <1>0, <2>6 DEF CreateZero, OpenTypeOK, CreatorInv
  <2>7. CASE CreateGrow(p) BY <1>0, <2>7 DEF CreateGrow, OpenTypeOK, CreatorInv
  <2>8. CASE CreateStoreSize(p) BY <1>0, <2>8 DEF CreateStoreSize, OpenTypeOK, CreatorInv
  <2>9. CASE CreateStoreReady(p) BY <1>0, <2>9 DEF CreateStoreReady, OpenTypeOK, CreatorInv
  <2>10. CASE WaitTimeout(p) BY <1>0, <2>10 DEF WaitTimeout, OpenTypeOK, CreatorInv
  <2>11. CASE OpenMeta(p) BY <1>0, <2>11 DEF OpenMeta, OpenTypeOK, CreatorInv
  <2>12. CASE OpenMap(p) BY <1>0, <2>12 DEF OpenMap, OpenTypeOK, CreatorInv
  <2>13. CASE OpenReady(p) BY <1>0, <2>13 DEF OpenReady, OpenTypeOK, CreatorInv
  <2>14. CASE OpenData(p) BY <1>0, <2>14 DEF OpenData, OpenTypeOK, CreatorInv
  <2> QED BY <1>1, <2>1, <2>2, <2>3, <2>4, <2>5, <2>6, <2>7, <2>8, <2>9, <2>10, <2>11, <2>12,
    <2>13, <2>14 DEF OpenStep
<1>2. ASSUME NEW p \in Openers, MmlogOpen(p) PROVE CreatorInv'
  BY <1>0, <1>2 DEF MmlogOpen, OpenTypeOK, CreatorInv
<1>3. ASSUME NEW p \in Openers, Crash(p) PROVE CreatorInv'
  BY <1>0, <1>3 DEF Crash, OpenTypeOK, CreatorInv
<1>4. ASSUME NEW p \in Openers, Trim(p) PROVE CreatorInv'
  BY <1>0, <1>4 DEF Trim, OpenTypeOK, CreatorInv
<1>5. CASE Unlink
  BY <1>0, <1>5 DEF Unlink, OpenTypeOK, CreatorInv
<1>6. CASE UNCHANGED ovars
  BY <1>0, <1>6 DEF ovars, CreatorInv
<1> QED BY <1>1, <1>2, <1>3, <1>4, <1>5, <1>6 DEF OpenNext

\* The invariant is inductive.
LEMMA OpenIInvStep == OpenIInv /\ [OpenNext]_ovars => OpenIInv'
BY OpenTypeStep, CreatorStep DEF OpenIInv

\* Types are kept through failed calls, crashes, trims and removed files.
THEOREM OpenTypeCorrect == OpenSpec => []OpenTypeOK
<1>1. OpenIInv => OpenTypeOK
  BY DEF OpenIInv
<1> QED BY <1>1, OpenIInvInit, OpenIInvStep, PTL DEF OpenSpec

\* The creator is alone until it has set is_ready, and sets it last.
THEOREM CreatorInvariant == OpenSpec => []CreatorInv
<1>1. OpenIInv => CreatorInv
  BY DEF OpenIInv
<1> QED BY <1>1, OpenIInvInit, OpenIInvStep, PTL DEF OpenSpec

\* Whoever gets a handle from mmlog_open gets one for a log that is set up.
THEOREM HandlesAreReady == OpenSpec => []OpenedIsReady
<1>1. OpenIInv => OpenedIsReady
  BY DEF OpenIInv, CreatorInv, OpenedIsReady
<1> QED BY <1>1, OpenIInvInit, OpenIInvStep, PTL DEF OpenSpec

\* files_create never truncates the data file of a log that is in use.
THEOREM OpenLogsAreNotClobbered == OpenSpec => []NoClobber
<1>1. OpenIInv => NoClobber
  BY DEF OpenIInv, CreatorInv, NoClobber, Creating
<1> QED BY <1>1, OpenIInvInit, OpenIInvStep, PTL DEF OpenSpec

\* What a call that found the log ready knows on its way through files_open:
\* as long as the log is left alone, only its own failing calls make it wait.
FoundInv ==
  /\ meta.is_ready => meta.sized
  /\ \A p \in Openers :
       /\ pc[p] \in Creating \ {"c_trunc"} => meta.sized
       /\ foundReady[p] => meta.is_ready /\ pc[p] \notin Creating \cup {"start", "excl"}
       /\ foundReady[p] /\ ~touched /\ ~failed[p] => ~waited[p] /\ pc[p] # "null"

\* Nobody has found anything before the first call.
LEMMA FoundInit == OpenInit => FoundInv
BY DEF OpenInit, FoundInv, NoMeta, Creating

\* The creator's order of stores and the tests of files_open fit together.
LEMMA FoundStep ==
  ASSUME OpenTypeOK, CreatorInv, FoundInv, [OpenNext]_ovars PROVE FoundInv'
<1> USE DEF OpenTypeOK, CreatorInv, FoundInv, Creating, Waiting, Goto, Try, TryFile
<1>1. ASSUME NEW p \in Openers, OpenStep(p) PROVE FoundInv'
  <2>1. CASE OpenExcl(p) BY <2>1 DEF OpenExcl
  <2>2. CASE CreateTruncate(p) BY <2>2 DEF CreateTruncate
  <2>3. CASE CreateMap(p) BY <2>3 DEF CreateMap
  <2>4. CASE CreateInit(p) BY <2>4 DEF CreateInit
  <2>5. CASE CreateData(p) BY <2>5 DEF CreateData
  <2>6. CASE CreateZero(p) BY <2>6 DEF CreateZero
  <2>7. CASE CreateGrow(p) BY <2>7 DEF CreateGrow
  <2>8. CASE CreateStoreSize(p) BY <2>8 DEF CreateStoreSize
  <2>9. CASE CreateStoreReady(p) BY <2>9 DEF CreateStoreReady
  <2>10. CASE WaitTimeout(p) BY <2>10 DEF WaitTimeout
  <2>11. CASE OpenMeta(p) BY <2>11 DEF OpenMeta
  <2>12. CASE OpenMap(p) BY <2>12 DEF OpenMap
  <2>13. CASE OpenReady(p) BY <2>13 DEF OpenReady
  <2>14. CASE OpenData(p) BY <2>14 DEF OpenData
  <2> QED BY <1>1, <2>1, <2>2, <2>3, <2>4, <2>5, <2>6, <2>7, <2>8, <2>9, <2>10, <2>11, <2>12,
    <2>13, <2>14 DEF OpenStep
<1>2. ASSUME NEW p \in Openers, MmlogOpen(p) PROVE FoundInv'
  BY <1>2 DEF MmlogOpen
<1>3. ASSUME NEW p \in Openers, Crash(p) PROVE FoundInv'
  BY <1>3 DEF Crash
<1>4. ASSUME NEW p \in Openers, Trim(p) PROVE FoundInv'
  BY <1>4 DEF Trim
<1>5. CASE Unlink
  BY <1>5 DEF Unlink
<1>6. CASE UNCHANGED ovars
  BY <1>6 DEF ovars
<1> QED BY <1>1, <1>2, <1>3, <1>4, <1>5, <1>6 DEF OpenNext

\* A process that finds a ready log with its data file as created never times
\* out on it, unless one of its own calls of open or fstat fails.
THEOREM ReadyLogsOpen == OpenSpec => []ReadyLogOpens
<1>1. OpenIInv /\ FoundInv /\ [OpenNext]_ovars => FoundInv'
  BY FoundStep DEF OpenIInv
<1>2. FoundInv => ReadyLogOpens
  BY DEF FoundInv, ReadyLogOpens
<1> QED BY <1>1, <1>2, FoundInit, OpenIInvInit, OpenIInvStep, PTL DEF OpenSpec
=============================================================================
