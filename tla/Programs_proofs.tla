-------------------------- MODULE Programs_proofs ---------------------------
(***************************************************************************)
(* Theorems about two sets of programs: the clients of the log             *)
(* (LogClients), for any number of workers and messages, and the registry  *)
(* (NoPeeking), for any number of processes, limits, messages and stray    *)
(* datagrams.                                                              *)
(***************************************************************************)
EXTENDS LogClients, NoPeeking, SequenceTheorems, FiniteSetTheorems, TLAPS

-----------------------------------------------------------------------------
(* LogClients *)

\* The parent is past its join only when every worker is done, and a worker that
\* the program does not start never works.
JoinInv ==
  /\ DOMAIN wk = Workers /\ \A w \in Workers : "at" \in DOMAIN wk[w]
  /\ cut = FALSE
  /\ parent \in {"open", "trim", "validate"} => AllDone
  /\ \A w \in Workers \ Active : wk[w].at \in {"unborn", "done"}

\* The workers that a program starts are workers.
LEMMA ActiveWorkers == Active \subseteq Workers
BY ClientsAssumption DEF Active

\* No worker takes a step once the parent has joined them.
LEMMA JoinedStay ==
  ASSUME JoinInv, NEW w \in Active, WorkerStep(w)
  PROVE  parent \notin {"open", "trim", "validate"}
<1> SUFFICES ASSUME parent \in {"open", "trim", "validate"}
             PROVE  FALSE
  OBVIOUS
<1>1. wk[w].at = "done"
  BY DEF JoinInv, AllDone
<1> QED
  BY <1>1 DEF WorkerStep, Start, StartFails, WorkerOpen, WorkerOpenFails, Number, Reserve, Inserted,
              InsertFails, Leave

\* The join is kept by every step of the parent and of the workers.
LEMMA JoinSteps == JoinInv /\ [ClientsNext]_lvars => JoinInv'
<1> SUFFICES ASSUME JoinInv, [ClientsNext]_lvars
             PROVE  JoinInv'
  OBVIOUS
<1> USE ActiveWorkers
<1>1. CASE UNCHANGED lvars
  BY <1>1 DEF lvars, JoinInv, AllDone, Active
<1>2. CASE Unlink
  BY <1>2 DEF Unlink, JoinInv, AllDone, Active, disk
<1>3. CASE Join
  BY <1>3 DEF Join, JoinInv, AllDone, Active
<1>4. CASE ParentOpen
  BY <1>4 DEF ParentOpen, OpenEffect, JoinInv, AllDone, Active
<1>5. CASE ParentOpenFails
  BY <1>5 DEF ParentOpenFails, JoinInv, AllDone, Active
<1>6. CASE Trim
  <2>1. ~InFlight
    BY <1>6 DEF Trim, JoinInv, AllDone, InFlight
  <2>2. cut' = FALSE
    BY <1>6, <2>1 DEF Trim, JoinInv
  <2> QED
    BY <1>6, <2>2 DEF Trim, JoinInv, AllDone, Active
<1>7. CASE Validate \/ ValidateFails
  BY <1>7 DEF Validate, ValidateFails, JoinInv, AllDone, Active
<1>8. ASSUME NEW w \in Active, WorkerStep(w)
      PROVE  JoinInv'
  <2>1. parent \notin {"open", "trim", "validate"}
    BY <1>8, JoinedStay
  <2>2. parent' \notin {"open", "trim", "validate"} /\ UNCHANGED <<prog, cut>>
    BY <1>8, <2>1 DEF WorkerStep, Start, StartFails, WorkerOpen, WorkerOpenFails, Number, Reserve,
                      Inserted, InsertFails, Leave
  <2>3. Active' = Active
    BY <2>2 DEF Active
  <2>4. CASE StartFails(w) /\ prog = "threads"
    <3>1. wk' = [u \in Workers |-> [wk[u] EXCEPT !.at = "done"]]
      BY <2>4 DEF StartFails
    <3>2. /\ DOMAIN wk' = Workers
          /\ \A u \in Workers : "at" \in DOMAIN wk'[u] /\ wk'[u].at = "done"
      BY <3>1 DEF JoinInv
    <3> QED
      BY <2>2, <2>3, <3>2 DEF JoinInv
  <2>5. CASE ~(StartFails(w) /\ prog = "threads")
    <3> DEFINE Only == /\ DOMAIN wk' = Workers /\ "at" \in DOMAIN wk'[w]
                       /\ \A u \in Workers \ {w} : wk'[u] = wk[u]
    <3>0. DOMAIN wk = Workers /\ w \in Workers /\ "at" \in DOMAIN wk[w]
      BY DEF JoinInv
    <3>1. Only
      <4>1. CASE Start(w) \/ StartFails(w) \/ WorkerOpen(w) \/ WorkerOpenFails(w)
        <5>1. \E step : wk' = [wk EXCEPT ![w].at = step]
          BY <2>5, <4>1 DEF Start, StartFails, WorkerOpen, WorkerOpenFails
        <5> QED
          BY <3>0, <5>1
      <4>2. CASE Number(w)
        <5>1. wk' = [wk EXCEPT ![w].at = "insert", ![w].seq = seqno]
          BY <4>2 DEF Number
        <5> QED
          BY <3>0, <5>1
      <4>3. CASE Reserve(w)
        <5>1. \E place : wk' = [wk EXCEPT ![w].at = "copy", ![w].place = place]
          BY <4>3 DEF Reserve
        <5> QED
          BY <3>0, <5>1
      <4>4. CASE Inserted(w)
        <5>1. \E left : wk' = [wk EXCEPT ![w].at = "loop", ![w].left = left]
          <6>1. wk' = [wk EXCEPT ![w].at = "loop", ![w].left = wk[w].left - 1]
            BY <3>0, <4>4 DEF Inserted
          <6> QED
            BY <6>1
        <5> QED
          BY <3>0, <5>1
      <4>5. CASE InsertFails(w)
        <5>1. \/ \E left : wk' = [wk EXCEPT ![w] = [wk[w] EXCEPT !.at = "loop", !.left = left]]
              \/ wk' = [wk EXCEPT ![w] = [wk[w] EXCEPT !.at = "done"]]
          BY <4>5 DEF InsertFails
        <5> QED
          BY <3>0, <5>1
      <4>6. CASE Leave(w)
        <5>1. wk' = [wk EXCEPT ![w].at = "done", ![w].ok = TRUE]
          BY <4>6 DEF Leave
        <5> QED
          BY <3>0, <5>1
      <4> QED
        BY <1>8, <4>1, <4>2, <4>3, <4>4, <4>5, <4>6 DEF WorkerStep
    <3>2. /\ DOMAIN wk' = Workers /\ \A u \in Workers : "at" \in DOMAIN wk'[u]
          /\ \A u \in Workers \ Active : wk'[u] = wk[u]
      BY <3>1 DEF JoinInv
    <3> QED
      BY <2>2, <2>3, <3>2 DEF JoinInv
  <2> QED
    BY <2>4, <2>5
<1> QED
  BY <1>1, <1>2, <1>3, <1>4, <1>5, <1>6, <1>7, <1>8 DEF ClientsNext

\* The log is trimmed only after every insert, for any number of workers: the tests
\* join their workers first, and the benchmark, whose workers would trim one by one
\* in the destructor, never reaches it.
THEOREM TrimWaitsForInserts == ClientsSpec => []NoTrimUnderInsert
<1>1. ClientsInit => JoinInv
  BY DEF ClientsInit, JoinInv, AllDone
<1>2. JoinInv => NoTrimUnderInsert
  BY DEF JoinInv, NoTrimUnderInsert
<1> QED
  BY <1>1, <1>2, JoinSteps, PTL DEF ClientsSpec

-----------------------------------------------------------------------------
(* What the tests of the log count *)

WorkerSteps == {"unborn", "open", "loop", "insert", "copy", "done"}
Worker == [at : WorkerSteps, left : 0 .. Messages, place : Nat, seq : Nat, ok : BOOLEAN]
Line == [by : Workers \cup {"earlier run"}, seq : Nat, whole : BOOLEAN]

ClientTypes ==
  /\ prog \in Programs /\ meta \in BOOLEAN /\ seqno \in Nat
  /\ clean \in BOOLEAN /\ trimmed \in BOOLEAN
  /\ wk \in [Workers -> Worker]
  /\ log \in Seq(Line)

\* A worker of the tests: it has all its messages left until it has the log, and
\* gives up at the first failure.
WorkerInv(w) ==
  /\ wk[w].at \in {"insert", "copy"} => wk[w].left > 0
  /\ wk[w].at \in {"unborn", "open"} => wk[w].left = Messages
  /\ wk[w].ok => wk[w].at = "done" /\ wk[w].left = 0
  /\ clean /\ wk[w].at = "done" => wk[w].ok
  /\ ~meta => wk[w].at \in {"unborn", "open", "done"} /\ wk[w].left = Messages
  /\ parent = "unlink" => wk[w].at = "unborn"
  /\ wk[w].at = "copy" => /\ wk[w].place \in 1 .. Len(log)
                          /\ log[wk[w].place].by = w /\ ~log[wk[w].place].whole

\* The message at place i is the f[i]th from the last of its worker: those behind the
\* ones left are whole, and a hole is the one that the worker is copying, or the last
\* thing it did.
RankOf(f, i) ==
  LET w == log[i].by IN
  w \in Workers =>
    /\ f[i] \in 1 .. Messages
    /\ log[i].whole => f[i] > wk[w].left
    /\ ~log[i].whole => /\ f[i] = wk[w].left /\ ~wk[w].ok
                        /\ wk[w].at = "done" \/ (wk[w].at = "copy" /\ wk[w].place = i)

Ranks(f) ==
  /\ \A i \in 1 .. Len(log) : RankOf(f, i)
  /\ \A i, j \in 1 .. Len(log) :
       log[i].by \in Workers /\ log[i].by = log[j].by /\ f[i] = f[j] => i = j
  /\ \A w \in Workers : \A m \in 1 .. Messages : m > wk[w].left =>
       \E i \in 1 .. Len(log) : log[i].by = w /\ log[i].whole /\ f[i] = m

\* What the log of a test holds.
LogInv ==
  /\ \A w \in Workers : WorkerInv(w)
  /\ ~meta => log = <<>>
  /\ parent = "unlink" => seqno = 0
  /\ prog # "reader" /\ parent # "unlink" => \A i \in 1 .. Len(log) : log[i].by \in Workers
  /\ \E f \in [1 .. Len(log) -> Int] : Ranks(f)

\* Numbers are given out once, and as long as no call failed each is in the log or
\* about to come there.
NumberInv ==
  /\ \A i \in 1 .. Len(log) : log[i].seq < seqno
  /\ \A w \in Workers : wk[w].at = "insert" => wk[w].seq < seqno
  /\ \A i, j \in 1 .. Len(log) : log[i].seq = log[j].seq => i = j
  /\ \A w \in Workers, i \in 1 .. Len(log) : wk[w].at = "insert" => wk[w].seq # log[i].seq
  /\ \A v, w \in Workers : wk[v].at = "insert" /\ wk[w].at = "insert" /\ wk[v].seq = wk[w].seq => v = w
  /\ clean => \A n \in 0 .. seqno - 1 : \/ \E i \in 1 .. Len(log) : log[i].seq = n
                                        \/ \E w \in Workers : wk[w].at = "insert" /\ wk[w].seq = n

\* Where the parent is when it counts.
ParentInv ==
  /\ parent \in {"open", "trim", "validate"} => ~Bench
  /\ parent \in {"trim", "validate"} /\ clean /\ prog # "reader" => data = "usable"
  /\ parent = "validate" /\ clean => trimmed
  /\ parent \in {"unlink", "start", "open", "trim", "validate"} => verdict = "none"
  /\ verdict \in {"passed", "failed"} => parent = "exited" /\ AllDone

\* A test of the log, and not the benchmark.
TestInv == ClientTypes /\ LogInv

CountInv ==
  /\ JoinInv /\ ParentInv
  /\ ~Bench => TestInv
  /\ prog = "threads" /\ parent # "unlink" => NumberInv

-----------------------------------------------------------------------------
(* The steps of the workers *)

\* Worker w goes on with the fields given, the others stay as they are.
WorkerMoves(w, at_, left, place, seq, ok) ==
  /\ wk' \in [Workers -> Worker]
  /\ wk'[w].at = at_ /\ wk'[w].left = left /\ wk'[w].place = place
  /\ wk'[w].seq = seq /\ wk'[w].ok = ok
  /\ \A u \in Workers \ {w} : wk'[u] = wk[u]

\* A new record for one worker moves that worker alone.
LEMMA WorkerSet ==
  ASSUME wk \in [Workers -> Worker], NEW w \in Workers, NEW rec \in Worker,
         wk' = [wk EXCEPT ![w] = rec]
  PROVE  WorkerMoves(w, rec.at, rec.left, rec.place, rec.seq, rec.ok)
BY DEF WorkerMoves

\* One field of a worker changes, or two.
LEMMA SetAt ==
  ASSUME NEW r \in Worker, NEW step \in WorkerSteps
  PROVE  /\ [r EXCEPT !.at = step] \in Worker
         /\ [r EXCEPT !.at = step].at = step /\ [r EXCEPT !.at = step].left = r.left
         /\ [r EXCEPT !.at = step].place = r.place /\ [r EXCEPT !.at = step].seq = r.seq
         /\ [r EXCEPT !.at = step].ok = r.ok
BY DEF Worker

\* A worker starts, opens the log or gives up.
LEMMA AtMoves ==
  ASSUME wk \in [Workers -> Worker], NEW w \in Workers, NEW step \in WorkerSteps,
         wk' = [wk EXCEPT ![w].at = step]
  PROVE  WorkerMoves(w, step, wk[w].left, wk[w].place, wk[w].seq, wk[w].ok)
<1>1. PICK r \in Worker : r = wk[w]
  OBVIOUS
<1> DEFINE rec == [r EXCEPT !.at = step]
<1>2. wk' = [wk EXCEPT ![w] = rec]
  BY <1>1
<1>3. /\ rec \in Worker /\ rec.at = step /\ rec.left = r.left /\ rec.place = r.place
      /\ rec.seq = r.seq /\ rec.ok = r.ok
  BY SetAt
<1> HIDE DEF rec
<1>4. WorkerMoves(w, rec.at, rec.left, rec.place, rec.seq, rec.ok)
  BY <1>2, <1>3, WorkerSet
<1> QED
  BY <1>1, <1>3, <1>4

\* A message is numbered.
LEMMA NumberMoves ==
  ASSUME ClientTypes, NEW w \in Workers, Number(w)
  PROVE  WorkerMoves(w, "insert", wk[w].left, wk[w].place, seqno, wk[w].ok)
<1>1. PICK r \in Worker : r = wk[w]
  BY DEF ClientTypes
<1> DEFINE half == [r EXCEPT !.at = "insert"]
           rec == [half EXCEPT !.seq = seqno]
<1>2. wk' = [wk EXCEPT ![w] = rec]
  BY <1>1 DEF Number, ClientTypes
<1>3. /\ half \in Worker /\ half.at = "insert" /\ half.left = r.left /\ half.place = r.place
      /\ half.ok = r.ok
  BY SetAt DEF WorkerSteps
<1>4. PICK n \in Nat : n = seqno
  BY DEF ClientTypes
<1> HIDE DEF half
<1>5. /\ rec \in Worker /\ rec.at = half.at /\ rec.left = half.left /\ rec.place = half.place
      /\ rec.seq = n /\ rec.ok = half.ok
  BY <1>3, <1>4 DEF Worker
<1> HIDE DEF rec
<1>6. WorkerMoves(w, rec.at, rec.left, rec.place, rec.seq, rec.ok)
  BY <1>2, <1>5, WorkerSet DEF ClientTypes
<1> QED
  BY <1>1, <1>3, <1>4, <1>5, <1>6

\* A place is reserved.
LEMMA ReserveMoves ==
  ASSUME ClientTypes, NEW w \in Workers, Reserve(w)
  PROVE  WorkerMoves(w, "copy", wk[w].left, Len(log) + 1, wk[w].seq, wk[w].ok)
<1>1. PICK r \in Worker : r = wk[w]
  BY DEF ClientTypes
<1>2. PICK n \in Nat : n = Len(log) + 1
  BY LenProperties DEF ClientTypes
<1> DEFINE half == [r EXCEPT !.at = "copy"]
           rec == [half EXCEPT !.place = n]
<1>3. wk' = [wk EXCEPT ![w] = rec]
  BY <1>1, <1>2 DEF Reserve, ClientTypes
<1>4. /\ half \in Worker /\ half.at = "copy" /\ half.left = r.left /\ half.seq = r.seq
      /\ half.ok = r.ok
  BY SetAt DEF WorkerSteps
<1> HIDE DEF half
<1>5. /\ rec \in Worker /\ rec.at = half.at /\ rec.left = half.left /\ rec.place = n
      /\ rec.seq = half.seq /\ rec.ok = half.ok
  BY <1>4 DEF Worker
<1> HIDE DEF rec
<1>6. WorkerMoves(w, rec.at, rec.left, rec.place, rec.seq, rec.ok)
  BY <1>3, <1>5, WorkerSet DEF ClientTypes
<1> QED
  BY <1>1, <1>2, <1>4, <1>5, <1>6

\* A message is done with: inserted, or given up by the benchmark.
LEMMA LessMoves ==
  ASSUME ClientTypes, NEW w \in Workers, wk[w].left > 0,
         wk' = [wk EXCEPT ![w] = [wk[w] EXCEPT !.at = "loop", !.left = wk[w].left - 1]]
  PROVE  WorkerMoves(w, "loop", wk[w].left - 1, wk[w].place, wk[w].seq, wk[w].ok)
<1>1. PICK r \in Worker : r = wk[w]
  BY DEF ClientTypes
<1>2. PICK n \in 0 .. Messages : n = r.left - 1
  <2>1. r.left \in 0 .. Messages /\ Messages \in Nat
    BY ClientsAssumption DEF Worker
  <2> QED
    BY <1>1, <2>1
<1> DEFINE half == [r EXCEPT !.at = "loop"]
           rec == [half EXCEPT !.left = n]
<1>3. wk' = [wk EXCEPT ![w] = rec]
  BY <1>1, <1>2
<1>4. /\ half \in Worker /\ half.at = "loop" /\ half.place = r.place /\ half.seq = r.seq
      /\ half.ok = r.ok
  BY SetAt DEF WorkerSteps
<1> HIDE DEF half
<1>5. /\ rec \in Worker /\ rec.at = half.at /\ rec.left = n /\ rec.place = half.place
      /\ rec.seq = half.seq /\ rec.ok = half.ok
  BY <1>4 DEF Worker
<1> HIDE DEF rec
<1>6. WorkerMoves(w, rec.at, rec.left, rec.place, rec.seq, rec.ok)
  BY <1>3, <1>5, WorkerSet DEF ClientTypes
<1> QED
  BY <1>1, <1>2, <1>4, <1>5, <1>6

\* A worker has inserted all its messages.
LEMMA LeaveMoves ==
  ASSUME ClientTypes, NEW w \in Workers, Leave(w)
  PROVE  WorkerMoves(w, "done", wk[w].left, wk[w].place, wk[w].seq, TRUE)
<1>1. PICK r \in Worker : r = wk[w]
  BY DEF ClientTypes
<1> DEFINE half == [r EXCEPT !.at = "done"]
           rec == [half EXCEPT !.ok = TRUE]
<1>2. wk' = [wk EXCEPT ![w] = rec]
  BY <1>1 DEF Leave, ClientTypes
<1>3. /\ half \in Worker /\ half.at = "done" /\ half.left = r.left /\ half.place = r.place
      /\ half.seq = r.seq
  BY SetAt DEF WorkerSteps
<1> HIDE DEF half
<1>4. /\ rec \in Worker /\ rec.at = half.at /\ rec.left = half.left /\ rec.place = half.place
      /\ rec.seq = half.seq /\ rec.ok = TRUE
  BY <1>3 DEF Worker
<1> HIDE DEF rec
<1>5. WorkerMoves(w, rec.at, rec.left, rec.place, rec.seq, rec.ok)
  BY <1>2, <1>4, WorkerSet DEF ClientTypes
<1> QED
  BY <1>1, <1>3, <1>4, <1>5

-----------------------------------------------------------------------------
(* What the log of a test holds *)

\* Nothing is reserved, filled or handed out.
Quiet ==
  /\ log' = log /\ wk' \in [Workers -> Worker]
  /\ \A u \in Workers :
       /\ wk'[u].left = wk[u].left /\ wk'[u].place = wk[u].place
       /\ wk[u].at \in {"copy", "done"} =>
            wk'[u].ok = wk[u].ok /\ wk'[u].at \in {wk[u].at, "done"}

\* No step but the first of the parent undoes what the others rely on.
Forward ==
  /\ prog' = prog /\ (clean' => clean) /\ (meta => meta')
  /\ parent' # "unlink"  /\ parent # "unlink"

\* The ranks survive a quiet step.
LEMMA QuietRanks ==
  ASSUME Quiet, NEW f, Ranks(f)
  PROVE  Ranks(f)'
<1>1. ASSUME NEW i \in 1 .. Len(log) PROVE RankOf(f, i)'
  <2>1. RankOf(f, i)
    BY DEF Ranks
  <2> QED
    BY <2>1 DEF RankOf, Quiet
<1>2. /\ Len(log') = Len(log) /\ \A i \in 1 .. Len(log) : log'[i] = log[i]
      /\ \A w \in Workers : wk'[w].left = wk[w].left
  BY DEF Quiet
<1>3. \A i, j \in 1 .. Len(log') :
        log'[i].by \in Workers /\ log'[i].by = log'[j].by /\ f[i] = f[j] => i = j
  BY <1>2 DEF Ranks
<1>4. \A w \in Workers : \A m \in 1 .. Messages : m > wk'[w].left =>
        \E i \in 1 .. Len(log') : log'[i].by = w /\ log'[i].whole /\ f[i] = m
  BY <1>2 DEF Ranks
<1> QED
  BY <1>1, <1>2, <1>3, <1>4 DEF Ranks

\* A worker that takes no part in a step keeps what is known of it.
LEMMA OtherWorker ==
  ASSUME NEW u \in Workers, WorkerInv(u), Forward, wk'[u] = wk[u], log' = log
  PROVE  WorkerInv(u)'
BY DEF WorkerInv, Forward

\* A quiet step that keeps what is known of the workers keeps the rest.
LEMMA QuietLog ==
  ASSUME TestInv, Quiet, Forward, \A u \in Workers : WorkerInv(u)',
         meta' \in BOOLEAN, seqno' \in Nat, clean' \in BOOLEAN, trimmed' \in BOOLEAN
  PROVE  TestInv'
<1>1. ClientTypes /\ LogInv
  BY DEF TestInv
<1>2. ClientTypes'
  BY <1>1 DEF ClientTypes, Quiet, Forward
<1>3. PICK f \in [1 .. Len(log) -> Int] : Ranks(f)
  BY <1>1 DEF LogInv
<1>4. Ranks(f)'
  BY <1>3, QuietRanks
<1>5. f \in [1 .. Len(log') -> Int]
  BY DEF Quiet
<1>6. ~meta' => log' = <<>>
  BY <1>1 DEF LogInv, Quiet, Forward
<1>7. prog' # "reader" /\ parent' # "unlink" => \A i \in 1 .. Len(log') : log'[i].by \in Workers
  BY <1>1 DEF LogInv, Quiet, Forward
<1> QED
  BY <1>2, <1>4, <1>5, <1>6, <1>7 DEF TestInv, LogInv, Forward

\* One worker moves on, and the step is quiet.
LEMMA OneQuiet ==
  ASSUME TestInv, Forward, NEW w \in Workers, NEW step \in WorkerSteps, NEW n \in Nat,
         NEW ok \in BOOLEAN, WorkerMoves(w, step, wk[w].left, wk[w].place, n, ok), log' = log,
         wk[w].at # "done", wk[w].at = "copy" => step = "done" /\ ok = wk[w].ok,
         WorkerInv(w)',
         meta' \in BOOLEAN, seqno' \in Nat, clean' \in BOOLEAN, trimmed' \in BOOLEAN
  PROVE  TestInv'
<1>1. Quiet
  BY DEF WorkerMoves, Quiet
<1>2. ASSUME NEW u \in Workers PROVE WorkerInv(u)'
  <2>1. CASE u = w
    BY <2>1
  <2>2. CASE u # w
    BY <2>2, OtherWorker DEF WorkerMoves, TestInv, LogInv
  <2> QED
    BY <2>1, <2>2
<1> QED
  BY <1>1, <1>2, QuietLog

\* mmlog_open leaves a log that exists as it is, and one that does not is empty.
LEMMA OpenKeepsLog ==
  ASSUME TestInv, ~Bench, OpenEffect
  PROVE  log' = log /\ meta' = TRUE /\ data' = "usable"
<1>1. UsesLog /\ (~meta => log = <<>>) /\ meta \in BOOLEAN
  BY DEF TestInv, LogInv, ClientTypes, Bench, UsesLog
<1>2. log' = log /\ data' = "usable"
  BY <1>1 DEF OpenEffect
<1>3. meta' = TRUE
  BY <1>1, Zenon DEF OpenEffect
<1> QED
  BY <1>2, <1>3

\* The quiet steps of a worker of a test.
LEMMA QuietSteps ==
  ASSUME TestInv, ~Bench, NEW w \in Workers,
         \/ Start(w) \/ (StartFails(w) /\ prog # "threads") \/ WorkerOpen(w) \/ WorkerOpenFails(w)
         \/ Number(w) \/ InsertFails(w) \/ Leave(w)
  PROVE  TestInv'
<1>1. ClientTypes /\ LogInv /\ WorkerInv(w)
  BY DEF TestInv, LogInv
<1>2. /\ wk \in [Workers -> Worker] /\ meta \in BOOLEAN /\ seqno \in Nat /\ clean \in BOOLEAN
      /\ trimmed \in BOOLEAN
  BY <1>1 DEF ClientTypes
<1>3. /\ wk[w].left \in 0 .. Messages /\ wk[w].seq \in Nat /\ wk[w].ok \in BOOLEAN
  BY <1>2 DEF Worker
<1>4. parent # "unlink"
  BY <1>1 DEF WorkerInv, Start, StartFails, WorkerOpen, WorkerOpenFails, Number, InsertFails, Leave
<1>5. CASE Start(w)
  <2>1. WorkerMoves(w, "open", wk[w].left, wk[w].place, wk[w].seq, wk[w].ok)
    BY <1>2, <1>5, AtMoves DEF Start, WorkerSteps
  <2>2. /\ wk[w].at = "unborn" /\ log' = log /\ UNCHANGED <<meta, seqno, clean, trimmed, prog, parent>>
    BY <1>5 DEF Start, disk
  <2>3. Forward
    BY <1>4, <2>2 DEF Forward
  <2>4. WorkerInv(w)'
    BY <1>1, <1>4, <2>1, <2>2 DEF WorkerInv, WorkerMoves
  <2> QED
    BY <1>2, <1>3, <2>1, <2>2, <2>3, <2>4, OneQuiet DEF WorkerSteps
<1>6. CASE StartFails(w) /\ prog # "threads"
  <2>1. WorkerMoves(w, "done", wk[w].left, wk[w].place, wk[w].seq, wk[w].ok)
    BY <1>2, <1>6, AtMoves DEF StartFails, WorkerSteps
  <2>2. /\ wk[w].at = "unborn" /\ log' = log /\ clean' = FALSE /\ parent' # "unlink"
        /\ UNCHANGED <<meta, seqno, trimmed, prog>>
    BY <1>4, <1>6 DEF StartFails, disk
  <2>3. Forward
    BY <1>4, <2>2 DEF Forward
  <2>4. WorkerInv(w)'
    BY <1>1, <2>1, <2>2 DEF WorkerInv, WorkerMoves
  <2> QED
    BY <1>2, <1>3, <2>1, <2>2, <2>3, <2>4, OneQuiet DEF WorkerSteps
<1>7. CASE WorkerOpen(w)
  <2>1. WorkerMoves(w, "loop", wk[w].left, wk[w].place, wk[w].seq, wk[w].ok)
    BY <1>2, <1>7, AtMoves DEF WorkerOpen, WorkerSteps
  <2>2. /\ wk[w].at = "open" /\ log' = log /\ meta' = TRUE
        /\ UNCHANGED <<seqno, clean, trimmed, prog, parent>>
    BY <1>7, OpenKeepsLog DEF WorkerOpen
  <2>3. Forward
    BY <1>4, <2>2 DEF Forward
  <2>4. WorkerInv(w)'
    BY <1>1, <1>4, <2>1, <2>2 DEF WorkerInv, WorkerMoves
  <2> QED
    BY <1>2, <1>3, <2>1, <2>2, <2>3, <2>4, OneQuiet DEF WorkerSteps
<1>8. CASE WorkerOpenFails(w)
  <2>1. WorkerMoves(w, "done", wk[w].left, wk[w].place, wk[w].seq, wk[w].ok)
    BY <1>2, <1>8, AtMoves DEF WorkerOpenFails, WorkerSteps
  <2>2. /\ wk[w].at = "open" /\ log' = log /\ clean' = FALSE
        /\ UNCHANGED <<meta, seqno, trimmed, prog, parent>>
    BY <1>8 DEF WorkerOpenFails, disk
  <2>3. Forward
    BY <1>4, <2>2 DEF Forward
  <2>4. WorkerInv(w)'
    BY <1>1, <1>4, <2>1, <2>2 DEF WorkerInv, WorkerMoves
  <2> QED
    BY <1>2, <1>3, <2>1, <2>2, <2>3, <2>4, OneQuiet DEF WorkerSteps
<1>9. CASE Number(w)
  <2>1. WorkerMoves(w, "insert", wk[w].left, wk[w].place, seqno, wk[w].ok)
    BY <1>1, <1>9, NumberMoves
  <2>2. /\ wk[w].at = "loop" /\ wk[w].left > 0 /\ log' = log /\ seqno' \in Nat
        /\ UNCHANGED <<meta, clean, trimmed, prog, parent>>
    BY <1>2, <1>9 DEF Number, disk
  <2>3. Forward
    BY <1>4, <2>2 DEF Forward
  <2>4. WorkerInv(w)'
    BY <1>1, <1>4, <2>1, <2>2 DEF WorkerInv, WorkerMoves
  <2> QED
    BY <1>2, <1>3, <2>1, <2>2, <2>3, <2>4, OneQuiet DEF WorkerSteps
<1>10. CASE InsertFails(w)
  <2>1. WorkerMoves(w, "done", wk[w].left, wk[w].place, wk[w].seq, wk[w].ok)
    <3>1. wk' = [wk EXCEPT ![w].at = "done"]
      BY <1>2, <1>10 DEF InsertFails
    <3> QED
      BY <1>2, <3>1, AtMoves DEF WorkerSteps
  <2>2. /\ wk[w].at \in {"insert", "copy"} /\ log' = log /\ clean' = FALSE
        /\ UNCHANGED <<meta, seqno, trimmed, prog, parent>>
    BY <1>10 DEF InsertFails, disk
  <2>3. Forward
    BY <1>4, <2>2 DEF Forward
  <2>4. WorkerInv(w)'
    BY <1>1, <1>4, <2>1, <2>2 DEF WorkerInv, WorkerMoves
  <2> QED
    BY <1>2, <1>3, <2>1, <2>2, <2>3, <2>4, OneQuiet DEF WorkerSteps
<1>11. CASE Leave(w)
  <2>1. WorkerMoves(w, "done", wk[w].left, wk[w].place, wk[w].seq, TRUE)
    BY <1>1, <1>11, LeaveMoves
  <2>2. /\ wk[w].at = "loop" /\ wk[w].left = 0 /\ log' = log
        /\ UNCHANGED <<meta, seqno, clean, trimmed, prog, parent>>
    BY <1>11 DEF Leave, disk
  <2>3. Forward
    BY <1>4, <2>2 DEF Forward
  <2>4. WorkerInv(w)'
    BY <1>1, <1>4, <2>1, <2>2 DEF WorkerInv, WorkerMoves
  <2> QED
    BY <1>2, <1>3, <2>1, <2>2, <2>3, <2>4, OneQuiet DEF WorkerSteps
<1> QED
  BY <1>5, <1>6, <1>7, <1>8, <1>9, <1>10, <1>11

\* eg/threads exits when a thread cannot be made, and takes the others with it.
LEMMA AllEnd ==
  ASSUME TestInv, NEW w \in Workers, StartFails(w), prog = "threads"
  PROVE  TestInv'
<1>1. ClientTypes /\ LogInv /\ \A u \in Workers : WorkerInv(u)
  BY DEF TestInv, LogInv
<1>2. /\ wk \in [Workers -> Worker] /\ meta \in BOOLEAN /\ seqno \in Nat /\ trimmed \in BOOLEAN
  BY <1>1 DEF ClientTypes
<1>3. /\ wk' = [u \in Workers |-> [wk[u] EXCEPT !.at = "done"]]
      /\ parent = "start" /\ parent' = "exited" /\ clean' = FALSE /\ log' = log
      /\ UNCHANGED <<meta, seqno, trimmed, prog>>
  BY DEF StartFails, disk, Bench
<1>4. ASSUME NEW u \in Workers
      PROVE  /\ wk'[u] \in Worker
             /\ wk'[u].at = "done" /\ wk'[u].left = wk[u].left /\ wk'[u].place = wk[u].place
             /\ wk'[u].ok = wk[u].ok
  <2>1. wk[u] \in Worker /\ wk'[u] = [wk[u] EXCEPT !.at = "done"]
    BY <1>2, <1>3
  <2>2. PICK r \in Worker : r = wk[u]
    BY <2>1
  <2> DEFINE e == [r EXCEPT !.at = "done"]
  <2>3. e \in Worker /\ e.at = "done" /\ e.left = r.left /\ e.place = r.place /\ e.ok = r.ok
    BY SetAt DEF WorkerSteps
  <2>4. wk'[u] = e
    BY <2>1, <2>2
  <2> HIDE DEF e
  <2> QED
    BY <2>2, <2>3, <2>4
<1>5. wk' \in [Workers -> Worker]
  <2>1. wk' = [u \in Workers |-> wk'[u]]
    BY <1>3
  <2> QED
    BY <1>4, <2>1
<1>6. Quiet
  BY <1>3, <1>4, <1>5 DEF Quiet
<1>7. Forward
  BY <1>3 DEF Forward
<1>8. ASSUME NEW u \in Workers PROVE WorkerInv(u)'
  BY <1>1, <1>3, <1>4 DEF WorkerInv
<1> QED
  BY <1>2, <1>3, <1>6, <1>7, <1>8, QuietLog

\* The log has its lines.
LEMMA LogLines ==
  ASSUME ClientTypes
  PROVE  /\ Len(log) \in Nat /\ DOMAIN log = 1 .. Len(log)
         /\ \A i \in 1 .. Len(log) : log[i] \in Line
BY LenProperties, ElementOfSeq DEF ClientTypes

\* A reservation puts a hole behind the others, the next message of its worker.
LEMMA ReserveSteps ==
  ASSUME TestInv, ~Bench, NEW w \in Workers, Reserve(w)
  PROVE  TestInv'
<1>1. ClientTypes /\ LogInv /\ \A u \in Workers : WorkerInv(u)
  BY DEF TestInv, LogInv
<1>2. /\ wk \in [Workers -> Worker] /\ meta \in BOOLEAN /\ seqno \in Nat /\ clean \in BOOLEAN
      /\ trimmed \in BOOLEAN /\ log \in Seq(Line)
  BY <1>1 DEF ClientTypes
<1>3. /\ wk[w].left \in 0 .. Messages /\ wk[w].seq \in Nat /\ wk[w].ok \in BOOLEAN
  BY <1>2 DEF Worker
<1>4. /\ wk[w].at = "insert" /\ UNCHANGED <<meta, seqno, clean, trimmed, prog, parent>>
  BY DEF Reserve, disk
<1>5. WorkerMoves(w, "copy", wk[w].left, Len(log) + 1, wk[w].seq, wk[w].ok)
  BY <1>1, ReserveMoves
<1>6. PICK n \in Nat : n = Len(log)
  BY <1>1, LogLines
<1> DEFINE new == [by |-> w, seq |-> wk[w].seq, whole |-> FALSE]
<1>7. new \in Line /\ new.by = w /\ new.whole = FALSE /\ new.seq = wk[w].seq
  BY <1>3 DEF Line
<1>8. log' = Append(log, new)
  BY DEF Reserve
<1> HIDE DEF new
<1>9. /\ log' \in Seq(Line) /\ Len(log') = n + 1 /\ log'[n + 1] = new
      /\ \A i \in 1 .. n : log'[i] = log[i]
  BY <1>2, <1>6, <1>7, <1>8, AppendProperties
<1>10. wk[w].left \in 1 .. Messages /\ ~wk[w].ok /\ meta /\ parent # "unlink"
  BY <1>1, <1>3, <1>4 DEF WorkerInv
<1>11. \A u \in Workers : WorkerInv(u)'
  <2>1. WorkerInv(w)'
    BY <1>1, <1>4, <1>5, <1>6, <1>7, <1>9, <1>10 DEF WorkerInv, WorkerMoves
  <2>2. ASSUME NEW u \in Workers, u # w PROVE WorkerInv(u)'
    <3>1. wk'[u] = wk[u] /\ WorkerInv(u)
      BY <1>1, <1>5, <2>2 DEF WorkerMoves
    <3>2. wk[u].at = "copy" => /\ wk[u].place \in 1 .. n
                               /\ log[wk[u].place].by = u /\ ~log[wk[u].place].whole
      BY <1>6, <3>1 DEF WorkerInv
    <3>3. wk[u].at = "copy" => /\ wk[u].place \in 1 .. n + 1
                               /\ log'[wk[u].place].by = u /\ ~log'[wk[u].place].whole
      BY <1>9, <3>2
    <3> QED
      BY <1>4, <1>9, <3>1, <3>3 DEF WorkerInv
  <2> QED
    BY <2>1, <2>2
<1>12. PICK f \in [1 .. n -> Int] : Ranks(f)
  BY <1>1, <1>6 DEF LogInv
<1> DEFINE g == [i \in 1 .. n + 1 |-> IF i = n + 1 THEN wk[w].left ELSE f[i]]
<1>13. PICK h \in [1 .. n + 1 -> Int] : h[n + 1] = wk[w].left /\ \A i \in 1 .. n : h[i] = f[i]
  <2>1. g \in [1 .. n + 1 -> Int]
    BY <1>3
  <2>2. g[n + 1] = wk[w].left /\ \A i \in 1 .. n : g[i] = f[i]
    OBVIOUS
  <2> QED
    BY <2>1, <2>2
<1>14. \A u \in Workers : wk'[u].left = wk[u].left
  BY <1>5 DEF WorkerMoves
<1>15. ASSUME NEW i \in 1 .. n PROVE RankOf(h, i)' /\ (log[i].by = w => log[i].whole)
  <2>1. RankOf(f, i) /\ log'[i] = log[i] /\ h[i] = f[i]
    BY <1>6, <1>9, <1>12, <1>13 DEF Ranks
  <2>2. log[i].by = w => log[i].whole
    BY <1>4, <2>1 DEF RankOf
  <2>3. log[i].by \in Workers \ {w} => wk'[log[i].by] = wk[log[i].by]
    BY <1>5 DEF WorkerMoves
  <2> QED
    BY <1>14, <2>1, <2>2, <2>3 DEF RankOf
<1>16. RankOf(h, n + 1)'
  BY <1>5, <1>6, <1>7, <1>9, <1>10, <1>13 DEF RankOf, WorkerMoves
<1>17. \A i, j \in 1 .. n + 1 :
         log'[i].by \in Workers /\ log'[i].by = log'[j].by /\ h[i] = h[j] => i = j
  <2>1. \A i, j \in 1 .. n :
          log'[i].by \in Workers /\ log'[i].by = log'[j].by /\ h[i] = h[j] => i = j
    BY <1>6, <1>9, <1>12, <1>13 DEF Ranks
  <2>2. ASSUME NEW i \in 1 .. n, log'[i].by = w PROVE h[i] # h[n + 1]
    <3>1. RankOf(f, i) /\ log[i].by = w /\ log[i].whole
      BY <1>6, <1>9, <1>12, <1>15, <2>2 DEF Ranks
    <3>2. f[i] > wk[w].left /\ f[i] \in Int
      BY <3>1 DEF RankOf
    <3> QED
      BY <1>3, <1>13, <3>2
  <2>3. log'[n + 1].by = w
    BY <1>7, <1>9
  <2> SUFFICES ASSUME NEW i \in 1 .. n + 1, NEW j \in 1 .. n + 1, log'[i].by \in Workers,
                      log'[i].by = log'[j].by, h[i] = h[j]
               PROVE  i = j
    OBVIOUS
  <2>4. CASE i \in 1 .. n /\ j \in 1 .. n
    BY <2>1, <2>4
  <2>5. CASE i = n + 1 /\ j \in 1 .. n
    BY <2>2, <2>3, <2>5
  <2>6. CASE i \in 1 .. n /\ j = n + 1
    BY <2>2, <2>3, <2>6
  <2>7. CASE i = n + 1 /\ j = n + 1
    BY <2>7
  <2> QED
    BY <2>4, <2>5, <2>6, <2>7
<1>18. \A u \in Workers : \A m \in 1 .. Messages : m > wk'[u].left =>
         \E i \in 1 .. n + 1 : log'[i].by = u /\ log'[i].whole /\ h[i] = m
  BY <1>6, <1>9, <1>12, <1>13, <1>14 DEF Ranks
<1>19. Ranks(h)'
  <2>1. \A i \in 1 .. n + 1 : RankOf(h, i)'
    BY <1>15, <1>16
  <2> QED
    BY <1>9, <1>17, <1>18, <2>1 DEF Ranks
<1>20. prog' # "reader" /\ parent' # "unlink" => \A i \in 1 .. n + 1 : log'[i].by \in Workers
  BY <1>1, <1>4, <1>6, <1>7, <1>9 DEF LogInv
<1>21. ClientTypes'
  BY <1>1, <1>2, <1>4, <1>5, <1>9 DEF ClientTypes, WorkerMoves
<1>22. \E r \in [1 .. Len(log') -> Int] : Ranks(r)'
  BY <1>9, <1>19
<1> QED
  BY <1>4, <1>9, <1>10, <1>11, <1>20, <1>21, <1>22 DEF TestInv, LogInv

\* An insert fills the hole of its worker.
LEMMA InsertedSteps ==
  ASSUME TestInv, ~Bench, NEW w \in Workers, Inserted(w)
  PROVE  TestInv'
<1>1. ClientTypes /\ LogInv /\ \A u \in Workers : WorkerInv(u)
  BY DEF TestInv, LogInv
<1>2. /\ wk \in [Workers -> Worker] /\ meta \in BOOLEAN /\ seqno \in Nat /\ clean \in BOOLEAN
      /\ trimmed \in BOOLEAN /\ log \in Seq(Line)
  BY <1>1 DEF ClientTypes
<1>3. /\ wk[w].left \in 0 .. Messages /\ wk[w].place \in Nat /\ wk[w].seq \in Nat
      /\ wk[w].ok \in BOOLEAN
  BY <1>2 DEF Worker
<1>4. /\ wk[w].at = "copy" /\ UNCHANGED <<meta, seqno, clean, trimmed, prog, parent>>
  BY DEF Inserted, disk
<1>5. PICK left \in Nat : left = wk[w].left /\ left > 0 /\ left <= Messages
  <2>1. wk[w].left > 0 /\ Messages \in Nat
    BY <1>1, <1>4, ClientsAssumption DEF WorkerInv
  <2> QED
    BY <1>3, <2>1
<1>6. WorkerMoves(w, "loop", left - 1, wk[w].place, wk[w].seq, wk[w].ok)
  <2>1. wk' = [wk EXCEPT ![w] = [wk[w] EXCEPT !.at = "loop", !.left = wk[w].left - 1]]
    BY <1>2 DEF Inserted
  <2> QED
    BY <1>1, <1>5, <2>1, LessMoves
<1>7. PICK n \in Nat : n = Len(log)
  BY <1>1, LogLines
<1>8. PICK k \in 1 .. n : k = wk[w].place
  BY <1>1, <1>4, <1>7 DEF WorkerInv
<1>9. log[k] \in Line /\ log[k].by = w /\ ~log[k].whole
  BY <1>1, <1>4, <1>7, <1>8, LogLines DEF WorkerInv
<1> DEFINE e == [log[k] EXCEPT !.whole = TRUE]
<1>10. e \in Line /\ e.by = w /\ e.seq = log[k].seq /\ e.whole = TRUE
  BY <1>9 DEF Line
<1>11. log' = [log EXCEPT ![k] = e]
  BY <1>2, <1>8 DEF Inserted
<1> HIDE DEF e
<1>12. /\ log' \in Seq(Line) /\ Len(log') = n /\ log'[k] = e
       /\ \A i \in 1 .. n : i # k => log'[i] = log[i]
  BY <1>2, <1>7, <1>10, <1>11, ExceptSeq
<1>13. \A i \in 1 .. n : log'[i].by = log[i].by /\ (log[i].whole => log'[i].whole)
  BY <1>9, <1>10, <1>12
<1>14. meta /\ parent # "unlink" /\ ~wk[w].ok
  BY <1>1, <1>4 DEF WorkerInv
<1>15. \A u \in Workers : WorkerInv(u)'
  <2>1. WorkerInv(w)'
    BY <1>1, <1>4, <1>6, <1>14 DEF WorkerInv, WorkerMoves
  <2>2. ASSUME NEW u \in Workers, u # w PROVE WorkerInv(u)'
    <3>1. wk'[u] = wk[u] /\ WorkerInv(u)
      BY <1>1, <1>6, <2>2 DEF WorkerMoves
    <3>2. wk[u].at = "copy" => /\ wk[u].place \in 1 .. n
                               /\ log[wk[u].place].by = u /\ ~log[wk[u].place].whole
      BY <1>7, <3>1 DEF WorkerInv
    <3>3. wk[u].at = "copy" => /\ wk[u].place \in 1 .. n
                               /\ log'[wk[u].place].by = u /\ ~log'[wk[u].place].whole
      BY <1>9, <1>12, <2>2, <3>2
    <3> QED
      BY <1>4, <1>12, <3>1, <3>3 DEF WorkerInv
  <2> QED
    BY <2>1, <2>2
<1>16. PICK f \in [1 .. n -> Int] : Ranks(f)
  BY <1>1, <1>7 DEF LogInv
<1>17. f[k] = left
  <2>1. RankOf(f, k)
    BY <1>7, <1>16 DEF Ranks
  <2> QED
    BY <1>5, <1>9, <2>1 DEF RankOf
<1>18. wk'[w].left = left - 1 /\ \A u \in Workers \ {w} : wk'[u] = wk[u]
  BY <1>6 DEF WorkerMoves
<1>19. ASSUME NEW i \in 1 .. n PROVE RankOf(f, i)'
  <2>1. RankOf(f, i) /\ f[i] \in Int
    BY <1>7, <1>16 DEF Ranks
  <2>2. CASE i = k
    BY <1>5, <1>10, <1>12, <1>17, <1>18, <2>2 DEF RankOf
  <2>3. CASE i # k /\ log[i].by = w
    <3>1. log[i].whole /\ f[i] > left /\ f[i] \in 1 .. Messages
      BY <1>4, <1>5, <1>8, <2>1, <2>3 DEF RankOf
    <3> QED
      BY <1>5, <1>12, <1>18, <2>1, <2>3, <3>1 DEF RankOf
  <2>4. CASE i # k /\ log[i].by # w
    <3>1. log'[i] = log[i] /\ (log[i].by \in Workers => wk'[log[i].by] = wk[log[i].by])
      BY <1>12, <1>18, <2>4
    <3> QED
      BY <2>1, <3>1 DEF RankOf
  <2> QED
    BY <2>2, <2>3, <2>4
<1>20. \A i, j \in 1 .. n :
         log'[i].by \in Workers /\ log'[i].by = log'[j].by /\ f[i] = f[j] => i = j
  BY <1>7, <1>13, <1>16 DEF Ranks
<1>21. ASSUME NEW u \in Workers, NEW m \in 1 .. Messages, m > wk'[u].left
       PROVE  \E i \in 1 .. n : log'[i].by = u /\ log'[i].whole /\ f[i] = m
  <2>1. CASE u = w /\ m = left
    BY <1>10, <1>12, <1>17, <2>1
  <2>2. CASE ~(u = w /\ m = left)
    <3>1. m > wk[u].left
      BY <1>5, <1>18, <1>21, <2>2
    <3>2. PICK i \in 1 .. n : log[i].by = u /\ log[i].whole /\ f[i] = m
      BY <1>7, <1>16, <3>1 DEF Ranks
    <3> QED
      BY <1>13, <3>2
  <2> QED
    BY <2>1, <2>2
<1>22. Ranks(f)'
  BY <1>12, <1>19, <1>20, <1>21 DEF Ranks
<1>23. prog' # "reader" /\ parent' # "unlink" => \A i \in 1 .. n : log'[i].by \in Workers
  BY <1>1, <1>4, <1>7, <1>13 DEF LogInv
<1>24. ClientTypes'
  BY <1>1, <1>2, <1>4, <1>6, <1>12 DEF ClientTypes, WorkerMoves
<1>25. \E r \in [1 .. Len(log') -> Int] : Ranks(r)'
  BY <1>12, <1>22
<1> QED
  BY <1>4, <1>12, <1>14, <1>15, <1>23, <1>24, <1>25 DEF TestInv, LogInv

\* The tests remove the data file before the workers start.
LEMMA UnlinkSteps ==
  ASSUME TestInv, ~Bench, Unlink
  PROVE  TestInv'
<1>1. ClientTypes /\ LogInv /\ \A u \in Workers : WorkerInv(u)
  BY DEF TestInv, LogInv
<1>2. /\ parent = "unlink" /\ parent' = "start" /\ UNCHANGED <<prog, seqno, wk, trimmed, clean>>
      /\ meta \in BOOLEAN
  BY <1>1 DEF Unlink, ClientTypes
<1>3. meta' = meta
  <2>1. CASE prog = "reader"
    BY <2>1 DEF Unlink, disk
  <2>2. CASE prog # "reader"
    BY <1>2, <2>2, Zenon DEF Unlink
  <2> QED
    BY <2>1, <2>2
<1>4. \A u \in Workers : wk[u].at = "unborn" /\ wk[u].left = Messages /\ ~wk[u].ok
  BY <1>1, <1>2 DEF WorkerInv
<1>5. \A u \in Workers : WorkerInv(u)'
  BY <1>1, <1>2, <1>3, <1>4 DEF WorkerInv
<1>6. CASE prog = "reader"
  <2>1. log' = log
    BY <1>6 DEF Unlink
  <2>2. PICK f \in [1 .. Len(log) -> Int] : Ranks(f)
    BY <1>1 DEF LogInv
  <2>3. Quiet
    BY <1>1, <1>2, <2>1 DEF Quiet, ClientTypes
  <2>4. Ranks(f)'
    BY <2>2, <2>3, QuietRanks
  <2>5. ClientTypes'
    BY <1>1, <1>2, <1>3, <2>1 DEF ClientTypes
  <2>6. \E r \in [1 .. Len(log') -> Int] : Ranks(r)'
    BY <2>1, <2>2, <2>4
  <2>7. ~meta' => log' = <<>>
    BY <1>1, <1>3, <2>1 DEF LogInv
  <2> QED
    BY <1>2, <1>5, <1>6, <2>5, <2>6, <2>7 DEF TestInv, LogInv
<1>7. CASE prog # "reader"
  <2>1. log' = <<>> /\ Len(log') = 0 /\ log' \in Seq(Line)
    BY <1>7, EmptySeq DEF Unlink
  <2>2. ClientTypes'
    BY <1>1, <1>2, <1>3, <2>1 DEF ClientTypes
  <2>3. PICK f \in [1 .. 0 -> Int] : TRUE
    <3>1. [i \in 1 .. 0 |-> 0] \in [1 .. 0 -> Int]
      OBVIOUS
    <3> QED
      BY <3>1
  <2>4. ASSUME NEW w \in Workers, NEW m \in 1 .. Messages PROVE ~(m > wk'[w].left)
    <3>1. wk'[w].left = Messages /\ Messages \in Nat
      BY <1>2, <1>4, ClientsAssumption
    <3> QED
      BY <3>1
  <2>5. Ranks(f)'
    BY <2>1, <2>4 DEF Ranks
  <2>6. \E r \in [1 .. Len(log') -> Int] : Ranks(r)'
    BY <2>1, <2>3, <2>5
  <2>7. \A i \in 1 .. Len(log') : log'[i].by \in Workers
    BY <2>1
  <2> QED
    BY <1>2, <1>5, <2>1, <2>2, <2>6, <2>7 DEF TestInv, LogInv
<1> QED
  BY <1>6, <1>7

\* The parent leaves log and workers alone; mmlog_open finds them as they are.
LEMMA ParentSteps ==
  ASSUME TestInv, ~Bench, Join \/ ParentOpen \/ ParentOpenFails \/ Trim \/ Validate \/ ValidateFails
  PROVE  TestInv'
<1>1. ClientTypes /\ LogInv /\ \A u \in Workers : WorkerInv(u)
  BY DEF TestInv, LogInv
<1>2. /\ wk \in [Workers -> Worker] /\ meta \in BOOLEAN /\ seqno \in Nat /\ clean \in BOOLEAN
      /\ trimmed \in BOOLEAN
  BY <1>1 DEF ClientTypes
<1>3. /\ parent # "unlink" /\ parent' # "unlink"
      /\ UNCHANGED <<prog, seqno, wk>>
  BY DEF Join, ParentOpen, ParentOpenFails, Trim, Validate, ValidateFails, Bench
<1>4. log' = log /\ meta' \in BOOLEAN /\ (meta => meta')
  <2>1. CASE ParentOpen
    BY <2>1, OpenKeepsLog DEF ParentOpen
  <2>2. CASE ~ParentOpen
    <3>1. UNCHANGED <<log, meta>>
      BY <2>2 DEF Join, ParentOpenFails, Trim, Validate, ValidateFails, disk
    <3> QED
      BY <1>2, <3>1
  <2> QED
    BY <2>1, <2>2
<1>5. (clean' => clean) /\ clean' \in BOOLEAN /\ trimmed' \in BOOLEAN
  <2>1. CASE Trim
    BY <1>2, <2>1, Zenon DEF Trim
  <2>2. CASE ~Trim
    <3>1. trimmed' = trimmed /\ (clean' = clean \/ clean' = FALSE)
      BY <2>2 DEF Join, ParentOpen, ParentOpenFails, Validate, ValidateFails
    <3>2. CASE clean' = clean
      BY <1>2, <3>1, <3>2
    <3>3. CASE clean' = FALSE
      BY <1>2, <3>1, <3>3
    <3> QED
      BY <3>1, <3>2, <3>3
  <2> QED
    BY <2>1, <2>2
<1>6. Forward
  BY <1>3, <1>4, <1>5 DEF Forward
<1>7. Quiet
  BY <1>2, <1>3, <1>4 DEF Quiet
<1>8. \A u \in Workers : WorkerInv(u)'
  BY <1>1, <1>3, <1>4, <1>6, OtherWorker
<1> QED
  BY <1>2, <1>3, <1>4, <1>5, <1>6, <1>7, <1>8, QuietLog

\* What the log of a test holds is kept by every step.
LEMMA TestSteps ==
  ASSUME TestInv, ~Bench, [ClientsNext]_lvars
  PROVE  TestInv'
<1>1. CASE UNCHANGED lvars
  <2>1. UNCHANGED <<prog, meta, log, seqno, parent, wk, trimmed, clean>>
    BY <1>1 DEF lvars, disk
  <2> QED
    BY <2>1 DEF TestInv, ClientTypes, LogInv, WorkerInv, Ranks, RankOf
<1>2. ASSUME NEW w \in Active, WorkerStep(w) PROVE TestInv'
  BY <1>2, ActiveWorkers, QuietSteps, AllEnd, ReserveSteps, InsertedSteps DEF WorkerStep
<1> QED
  BY <1>1, <1>2, UnlinkSteps, ParentSteps DEF ClientsNext

\* It holds of what an earlier run has left.
LEMMA TestStarts == ClientsInit => TestInv
<1> SUFFICES ASSUME ClientsInit PROVE TestInv
  OBVIOUS
<1>1. /\ prog \in Programs /\ meta \in BOOLEAN /\ seqno = 0 /\ parent = "unlink"
      /\ trimmed = FALSE /\ clean = TRUE /\ Messages \in Nat
  BY ClientsAssumption DEF ClientsInit
<1>2. \A w \in Workers : /\ wk[w].at = "unborn" /\ wk[w].left = Messages /\ wk[w].ok = FALSE
  BY DEF ClientsInit
<1>3. wk \in [Workers -> Worker]
  BY <1>1 DEF ClientsInit, Worker, WorkerSteps
<1>4. Old \in Line /\ Old.by \notin Workers
  BY ClientsAssumption DEF Old, Line
<1>5. (meta /\ log = <<Old>>) \/ log = <<>>
  BY DEF ClientsInit
<1>6. log \in Seq(Line) /\ Len(log) \in Nat /\ \A i \in 1 .. Len(log) : log[i].by \notin Workers
  <2>1. CASE log = <<>>
    BY <2>1, EmptySeq
  <2>2. CASE log = <<Old>>
    BY <1>4, <2>2
  <2> QED
    BY <1>5, <2>1, <2>2
<1>7. PICK f : f = [i \in 1 .. Len(log) |-> 0]
  OBVIOUS
<1>8. Ranks(f)
  <2>1. \A i \in 1 .. Len(log) : RankOf(f, i)
    BY <1>6 DEF RankOf
  <2>2. ASSUME NEW w \in Workers, NEW m \in 1 .. Messages PROVE ~(m > wk[w].left)
    BY <1>1, <1>2
  <2> QED
    BY <1>6, <2>1, <2>2 DEF Ranks
<1>9. f \in [1 .. Len(log) -> Int]
  BY <1>7
<1>10. ClientTypes
  BY <1>1, <1>3, <1>6 DEF ClientTypes
<1>11. \A w \in Workers : WorkerInv(w)
  BY <1>1, <1>2 DEF WorkerInv
<1> QED
  BY <1>1, <1>5, <1>8, <1>9, <1>10, <1>11 DEF TestInv, LogInv

-----------------------------------------------------------------------------
(* The numbers of eg/threads *)

\* Numbers are neither given out nor used, and none gets lost but by a failure.
LEMMA NumbersKeep ==
  ASSUME NumberInv, seqno' = seqno, Len(log') = Len(log),
         \A i \in 1 .. Len(log) : log'[i].seq = log[i].seq,
         \A u \in Workers : wk'[u].at = "insert" => wk[u].at = "insert" /\ wk'[u].seq = wk[u].seq,
         clean' => clean /\ \A u \in Workers : wk[u].at = "insert" =>
                              wk'[u].at = "insert" /\ wk'[u].seq = wk[u].seq
  PROVE  NumberInv'
<1>1. /\ \A i \in 1 .. Len(log') : log'[i].seq < seqno'
      /\ \A w \in Workers : wk'[w].at = "insert" => wk'[w].seq < seqno'
      /\ \A i, j \in 1 .. Len(log') : log'[i].seq = log'[j].seq => i = j
  BY DEF NumberInv
<1>2. \A w \in Workers, i \in 1 .. Len(log') : wk'[w].at = "insert" => wk'[w].seq # log'[i].seq
  BY DEF NumberInv
<1>3. \A v, w \in Workers :
        wk'[v].at = "insert" /\ wk'[w].at = "insert" /\ wk'[v].seq = wk'[w].seq => v = w
  BY DEF NumberInv
<1>4. ASSUME clean', NEW n \in 0 .. seqno' - 1
      PROVE  \/ \E i \in 1 .. Len(log') : log'[i].seq = n
             \/ \E w \in Workers : wk'[w].at = "insert" /\ wk'[w].seq = n
  BY <1>4 DEF NumberInv
<1> QED
  BY <1>1, <1>2, <1>3, <1>4 DEF NumberInv

\* fetch_add gives out the next number.
LEMMA NumberNumbers ==
  ASSUME TestInv, NumberInv, prog = "threads", NEW w \in Workers, Number(w)
  PROVE  NumberInv'
<1>1. ClientTypes /\ seqno \in Nat
  BY DEF TestInv, ClientTypes
<1>2. /\ wk[w].at = "loop" /\ log' = log /\ clean' = clean /\ seqno' = seqno + 1
  BY DEF Number
<1>3. /\ wk'[w].at = "insert" /\ wk'[w].seq = seqno /\ \A u \in Workers \ {w} : wk'[u] = wk[u]
  BY <1>1, NumberMoves DEF WorkerMoves
<1>4. \A i \in 1 .. Len(log) : log[i].seq \in Nat /\ log[i].seq < seqno
  BY <1>1, LogLines DEF NumberInv, Line
<1>5. \A u \in Workers : wk[u].at = "insert" => wk[u].seq \in Nat /\ wk[u].seq < seqno
  BY <1>1 DEF NumberInv, ClientTypes, Worker
<1>6. \A u \in Workers \ {w} : wk'[u].at = "insert" =>
        wk'[u].seq \in Nat /\ wk'[u].seq < seqno /\ wk[u].at = "insert" /\ wk'[u].seq = wk[u].seq
  BY <1>3, <1>5
<1>7. /\ \A i \in 1 .. Len(log') : log'[i].seq < seqno'
      /\ \A u \in Workers : wk'[u].at = "insert" => wk'[u].seq < seqno'
  BY <1>1, <1>2, <1>3, <1>4, <1>6
<1>8. \A i, j \in 1 .. Len(log') : log'[i].seq = log'[j].seq => i = j
  BY <1>2 DEF NumberInv
<1>9. ASSUME NEW u \in Workers, NEW i \in 1 .. Len(log'), wk'[u].at = "insert"
      PROVE  wk'[u].seq # log'[i].seq
  <2>1. CASE u = w
    BY <1>1, <1>2, <1>3, <1>4, <2>1
  <2>2. CASE u # w
    BY <1>2, <1>6, <1>9, <2>2 DEF NumberInv
  <2> QED
    BY <2>1, <2>2
<1>10. ASSUME NEW v \in Workers, NEW u \in Workers, wk'[v].at = "insert", wk'[u].at = "insert",
              wk'[v].seq = wk'[u].seq
       PROVE  v = u
  <2>1. CASE v # w /\ u # w
    BY <1>6, <1>10, <2>1 DEF NumberInv
  <2>2. CASE (v = w /\ u # w) \/ (v # w /\ u = w)
    BY <1>1, <1>3, <1>6, <1>10, <2>2
  <2> QED
    BY <2>1, <2>2
<1>11. ASSUME clean', NEW n \in 0 .. seqno' - 1
       PROVE  \/ \E i \in 1 .. Len(log') : log'[i].seq = n
              \/ \E u \in Workers : wk'[u].at = "insert" /\ wk'[u].seq = n
  <2>1. CASE n = seqno
    BY <1>3, <2>1
  <2>2. CASE n # seqno
    <3>1. n \in 0 .. seqno - 1
      BY <1>1, <1>2, <2>2
    <3>2. \/ \E i \in 1 .. Len(log) : log[i].seq = n
          \/ \E u \in Workers : wk[u].at = "insert" /\ wk[u].seq = n
      BY <1>2, <1>11, <3>1 DEF NumberInv
    <3> QED
      BY <1>2, <1>3, <3>2
  <2> QED
    BY <2>1, <2>2
<1> QED
  BY <1>7, <1>8, <1>9, <1>10, <1>11 DEF NumberInv

\* A reservation takes the number of its worker into the log.
LEMMA ReserveNumbers ==
  ASSUME TestInv, NumberInv, NEW w \in Workers, Reserve(w)
  PROVE  NumberInv'
<1>1. ClientTypes /\ log \in Seq(Line) /\ wk[w].seq \in Nat
  BY DEF TestInv, ClientTypes, Worker
<1>2. /\ wk[w].at = "insert" /\ UNCHANGED <<seqno, clean>>
  BY DEF Reserve
<1>3. wk'[w].at = "copy" /\ \A u \in Workers \ {w} : wk'[u] = wk[u]
  BY <1>1, ReserveMoves DEF WorkerMoves
<1>4. PICK n \in Nat : n = Len(log)
  BY <1>1, LogLines
<1> DEFINE new == [by |-> w, seq |-> wk[w].seq, whole |-> FALSE]
<1>5. new \in Line /\ new.seq = wk[w].seq
  BY <1>1 DEF Line
<1>6. log' = Append(log, new)
  BY DEF Reserve
<1> HIDE DEF new
<1>7. /\ Len(log') = n + 1 /\ log'[n + 1].seq = wk[w].seq
      /\ \A i \in 1 .. n : log'[i] = log[i]
  BY <1>1, <1>4, <1>5, <1>6, AppendProperties
<1>8. /\ \A i \in 1 .. n : log[i].seq < seqno /\ log[i].seq # wk[w].seq
      /\ wk[w].seq < seqno
  BY <1>2, <1>4 DEF NumberInv
<1>9. /\ \A i \in 1 .. n + 1 : log'[i].seq < seqno'
      /\ \A u \in Workers : wk'[u].at = "insert" => wk'[u].seq < seqno'
  BY <1>2, <1>3, <1>7, <1>8 DEF NumberInv
<1>10. ASSUME NEW i \in 1 .. n + 1, NEW j \in 1 .. n + 1, log'[i].seq = log'[j].seq
       PROVE  i = j
  <2>1. CASE i \in 1 .. n /\ j \in 1 .. n
    BY <1>4, <1>7, <1>10, <2>1 DEF NumberInv
  <2>2. CASE (i \in 1 .. n /\ j = n + 1) \/ (i = n + 1 /\ j \in 1 .. n)
    BY <1>7, <1>8, <1>10, <2>2
  <2> QED
    BY <2>1, <2>2
<1>11. ASSUME NEW u \in Workers, NEW i \in 1 .. n + 1, wk'[u].at = "insert"
       PROVE  wk'[u].seq # log'[i].seq
  <2>1. u # w /\ wk'[u] = wk[u] /\ wk[u].at = "insert"
    BY <1>3, <1>11
  <2>2. wk[u].seq # wk[w].seq
    BY <1>2, <2>1 DEF NumberInv
  <2>3. CASE i \in 1 .. n
    BY <1>4, <1>7, <2>1, <2>3 DEF NumberInv
  <2>4. CASE i = n + 1
    BY <1>7, <2>1, <2>2, <2>4
  <2> QED
    BY <2>3, <2>4
<1>12. \A v, u \in Workers :
         wk'[v].at = "insert" /\ wk'[u].at = "insert" /\ wk'[v].seq = wk'[u].seq => v = u
  BY <1>3 DEF NumberInv
<1>13. ASSUME clean', NEW m \in 0 .. seqno' - 1
       PROVE  \/ \E i \in 1 .. n + 1 : log'[i].seq = m
              \/ \E u \in Workers : wk'[u].at = "insert" /\ wk'[u].seq = m
  <2>1. \/ \E i \in 1 .. n : log[i].seq = m
        \/ \E u \in Workers : wk[u].at = "insert" /\ wk[u].seq = m
    BY <1>2, <1>4, <1>13 DEF NumberInv
  <2>2. n + 1 \in 1 .. n + 1 /\ \A i \in 1 .. n : i \in 1 .. n + 1
    OBVIOUS
  <2> QED
    BY <1>3, <1>7, <2>1, <2>2
<1> QED
  BY <1>7, <1>9, <1>10, <1>11, <1>12, <1>13 DEF NumberInv

\* Every number that was given out is in the log or with a worker, once.
LEMMA NumberSteps ==
  ASSUME CountInv, prog = "threads", parent' # "unlink", [ClientsNext]_lvars
  PROVE  NumberInv'
<1>1. ~Bench /\ TestInv /\ ClientTypes /\ LogInv
  BY DEF CountInv, TestInv, Bench
<1>2. CASE parent = "unlink"
  <2>1. Unlink
    <3>1. \A w \in Workers : wk[w].at = "unborn"
      BY <1>1, <1>2 DEF LogInv, WorkerInv
    <3>2. ASSUME NEW w \in Active, WorkerStep(w) PROVE FALSE
      BY <1>2, <3>1, <3>2, ActiveWorkers DEF WorkerStep, Start, StartFails, WorkerOpen,
         WorkerOpenFails, Number, Reserve, Inserted, InsertFails, Leave
    <3>3. ~UNCHANGED lvars
      BY <1>2 DEF lvars
    <3> QED
      BY <1>2, <3>2, <3>3 DEF ClientsNext, Join, ParentOpen, ParentOpenFails, Trim, Validate,
                              ValidateFails
  <2>2. log' = <<>> /\ Len(log') = 0 /\ seqno' = 0 /\ wk' = wk
    BY <1>1, <1>2, <2>1, EmptySeq DEF Unlink, LogInv
  <2>3. \A w \in Workers : wk'[w].at = "unborn"
    BY <1>1, <1>2, <2>2 DEF LogInv, WorkerInv
  <2> QED
    BY <2>2, <2>3 DEF NumberInv
<1>3. CASE parent # "unlink"
  <2>1. NumberInv
    BY <1>3 DEF CountInv
  <2>2. ASSUME UNCHANGED <<seqno, log, wk>>, clean' => clean PROVE NumberInv'
    BY <2>1, <2>2, NumbersKeep
  <2>3. CASE UNCHANGED lvars
    BY <2>2, <2>3 DEF lvars
  <2>4. CASE Join \/ ParentOpenFails \/ Trim \/ Validate \/ ValidateFails
    BY <2>2, <2>4 DEF Join, ParentOpenFails, Trim, Validate, ValidateFails
  <2>5. CASE ParentOpen
    BY <1>1, <2>2, <2>5, OpenKeepsLog DEF ParentOpen
  <2>6. ASSUME NEW w \in Workers, WorkerStep(w) PROVE NumberInv'
    <3>1. wk \in [Workers -> Worker]
      BY <1>1 DEF ClientTypes
    <3>2. ASSUME NEW step \in WorkerSteps \ {"insert"}, wk' = [wk EXCEPT ![w].at = step],
                 UNCHANGED <<seqno, log>>, clean' => clean /\ wk[w].at # "insert"
          PROVE  NumberInv'
      <4>1. /\ wk'[w].at = step /\ \A u \in Workers \ {w} : wk'[u] = wk[u]
        BY <3>1, <3>2, AtMoves DEF WorkerMoves
      <4> QED
        BY <2>1, <3>2, <4>1, NumbersKeep
    <3>3. CASE Start(w)
      BY <3>2, <3>3 DEF Start, WorkerSteps
    <3>4. CASE StartFails(w)
      <4>1. /\ clean' = FALSE /\ UNCHANGED <<seqno, log>>
            /\ wk' = [u \in Workers |-> [wk[u] EXCEPT !.at = "done"]]
        BY <3>4 DEF StartFails
      <4>2. \A u \in Workers : wk'[u].at = "done"
        BY <3>1, <4>1 DEF Worker
      <4> QED
        BY <2>1, <4>1, <4>2, NumbersKeep
    <3>5. CASE WorkerOpen(w)
      BY <1>1, <3>2, <3>5, OpenKeepsLog DEF WorkerOpen, WorkerSteps
    <3>6. CASE WorkerOpenFails(w)
      BY <3>2, <3>6 DEF WorkerOpenFails, WorkerSteps
    <3>7. CASE Number(w)
      BY <1>1, <2>1, <3>7, NumberNumbers
    <3>8. CASE Reserve(w)
      BY <1>1, <2>1, <3>8, ReserveNumbers
    <3>9. CASE Inserted(w)
      <4>1. /\ wk[w].at = "copy" /\ UNCHANGED <<seqno, clean>>
            /\ wk' = [wk EXCEPT ![w] = [wk[w] EXCEPT !.at = "loop", !.left = wk[w].left - 1]]
        BY <3>1, <3>9 DEF Inserted
      <4>2. wk[w].left > 0
        BY <1>1, <4>1 DEF LogInv, WorkerInv
      <4>3. wk'[w].at = "loop" /\ \A u \in Workers \ {w} : wk'[u] = wk[u]
        BY <1>1, <4>1, <4>2, LessMoves DEF WorkerMoves
      <4>4. PICK k \in 1 .. Len(log) : k = wk[w].place
        BY <1>1, <4>1 DEF LogInv, WorkerInv
      <4>5. log' = [log EXCEPT ![k].whole = TRUE] /\ log \in Seq(Line)
        BY <1>1, <3>9, <4>4 DEF Inserted, ClientTypes
      <4>6. log[k] \in Line
        BY <4>5, ElementOfSeq
      <4> DEFINE e == [log[k] EXCEPT !.whole = TRUE]
      <4>7. e \in Line /\ e.seq = log[k].seq /\ log' = [log EXCEPT ![k] = e]
        BY <4>5, <4>6 DEF Line
      <4> HIDE DEF e
      <4>8. /\ Len(log') = Len(log) /\ log'[k] = e
            /\ \A i \in 1 .. Len(log) : i # k => log'[i] = log[i]
        BY <4>5, <4>7, ExceptSeq
      <4>9. \A i \in 1 .. Len(log) : log'[i].seq = log[i].seq
        BY <4>7, <4>8
      <4> QED
        BY <2>1, <4>1, <4>3, <4>8, <4>9, NumbersKeep
    <3>10. CASE InsertFails(w)
      <4>1. /\ wk' = [wk EXCEPT ![w].at = "done"] /\ clean' = FALSE /\ UNCHANGED <<seqno, log>>
        BY <1>1, <3>1, <3>10 DEF InsertFails
      <4> QED
        BY <3>2, <4>1 DEF WorkerSteps
    <3>11. CASE Leave(w)
      <4>1. wk'[w].at = "done" /\ \A u \in Workers \ {w} : wk'[u] = wk[u]
        BY <1>1, <3>11, LeaveMoves DEF WorkerMoves
      <4>2. wk[w].at = "loop" /\ UNCHANGED <<seqno, log, clean>>
        BY <3>11 DEF Leave
      <4> QED
        BY <2>1, <4>1, <4>2, NumbersKeep
    <3> QED
      BY <2>6, <3>3, <3>4, <3>5, <3>6, <3>7, <3>8, <3>9, <3>10, <3>11 DEF WorkerStep
  <2> QED
    BY <1>3, <2>3, <2>4, <2>5, <2>6, ActiveWorkers DEF ClientsNext, Unlink
<1> QED
  BY <1>2, <1>3

\* Where the parent can be when it counts.
LEMMA ParentInvSteps ==
  ASSUME CountInv, [ClientsNext]_lvars
  PROVE  ParentInv' /\ (verdict \in {"passed", "failed"} => UNCHANGED lvars)
<1>1. JoinInv /\ ParentInv
  BY DEF CountInv
<1>2. CASE UNCHANGED lvars
  BY <1>1, <1>2 DEF lvars, disk, ParentInv, Bench, AllDone, Active
<1>3. CASE Unlink
  BY <1>1, <1>3 DEF Unlink, ParentInv, Bench
<1>4. CASE Join
  BY <1>1, <1>4 DEF Join, ParentInv, Bench, disk
<1>5. CASE ParentOpen
  BY <1>1, <1>5 DEF ParentOpen, OpenEffect, ParentInv, Bench
<1>6. CASE ParentOpenFails
  BY <1>1, <1>6 DEF ParentOpenFails, ParentInv, Bench
<1>7. CASE Trim
  <2>1. clean' => clean /\ trimmed'
    BY <1>7 DEF Trim
  <2> QED
    BY <1>1, <1>7, <2>1 DEF Trim, ParentInv, Bench, disk
<1>8. CASE Validate \/ ValidateFails
  <2>1. AllDone' /\ parent = "validate" /\ parent' = "exited"
    BY <1>1, <1>8 DEF Validate, ValidateFails, JoinInv, AllDone, Active
  <2> QED
    BY <1>1, <1>8, <2>1 DEF Validate, ValidateFails, ParentInv, Bench
<1>9. ASSUME NEW w \in Active, WorkerStep(w)
      PROVE  ParentInv' /\ verdict \notin {"passed", "failed"}
  <2>1. wk[w].at # "done"
    BY <1>9 DEF WorkerStep, Start, StartFails, WorkerOpen, WorkerOpenFails, Number, Reserve, Inserted,
                InsertFails, Leave
  <2>2. ~AllDone /\ verdict \notin {"passed", "failed"} /\ parent \notin {"open", "trim", "validate"}
    BY <1>1, <2>1 DEF AllDone, ParentInv, JoinInv
  <2>3. /\ prog' = prog
        /\ (UNCHANGED <<parent, verdict>>) \/ (parent' = "exited" /\ verdict' = "aborted")
    BY <1>9 DEF WorkerStep, Start, StartFails, WorkerOpen, WorkerOpenFails, Number, Reserve, Inserted,
                InsertFails, Leave
  <2> QED
    BY <1>1, <2>2, <2>3 DEF ParentInv, Bench
<1> QED
  BY <1>1, <1>2, <1>3, <1>4, <1>5, <1>6, <1>7, <1>8, <1>9 DEF ClientsNext, ParentInv, Unlink, Join,
     ParentOpen, ParentOpenFails, Trim, Validate, ValidateFails

-----------------------------------------------------------------------------
(* What the parent counts *)

\* A worker that has nothing left is in the log Messages times.
LEMMA MessagesOf ==
  ASSUME TestInv, NEW w \in Workers, wk[w].left = 0
  PROVE  Cardinality({i \in Whole : log[i].by = w}) = Messages
<1>1. ClientTypes /\ LogInv /\ Messages \in Nat
  BY ClientsAssumption DEF TestInv
<1>2. PICK n \in Nat : n = Len(log) /\ DOMAIN log = 1 .. n
  BY <1>1, LogLines
<1>3. PICK f \in [1 .. n -> Int] : Ranks(f)
  BY <1>1, <1>2 DEF LogInv
<1> DEFINE S == {i \in Whole : log[i].by = w}
           g == [i \in S |-> f[i]]
<1>4. \A i \in S : i \in 1 .. n /\ log[i].by = w
  BY <1>2 DEF Whole
<1>5. \A i \in S : f[i] \in 1 .. Messages
  BY <1>2, <1>3, <1>4 DEF Ranks, RankOf
<1>6. \A i, j \in S : f[i] = f[j] => i = j
  BY <1>2, <1>3, <1>4 DEF Ranks
<1>7. ASSUME NEW m \in 1 .. Messages PROVE \E i \in S : f[i] = m
  <2>1. PICK i \in 1 .. n : log[i].by = w /\ log[i].whole /\ f[i] = m
    BY <1>1, <1>2, <1>3 DEF Ranks
  <2>2. i \in S
    BY <1>2, <2>1 DEF Whole
  <2> QED
    BY <2>1, <2>2
<1>8. IsFiniteSet(1 .. n) /\ IsFiniteSet(1 .. Messages) /\ Cardinality(1 .. Messages) = Messages
  BY <1>1, FS_Interval
<1>9. S \in SUBSET (1 .. n)
  BY <1>4
<1> HIDE DEF S
<1>10. g \in Bijection(S, 1 .. Messages)
  <2>1. g \in [S -> 1 .. Messages]
    BY <1>5
  <2>2. \A i, j \in S : g[i] = g[j] => i = j
    BY <1>6
  <2>3. \A m \in 1 .. Messages : \E i \in S : g[i] = m
    BY <1>7
  <2> HIDE DEF g
  <2> QED
    BY <2>1, <2>2, <2>3 DEF Bijection, Injection, Surjection, IsInjective
<1>11. IsFiniteSet(S)
  BY <1>8, <1>9, FS_Subset
<1>12. ExistsBijection(S, 1 .. Messages)
  BY <1>10 DEF ExistsBijection
<1>13. Cardinality(1 .. Messages) = Cardinality(S)
  BY <1>11, <1>12, FS_Bijection
<1> QED
  BY <1>8, <1>13 DEF S

\* A test has at most Total places, and exactly that many when nothing is left.
LEMMA PlacesOf ==
  ASSUME TestInv, \A i \in 1 .. Len(log) : log[i].by \in Workers
  PROVE  /\ Total \in Nat /\ Len(log) <= Total
         /\ (\A w \in Workers : wk[w].left = 0) => Len(log) = Total
<1>1. ClientTypes /\ LogInv /\ Messages \in Nat /\ IsFiniteSet(Workers)
  BY ClientsAssumption DEF TestInv
<1>2. PICK n \in Nat : n = Len(log)
  BY <1>1, LogLines
<1>3. PICK f \in [1 .. n -> Int] : Ranks(f)
  BY <1>1, <1>2 DEF LogInv
<1> DEFINE P == Workers \X (1 .. Messages)
           g == [i \in 1 .. n |-> <<log[i].by, f[i]>>]
<1>4. /\ IsFiniteSet(1 .. Messages) /\ Cardinality(1 .. Messages) = Messages
      /\ IsFiniteSet(1 .. n) /\ Cardinality(1 .. n) = n
  BY <1>1, FS_Interval
<1>5. Cardinality(Workers) \in Nat
  BY <1>1, FS_CardinalityType
<1>6. IsFiniteSet(P) /\ Cardinality(P) = Cardinality(Workers) * Cardinality(1 .. Messages)
  BY <1>1, <1>4, FS_Product
<1>7. Total \in Nat /\ Cardinality(P) = Total
  <2>1. Cardinality(P) = Cardinality(Workers) * Messages
    BY <1>4, <1>6
  <2> HIDE DEF P
  <2> QED
    BY <1>1, <1>5, <2>1 DEF Total
<1>8. ASSUME NEW i \in 1 .. n PROVE log[i].by \in Workers /\ f[i] \in 1 .. Messages
  BY <1>2, <1>3 DEF Ranks, RankOf
<1>9. \A i, j \in 1 .. n : log[i].by = log[j].by /\ f[i] = f[j] => i = j
  BY <1>2, <1>3, <1>8 DEF Ranks
<1>10. g \in Injection(1 .. n, P)
  <2>1. g \in [1 .. n -> P]
    BY <1>8
  <2>2. ASSUME NEW i \in 1 .. n, NEW j \in 1 .. n, g[i] = g[j] PROVE i = j
    <3>1. <<log[i].by, f[i]>> = <<log[j].by, f[j]>>
      BY <2>2
    <3> QED
      BY <1>9, <3>1
  <2> HIDE DEF g, P
  <2> QED
    BY <2>1, <2>2 DEF Injection, IsInjective
<1>11. Cardinality(1 .. n) <= Cardinality(P)
       /\ (Cardinality(1 .. n) = Cardinality(P) <=> g \in Surjection(1 .. n, P))
  <2> HIDE DEF g, P
  <2> QED
    BY <1>6, <1>10, FS_Injection
<1>12. ASSUME \A w \in Workers : wk[w].left = 0 PROVE g \in Surjection(1 .. n, P)
  <2>1. g \in [1 .. n -> P]
    BY <1>8
  <2>2. ASSUME NEW w \in Workers, NEW m \in 1 .. Messages
        PROVE  \E i \in 1 .. n : g[i] = <<w, m>>
    <3>1. PICK i \in 1 .. n : log[i].by = w /\ f[i] = m
      BY <1>1, <1>2, <1>3, <1>12 DEF Ranks
    <3> QED
      BY <3>1
  <2>3. ASSUME NEW x \in P PROVE \E i \in 1 .. n : g[i] = x
    <3>1. PICK w \in Workers, m \in 1 .. Messages : x = <<w, m>>
      OBVIOUS
    <3> QED
      BY <2>2, <3>1
  <2> HIDE DEF g, P
  <2> QED
    BY <2>1, <2>3 DEF Surjection
<1> HIDE DEF g, P
<1> QED
  BY <1>2, <1>4, <1>7, <1>11, <1>12

\* Without a failure every worker of the test has nothing left and there is no hole.
LEMMA CleanEnd ==
  ASSUME TestInv, AllDone, clean
  PROVE  /\ \A w \in Active : wk[w].left = 0 /\ wk[w].ok
         /\ prog # "reader" /\ parent # "unlink" => Whole = 1 .. Len(log)
<1>1. ClientTypes /\ LogInv
  BY DEF TestInv
<1>2. \A w \in Active : wk[w].left = 0 /\ wk[w].ok
  BY <1>1, ActiveWorkers DEF LogInv, WorkerInv, AllDone
<1>3. ASSUME prog # "reader", parent # "unlink" PROVE Whole = 1 .. Len(log)
  <2>1. Active = Workers
    BY <1>3 DEF Active
  <2>2. PICK f \in [1 .. Len(log) -> Int] : Ranks(f)
    BY <1>1 DEF LogInv
  <2>3. ASSUME NEW i \in 1 .. Len(log) PROVE log[i].whole
    <3>1. log[i].by \in Workers /\ RankOf(f, i)
      BY <1>1, <1>3, <2>2 DEF LogInv, Ranks
    <3>2. wk[log[i].by].ok
      BY <1>2, <2>1, <3>1
    <3> QED
      BY <3>1, <3>2 DEF RankOf
  <2> QED
    BY <1>1, <2>3, LogLines DEF Whole
<1> QED
  BY <1>2, <1>3

\* The lines of a trimmed log without holes are the messages.
LEMMA LinesWithoutHoles ==
  ASSUME TestInv, trimmed, Whole = 1 .. Len(log), NEW lines \in Lines
  PROVE  lines = Len(log)
<1>1. PICK n \in Nat : n = Len(log) /\ log \in Seq(Line)
  BY LogLines DEF TestInv, ClientTypes
<1>2. Cardinality(Whole) = n
  <2>1. Cardinality(1 .. n) = n
    BY FS_Interval
  <2> QED
    BY <1>1, <2>1
<1>3. \A i \in 1 .. n : log[i].whole
  BY <1>1 DEF Whole
<1>4. ~TrailingHole
  <2>1. log # <<>> => n \in 1 .. n
    BY <1>1, EmptySeq, LenProperties
  <2> QED
    BY <1>1, <1>3, <2>1 DEF Last, TrailingHole
<1>5. ASSUME NEW full \in Splits PROVE full = {}
  <2>1. \A i \in 1 .. n : i > 2 => i - 1 \in 1 .. n
    OBVIOUS
  <2> QED
    BY <1>1, <1>3, <2>1 DEF Splits
<1>6. PICK full \in Splits : lines = Cardinality(Whole) + Cardinality(full) + 0
  BY <1>4 DEF Lines
<1>7. Cardinality(full) = 0
  BY <1>5, FS_EmptySet
<1> QED
  BY <1>1, <1>2, <1>6, <1>7

\* A test in which no call failed passes.
LEMMA CleanIsValid ==
  ASSUME CountInv, parent = "validate", clean, NEW lines \in Lines,
         NEW scraps, prog = "threads" => scraps \in Scraps
  PROVE  Valid(lines, scraps)
<1>1. ~Bench /\ TestInv /\ AllDone /\ trimmed
  BY DEF CountInv, ParentInv, JoinInv
<1>2. ClientTypes /\ LogInv /\ prog \in {"forks", "threads", "reader"} /\ Messages \in Nat
  BY <1>1, ClientsAssumption DEF TestInv, ClientTypes, Programs, Bench
<1>3. /\ \A w \in Active : wk[w].left = 0 /\ wk[w].ok
      /\ prog # "reader" => Whole = 1 .. Len(log)
  BY <1>1, CleanEnd
<1>4. CASE prog = "reader"
  <2>1. \A w \in Active : Cardinality({i \in Whole : log[i].by = w}) = Messages
    BY <1>1, <1>3, ActiveWorkers, MessagesOf
  <2> QED
    BY <1>4, <2>1 DEF Valid
<1>5. CASE prog # "reader"
  <2>1. Active = Workers /\ Whole = 1 .. Len(log)
    BY <1>3, <1>5 DEF Active
  <2>2. \A i \in 1 .. Len(log) : log[i].by \in Workers
    BY <1>2, <1>5 DEF LogInv
  <2>3. lines = Total
    BY <1>1, <1>3, <2>1, <2>2, PlacesOf, LinesWithoutHoles
  <2>4. CASE prog = "forks"
    BY <2>3, <2>4 DEF Valid
  <2>5. CASE prog = "threads"
    <3>1. NumberInv /\ data = "usable"
      BY <2>5 DEF CountInv, ParentInv
    <3>2. Expected = Total
      <4>1. {w \in Workers : wk[w].ok} = Workers
        BY <1>3, <2>1
      <4> QED
        BY <4>1 DEF Expected, Total
    <3>3. Parsed = 1 .. Len(log)
      <4>1. Len(log) \in Nat /\ \A i \in 1 .. Len(log) : i > 1 => i - 1 \in Whole
        BY <1>2, <2>1, LogLines
      <4> QED
        BY <2>1, <4>1 DEF Parsed, Whole
    <3>4. \A i, j \in Parsed : log[i].seq = log[j].seq /\ log[i].seq \in Seen => i = j
      BY <3>1, <3>3 DEF NumberInv
    <3>5. ASSUME NEW n \in 0 .. Expected - 1, NEW m \in Seen, n <= m
          PROVE  n \in Seen
      <4>1. PICK i \in 1 .. Len(log) : log[i].seq = m
        BY <3>3 DEF Seen
      <4>2. m \in Nat /\ m < seqno /\ seqno \in Nat /\ n \in Nat
        <5>1. log[i] \in Line
          BY <1>2, LogLines
        <5>2. m \in Nat
          BY <4>1, <5>1 DEF Line
        <5>3. n \in Nat
          BY <3>2, <1>1, <2>2, PlacesOf
        <5> QED
          BY <1>2, <3>1, <4>1, <5>2, <5>3 DEF NumberInv, ClientTypes
      <4>3. n \in 0 .. seqno - 1
        BY <3>5, <4>2
      <4>4. \A w \in Workers : wk[w].at # "insert"
        BY <1>1, <2>1 DEF AllDone
      <4>5. \E j \in 1 .. Len(log) : log[j].seq = n
        BY <3>1, <4>3, <4>4 DEF NumberInv
      <4> QED
        BY <3>3, <4>5 DEF Seen
    <3>6. data # "missing"
      BY <3>1
    <3>7. scraps = {}
      <4>1. DOMAIN log \ Whole = {}
        BY <1>2, <2>1, LogLines
      <4>2. /\ scraps \in SUBSET (0 .. seqno - 1)
            /\ Cardinality(scraps) <= Cardinality(DOMAIN log \ Whole)
        BY <2>5 DEF Scraps
      <4>3. IsFiniteSet(0 .. seqno - 1)
        BY <1>2, FS_Interval DEF ClientTypes
      <4>4. IsFiniteSet(scraps) /\ Cardinality(scraps) \in Nat
        BY <4>2, <4>3, FS_Subset, FS_CardinalityType
      <4>5. Cardinality(scraps) = 0
        BY <4>1, <4>2, <4>4, FS_EmptySet
      <4> QED
        BY <4>4, <4>5, FS_EmptySet
    <3>8. scraps \cap Seen = {} /\ Seen \cup (scraps \cap 0 .. Expected - 1) = Seen
      BY <3>7
    <3> QED
      BY <2>3, <2>5, <3>2, <3>4, <3>5, <3>6, <3>8 DEF Valid
  <2> QED
    BY <1>2, <1>5, <2>4, <2>5
<1> QED
  BY <1>4, <1>5

\* What PassedMeansLogged says of a test that passed.
Logged ==
  /\ prog = "forks" /\ trimmed => Missing = IF TrailingHole THEN 1 ELSE 0
  /\ prog = "threads" => \A i \in Whole : log[i].by \in Workers /\ wk[log[i].by].ok

\* A full buffer ends behind two holes, no two of them at the same place or next to
\* each other, and a hole is a message that is lost: the count can only come out
\* right with no full buffer and no hole but one at the very end.
LEMMA OneMissing ==
  ASSUME TestInv, prog = "forks", parent # "unlink", trimmed, Total \in Lines
  PROVE  Missing = IF TrailingHole THEN 1 ELSE 0
<1>1. ClientTypes /\ LogInv /\ \A i \in 1 .. Len(log) : log[i].by \in Workers
  BY DEF TestInv, LogInv
<1>2. PICK n \in Nat : n = Len(log) /\ log \in Seq(Line) /\ DOMAIN log = 1 .. n
  BY <1>1, LogLines DEF ClientTypes
<1>3. Total \in Nat /\ n <= Total
  BY <1>1, <1>2, PlacesOf
<1> DEFINE hole == IF TrailingHole THEN 1 ELSE 0
           holes == {i \in 1 .. n : ~log[i].whole}
           after == {i \in 2 .. n + 1 : ~log[i - 1].whole}
<1>4. PICK full \in Splits : Total = Cardinality(Whole) + Cardinality(full) + hole
  BY DEF Lines
<1>41. /\ \A i \in full : i \in 1 .. n /\ i > 2 /\ ~log[i - 1].whole /\ ~log[i - 2].whole
       /\ \A i \in full : i + 1 \notin full
  BY <1>2 DEF Splits
<1>5. /\ IsFiniteSet(1 .. n) /\ Cardinality(1 .. n) = n /\ IsFiniteSet(2 .. n + 1)
  BY FS_Interval
<1>6. /\ Whole \in SUBSET (1 .. n) /\ holes = (1 .. n) \ Whole /\ full \in SUBSET (2 .. n + 1)
      /\ after \in SUBSET (2 .. n + 1)
  BY <1>2, <1>41 DEF Whole
<1>7. /\ IsFiniteSet(Whole) /\ IsFiniteSet(holes) /\ IsFiniteSet(full) /\ IsFiniteSet(after)
      /\ Cardinality(Whole) \in Nat /\ Cardinality(holes) \in Nat /\ Cardinality(full) \in Nat
  <2>1. holes \in SUBSET (1 .. n)
    OBVIOUS
  <2> HIDE DEF holes, after
  <2> QED
    BY <1>5, <1>6, <2>1, FS_Subset, FS_CardinalityType
<1>8. Cardinality(holes) = n - Cardinality(Whole)
  <2>1. Cardinality((1 .. n) \ Whole) = Cardinality(1 .. n) - Cardinality((1 .. n) \cap Whole)
    BY <1>5, FS_Difference
  <2>2. (1 .. n) \cap Whole = Whole
    BY <1>6
  <2> QED
    BY <1>5, <1>6, <2>1, <2>2
<1>9. Cardinality(after) = Cardinality(holes)
  <2> DEFINE g == [i \in holes |-> i + 1]
  <2>1. g \in Bijection(holes, after)
    <3>1. \A i \in holes : i + 1 \in after
      OBVIOUS
    <3>2. \A j \in after : \E i \in holes : i + 1 = j
      <4>1. \A j \in after : j - 1 \in holes /\ (j - 1) + 1 = j
        OBVIOUS
      <4> QED
        BY <4>1
    <3>3. \A i, j \in holes : i + 1 = j + 1 => i = j
      OBVIOUS
    <3> HIDE DEF holes, after
    <3> QED
      BY <3>1, <3>2, <3>3 DEF Bijection, Injection, Surjection, IsInjective
  <2> HIDE DEF g, holes, after
  <2>2. ExistsBijection(holes, after)
    BY <2>1 DEF ExistsBijection
  <2> QED
    BY <1>7, <2>2, FS_Bijection
<1>10. full \subseteq after
  BY <1>6, <1>41
<1>11. hole = 1 => n + 1 \in after /\ n + 1 \notin full
  <2>1. hole = 1 => log # <<>> /\ ~log[n].whole
    BY <1>2 DEF Last, TrailingHole
  <2>2. log # <<>> => n \in 1 .. n
    BY <1>2, EmptySeq, LenProperties
  <2>3. n + 1 \notin full
    BY <1>41
  <2> QED
    BY <2>1, <2>2, <2>3
<1>12. hole \in {0, 1}
  OBVIOUS
<1>13. ASSUME NEW i \in full PROVE i - 1 \in after /\ i - 1 \notin full /\ i - 1 # n + 1
  <2>1. i \in 1 .. n /\ i > 2 /\ ~log[i - 2].whole /\ (i - 1) + 1 = i /\ (i - 1) - 1 = i - 2
    BY <1>41
  <2>2. i - 1 \notin full
    BY <1>41, <2>1
  <2> QED
    BY <2>1, <2>2
<1> HIDE DEF hole, holes, after
<1>14. Cardinality(full) + hole <= Cardinality(after)
  <2>1. CASE hole = 0
    BY <1>7, <1>10, <2>1, FS_Subset
  <2>2. CASE hole = 1
    <3>1. full \cup {n + 1} \in SUBSET after
      BY <1>10, <1>11, <2>2
    <3>2. Cardinality(full \cup {n + 1}) = Cardinality(full) + 1
      BY <1>7, <1>11, <2>2, FS_AddElement
    <3> QED
      BY <1>7, <2>2, <3>1, <3>2, FS_Subset
  <2> QED
    BY <1>12, <2>1, <2>2
<1>15. full # {} => Cardinality(full) + hole + 1 <= Cardinality(after)
  <2> SUFFICES ASSUME full # {} PROVE Cardinality(full) + hole + 1 <= Cardinality(after)
    OBVIOUS
  <2>1. PICK i \in full : TRUE
    OBVIOUS
  <2>2. PICK x : x = i - 1 /\ x \in after /\ x \notin full /\ x # n + 1
    BY <1>13
  <2>3. IsFiniteSet(full \cup {x}) /\ Cardinality(full \cup {x}) = Cardinality(full) + 1
    BY <1>7, <2>2, FS_AddElement
  <2>4. CASE hole = 0
    <3>1. full \cup {x} \in SUBSET after
      BY <1>10, <2>2
    <3> QED
      BY <1>7, <2>3, <2>4, <3>1, FS_Subset
  <2>5. CASE hole = 1
    <3> DEFINE some == full \cup {x}
    <3>1. some \cup {n + 1} \in SUBSET after /\ n + 1 \notin some
      BY <1>10, <1>11, <2>2, <2>5
    <3>2. IsFiniteSet(some) /\ Cardinality(some) = Cardinality(full) + 1
      BY <2>3
    <3> HIDE DEF some
    <3>3. Cardinality(some \cup {n + 1}) = Cardinality(some) + 1
      BY <3>1, <3>2, FS_AddElement
    <3>4. Cardinality(some \cup {n + 1}) <= Cardinality(after)
      BY <1>7, <3>1, FS_Subset
    <3> QED
      BY <1>7, <2>5, <3>2, <3>3, <3>4
  <2> QED
    BY <1>12, <2>4, <2>5
<1>16. Cardinality(full) = 0
  <2> SUFFICES ASSUME Cardinality(full) # 0 PROVE FALSE
    OBVIOUS
  <2>1. full # {}
    BY <1>7, FS_EmptySet
  <2> QED
    BY <1>3, <1>4, <1>7, <1>8, <1>9, <1>12, <1>15, <2>1
<1>17. {i \in Whole : log[i].by \in Active} = Whole /\ Active = Workers
  BY <1>1, <1>2, <1>6 DEF Active
<1>18. Missing = Total - Cardinality(Whole)
  BY <1>17 DEF Missing, Total
<1>19. Missing = hole
  BY <1>3, <1>4, <1>7, <1>12, <1>16, <1>18
<1> QED
  BY <1>19 DEF hole

\* The messages of the threads that succeeded are whole, and there are no more of
\* them than eg/threads expects: when the lines are as many, there is no other.
LEMMA OnlySucceeded ==
  ASSUME TestInv, prog = "threads", parent # "unlink", NEW lines \in Lines, lines = Expected,
         NEW i \in Whole
  PROVE  log[i].by \in Workers /\ wk[log[i].by].ok
<1> DEFINE Ok == {w \in Workers : wk[w].ok}
           P == Ok \X (1 .. Messages)
<1>1. ClientTypes /\ LogInv /\ Messages \in Nat /\ IsFiniteSet(Workers)
  BY ClientsAssumption DEF TestInv
<1>2. PICK n \in Nat : n = Len(log) /\ DOMAIN log = 1 .. n
  BY <1>1, LogLines
<1>3. PICK f \in [1 .. n -> Int] : Ranks(f)
  BY <1>1, <1>2 DEF LogInv
<1>4. \A j \in 1 .. n : log[j].by \in Workers
  BY <1>1, <1>2 DEF LogInv
<1> SUFFICES ASSUME ~wk[log[i].by].ok PROVE FALSE
  BY <1>2, <1>4 DEF Whole
<1>5. \A w \in Ok : wk[w].left = 0
  BY <1>1 DEF LogInv, WorkerInv
<1> DEFINE Place(x) == CHOOSE j \in 1 .. n : log[j].by = x[1] /\ log[j].whole /\ f[j] = x[2]
           g == [x \in P |-> Place(x)]
<1>6. ASSUME NEW x \in P
      PROVE  /\ Place(x) \in Whole \ {i}
             /\ log[Place(x)].by = x[1] /\ f[Place(x)] = x[2]
  <2>1. x[1] \in Workers /\ wk[x[1]].ok /\ wk[x[1]].left = 0 /\ x[2] \in 1 .. Messages
    BY <1>5
  <2>2. \E j \in 1 .. n : log[j].by = x[1] /\ log[j].whole /\ f[j] = x[2]
    BY <1>1, <1>2, <1>3, <2>1 DEF Ranks
  <2> DEFINE p == Place(x)
  <2>3. p \in 1 .. n /\ log[p].by = x[1] /\ log[p].whole /\ f[p] = x[2]
    BY <2>2
  <2> HIDE DEF p
  <2>4. p \in Whole /\ p # i
    BY <1>2, <2>1, <2>3 DEF Whole
  <2> QED
    BY <2>3, <2>4 DEF p
<1>7. g \in Injection(P, Whole \ {i})
  <2>1. g \in [P -> Whole \ {i}]
    BY <1>6
  <2>2. \A x \in P : log[g[x]].by = x[1] /\ f[g[x]] = x[2]
    BY <1>6
  <2> HIDE DEF g
  <2>3. ASSUME NEW x \in P, NEW y \in P, g[x] = g[y] PROVE x = y
    <3>1. x[1] = y[1] /\ x[2] = y[2]
      BY <2>2, <2>3
    <3> QED
      BY <3>1
  <2> HIDE DEF P
  <2> QED
    BY <2>1, <2>3 DEF Injection, IsInjective
<1>8. /\ IsFiniteSet(1 .. n) /\ IsFiniteSet(1 .. Messages) /\ Cardinality(1 .. Messages) = Messages
  BY <1>1, FS_Interval
<1>9. /\ Whole \in SUBSET (1 .. n) /\ IsFiniteSet(Whole) /\ Cardinality(Whole) \in Nat
  <2>1. Whole \in SUBSET (1 .. n)
    BY <1>2 DEF Whole
  <2> QED
    BY <1>8, <2>1, FS_Subset, FS_CardinalityType
<1>10. IsFiniteSet(Whole \ {i}) /\ Cardinality(Whole \ {i}) = Cardinality(Whole) - 1
  BY <1>9, FS_RemoveElement
<1>11. IsFiniteSet(Ok) /\ Cardinality(Ok) \in Nat
  <2>1. Ok \in SUBSET Workers
    OBVIOUS
  <2> QED
    BY <1>1, <2>1, FS_Subset, FS_CardinalityType
<1>12. Cardinality(P) = Expected /\ Expected \in Nat
  <2>1. Cardinality(P) = Cardinality(Ok) * Cardinality(1 .. Messages)
    BY <1>8, <1>11, FS_Product
  <2> HIDE DEF P
  <2> QED
    BY <1>1, <1>8, <1>11, <2>1 DEF Expected
<1>13. Cardinality(P) <= Cardinality(Whole \ {i})
  <2> HIDE DEF g, P
  <2> QED
    BY <1>7, <1>10, FS_Injection
<1>14. Cardinality(Whole) <= lines /\ lines \in Nat
  <2>1. PICK full \in Splits, m \in Nat : lines = Cardinality(Whole) + Cardinality(full) + m
    <3>1. Total \in Nat
      BY <1>1, <1>2, <1>4, PlacesOf
    <3>2. \A m \in (IF TrailingHole THEN 1 ELSE 0) .. Total : m \in Nat
      BY <3>1
    <3>3. \E full \in Splits, m \in IF trimmed THEN {IF TrailingHole THEN 1 ELSE 0}
                                       ELSE (IF TrailingHole THEN 1 ELSE 0) .. Total :
            lines = Cardinality(Whole) + Cardinality(full) + m
      BY DEF Lines
    <3> QED
      BY <3>2, <3>3
  <2>2. full \in SUBSET (1 .. n)
    BY <1>2 DEF Splits
  <2>3. Cardinality(full) \in Nat
    BY <1>8, <2>2, FS_Subset, FS_CardinalityType
  <2> QED
    BY <1>9, <2>1, <2>3
<1> QED
  BY <1>9, <1>10, <1>12, <1>13, <1>14

\* A test that passes has in its log what its lines were counted for.
LEMMA ValidIsLogged ==
  ASSUME CountInv, parent = "validate", NEW lines \in Lines, NEW scraps, Valid(lines, scraps)
  PROVE  Logged
<1>1. TestInv
  BY DEF CountInv, ParentInv
<1>2. ASSUME prog = "forks", trimmed PROVE Missing = IF TrailingHole THEN 1 ELSE 0
  <2>1. lines = Total
    BY <1>2 DEF Valid
  <2> QED
    BY <1>1, <1>2, <2>1, OneMissing
<1>3. ASSUME prog = "threads"
      PROVE  \A i \in Whole : log[i].by \in Workers /\ wk[log[i].by].ok
  <2>1. lines = Expected
    BY <1>3 DEF Valid
  <2> QED
    BY <1>1, <1>3, <2>1, OnlySucceeded
<1> QED
  BY <1>2, <1>3 DEF Logged

\* The invariant holds of what an earlier run has left.
LEMMA CountStarts == ClientsInit => CountInv
<1> SUFFICES ASSUME ClientsInit PROVE CountInv
  OBVIOUS
<1>1. JoinInv
  BY DEF ClientsInit, JoinInv, AllDone
<1>2. ParentInv
  BY DEF ClientsInit, ParentInv
<1> QED
  BY <1>1, <1>2, TestStarts DEF ClientsInit, CountInv

\* The invariant is kept by every step of the parent and of the workers.
LEMMA CountSteps ==
  ASSUME CountInv, [ClientsNext]_lvars
  PROVE  CountInv'
<1>1. JoinInv' /\ ParentInv'
  BY JoinSteps, ParentInvSteps DEF CountInv
<1>2. prog' = prog
  BY DEF ClientsNext, lvars, Unlink, Join, ParentOpen, ParentOpenFails, Trim, Validate,
         ValidateFails, WorkerStep, Start, StartFails, WorkerOpen, WorkerOpenFails, Number,
         Reserve, Inserted, InsertFails, Leave
<1>3. Bench' = Bench
  BY <1>2 DEF Bench
<1>4. ~Bench => TestInv'
  BY TestSteps DEF CountInv
<1>5. prog = "threads" /\ parent' # "unlink" => NumberInv'
  BY NumberSteps
<1> QED
  BY <1>1, <1>2, <1>3, <1>4, <1>5 DEF CountInv

\* A verdict is final, and what it says is decided by what Validate finds.
LEMMA VerdictSteps ==
  ASSUME CountInv, CleanRunPasses, PassedMeansLogged, [ClientsNext]_lvars
  PROVE  CleanRunPasses' /\ PassedMeansLogged'
<1>1. CASE UNCHANGED lvars
  BY <1>1 DEF lvars, CleanRunPasses, PassedMeansLogged, Missing, Whole, Active, TrailingHole
<1>2. CASE Validate
  <2>1. PICK lines \in Lines, scraps \in (IF prog = "threads" THEN Scraps ELSE {{}}) :
          verdict' = IF Valid(lines, scraps) THEN "passed" ELSE "failed"
    BY <1>2 DEF Validate
  <2>2. /\ parent = "validate" /\ prog' = prog /\ log' = log /\ wk' = wk
        /\ trimmed' = trimmed /\ clean' = clean
    BY <1>2 DEF Validate
  <2>3. CASE Valid(lines, scraps)
    <3>1. Logged /\ verdict' = "passed"
      BY <2>1, <2>2, <2>3, ValidIsLogged
    <3>2. Logged'
      <4>1. Whole' = Whole /\ Active' = Active /\ TrailingHole' = TrailingHole
        BY <2>2 DEF Whole, Active, TrailingHole
      <4>2. Missing' = Missing
        BY <2>2, <4>1 DEF Missing
      <4> QED
        BY <2>2, <3>1, <4>1, <4>2 DEF Logged
    <3> QED
      BY <3>1, <3>2 DEF CleanRunPasses, PassedMeansLogged, Logged
  <2>4. CASE ~Valid(lines, scraps)
    <3>1. ~clean /\ verdict' = "failed"
      BY <2>1, <2>2, <2>4, CleanIsValid
    <3> QED
      BY <2>2, <3>1 DEF CleanRunPasses, PassedMeansLogged
  <2> QED
    BY <2>3, <2>4
<1>3. CASE ValidateFails
  BY <1>3 DEF ValidateFails, CleanRunPasses, PassedMeansLogged
<1>4. CASE ClientsNext /\ ~Validate /\ ~ValidateFails /\ ~UNCHANGED lvars
  <2>1. verdict \notin {"passed", "failed"}
    BY <1>4, ParentInvSteps
  <2>2. verdict' = verdict \/ verdict' \in {"aborted", "reported"}
    BY <1>4 DEF ClientsNext, Unlink, Join, ParentOpen, ParentOpenFails, Trim, WorkerStep, Start,
       StartFails, WorkerOpen, WorkerOpenFails, Number, Reserve, Inserted, InsertFails, Leave
  <2> QED
    BY <2>1, <2>2 DEF CleanRunPasses, PassedMeansLogged
<1> QED
  BY <1>1, <1>2, <1>3, <1>4

\* A verdict says what CleanRunPasses and PassedMeansLogged say, in every behaviour.
LEMMA VerdictsHold == ClientsSpec => [](CleanRunPasses /\ PassedMeansLogged)
<1> DEFINE Inv == CountInv /\ CleanRunPasses /\ PassedMeansLogged
<1>1. ClientsInit => Inv
  BY CountStarts DEF ClientsInit, CleanRunPasses, PassedMeansLogged
<1>2. Inv /\ [ClientsNext]_lvars => Inv'
  BY CountSteps, VerdictSteps
<1> QED
  BY <1>1, <1>2, PTL DEF ClientsSpec

\* A test of the log in which no call fails never reports a failure, for any number of
\* workers and messages: when the parent counts, every message is in the log once and
\* whole, and the numbers of eg/threads have no gap.
THEOREM CleanTestsPass == ClientsSpec => []CleanRunPasses
BY VerdictsHold, PTL

\* For any number of workers and messages: eg/forks, which counts lines only, passes
\* on a trimmed log with nothing missing or with the last message alone, however many
\* holes there are and wherever they fill the buffer of fgets; eg/threads passes only
\* if no thread that failed has left a whole message.
THEOREM PassedTestsLogged == ClientsSpec => []PassedMeansLogged
BY VerdictsHold, PTL

-----------------------------------------------------------------------------
(* NoPeeking *)

Sizes == MsgSizes \cup {d[1] : d \in Strays} \cup {0}
Lengths == MsgSizes \cup {d[2] : d \in Strays}
Datagram == [size : Sizes, len : Lengths, id : Nat]
Context == [group : Groups \cup {None}, port : {BoundPort, None}, queue : Seq(Datagram)]
PeekRecord == [target : Processes, inode : Groups \cup {None}, size : Sizes, seen : Nat,
               result : Seq(Datagram)]

PeekTypes ==
  /\ DOMAIN at = Processes /\ DOMAIN sockfd = Processes /\ DOMAIN fds = Processes
  /\ round \in [Processes -> {1, 2}]
  /\ group \in [Processes -> Groups \cup {None}]
  /\ ctxs \in [Processes -> Seq(Context)]
  /\ peek \in [Processes -> PeekRecord]
  /\ built \in [Processes -> Nat]
  /\ strays \in Nat

\* What is true of one process: it has a socket from its first send on; while it
\* peeks it has no result yet and, once that is made, a socket to receive on; between
\* the two receives the datagram first seen is still at the head of the queue.
PeekOf(p) ==
  /\ at[p] \in {"pause", "scan", "reuse", "bind", "join", "peek", "peek again"} => IsSocket(p)
  /\ at[p] = "modify" /\ round[p] = 2 => IsSocket(p)
  /\ at[p] \in {"scan", "reuse", "bind", "join", "peek", "peek again"} => peek[p].result = <<>>
  /\ at[p] \in {"reuse", "bind", "join", "peek", "peek again"} => ctxs[p] # <<>>
  /\ at[p] \in {"init", "position"} => round[p] = 1
  /\ at[p] = "peek again" => Queue(p) # <<>> /\ Head(Queue(p)).id = peek[p].seen
  /\ at[p] \in {"reuse", "bind", "join"} => Len(ctxs[p]) = built[p] + 1
  /\ at[p] \notin {"reuse", "bind", "join", "exited"} => Len(ctxs[p]) = built[p]
  /\ peek[p].result # <<>> => /\ Head(peek[p].result).id = peek[p].seen
                              /\ Head(peek[p].result).len >= peek[p].size

PeekInv == PeekTypes /\ \A p \in Processes : PeekOf(p)

\* Process q takes no part in a step.
Same(q) ==
  /\ at'[q] = at[q] /\ round'[q] = round[q] /\ sockfd'[q] = sockfd[q] /\ fds'[q] = fds[q]
  /\ ctxs'[q] = ctxs[q] /\ peek'[q] = peek[q] /\ built'[q] = built[q]

\* What is known of a process survives the steps of the others.
LEMMA SameStays ==
  ASSUME NEW q \in Processes, PeekOf(q), Same(q)
  PROVE  PeekOf(q)'
BY DEF PeekOf, Same, IsSocket, Queue

\* The receivers are bound to a port of the kernel's choice and the messages go to
\* port 0: nothing that a process sends arrives.
LEMMA NothingDelivered ==
  ASSUME PeekTypes, NEW a, NEW d
  PROVE  Deliver(a, d) = ctxs
<1>1. ASSUME NEW q \in Processes
      PROVE  [i \in DOMAIN ctxs[q] |->
                IF ctxs[q][i].group = a /\ ctxs[q][i].port = DestPort
                  THEN [ctxs[q][i] EXCEPT !.queue = Append(@, d)] ELSE ctxs[q][i]] = ctxs[q]
  <2>1. ctxs[q] \in Seq(Context)
    BY DEF PeekTypes
  <2>2. ctxs[q] \in [1 .. Len(ctxs[q]) -> Context]
    BY <2>1, LenProperties
  <2>3. \A i \in DOMAIN ctxs[q] : ctxs[q][i].port # DestPort
    BY <2>2 DEF Context, BoundPort, DestPort, None
  <2> QED
    BY <2>2, <2>3
<1> QED
  BY <1>1 DEF Deliver, PeekTypes

\* The socket of the peek under way.
LEMMA QueueType ==
  ASSUME PeekTypes, NEW p \in Processes, ctxs[p] # <<>>
  PROVE  /\ Len(ctxs[p]) \in Nat /\ Len(ctxs[p]) \in 1 .. Len(ctxs[p])
         /\ ctxs[p] \in Seq(Context)
         /\ ctxs[p][Len(ctxs[p])] \in Context /\ Queue(p) \in Seq(Datagram)
<1>1. ctxs[p] \in Seq(Context)
  BY DEF PeekTypes
<1>2. Len(ctxs[p]) \in Nat /\ Len(ctxs[p]) \in 1 .. Len(ctxs[p])
  BY <1>1, EmptySeq, LenProperties
<1>3. ctxs[p][Len(ctxs[p])] \in Context
  BY <1>1, <1>2, ElementOfSeq
<1> QED
  BY <1>1, <1>2, <1>3 DEF Queue, Context

\* A peek that has not begun is a peek without a result.
LEMMA NoPeekType ==
  ASSUME NEW p \in Processes
  PROVE  NoPeek(p) \in PeekRecord /\ NoPeek(p).result = <<>>
BY EmptySeq DEF NoPeek, PeekRecord, Sizes, None

\* A step of process p that leaves the sockets of its peeks alone, and its result
\* too or drops it.
LEMMA Moved ==
  ASSUME PeekInv, PeekTypes', NEW p \in Processes, PeekOf(p)', \A q \in Processes \ {p} : Same(q)
  PROVE  PeekInv'
<1>1. \A q \in Processes : PeekOf(q)'
  BY SameStays DEF PeekInv
<1> QED
  BY <1>1 DEF PeekInv

\* A process goes on in main.c by itself.
LEMMA ToMoves ==
  ASSUME PeekTypes, NEW p \in Processes, NEW step, To(p, step)
  PROVE  /\ DOMAIN at' = Processes /\ at'[p] = step
         /\ \A q \in Processes \ {p} : at'[q] = at[q]
BY DEF PeekTypes, To

\* After a peek comes the second message, or the end.
LEMMA AfterPeekMoves ==
  ASSUME PeekTypes, NEW p \in Processes, AfterPeek(p)
  PROVE  /\ DOMAIN at' = Processes /\ at'[p] \in {"modify", "cleanup"}
         /\ round' \in [Processes -> {1, 2}] /\ round'[p] = 2
         /\ \A q \in Processes \ {p} : at'[q] = at[q] /\ round'[q] = round[q]
BY DEF PeekTypes, AfterPeek, To

\* The sender is opened, or not.
LEMMA SenderSteps ==
  ASSUME PeekInv, NEW p \in Processes,
         SenderFails(p) \/ SenderOpens(p) \/ (\E limit \in Limits : Position(p, limit))
  PROVE  PeekInv'
<1>1. PeekTypes /\ PeekOf(p)
  BY DEF PeekInv
<1>2. /\ at[p] \in {"init", "position"} /\ \E step \in {"modify", "position"} : To(p, step)
      /\ UNCHANGED <<round, ctxs, peek, built, strays>>
  BY DEF SenderFails, SenderOpens, Position
<1>3. /\ DOMAIN at' = Processes /\ at'[p] \in {"modify", "position"}
      /\ \A q \in Processes \ {p} : at'[q] = at[q]
  BY <1>1, <1>2, ToMoves
<1>4. /\ DOMAIN sockfd' = Processes /\ DOMAIN fds' = Processes
      /\ group' \in [Processes -> Groups \cup {None}]
      /\ \A q \in Processes \ {p} : sockfd'[q] = sockfd[q] /\ fds'[q] = fds[q]
  <2>1. CASE SenderFails(p)
    BY <1>1, <2>1 DEF SenderFails, own, PeekTypes
  <2>2. CASE SenderOpens(p)
    BY <1>1, <2>2 DEF SenderOpens, PeekTypes
  <2>3. ASSUME NEW limit \in Limits, Position(p, limit)
        PROVE  /\ DOMAIN sockfd' = Processes /\ DOMAIN fds' = Processes
               /\ group' \in [Processes -> Groups \cup {None}]
               /\ \A q \in Processes \ {p} : sockfd'[q] = sockfd[q] /\ fds'[q] = fds[q]
    <3>1. \E n : sockfd' = [sockfd EXCEPT ![p] = n] /\ fds' = [fds EXCEPT ![p] = {n} \ {-1}]
      BY <2>3 DEF Position
    <3> QED
      BY <1>1, <2>3, <3>1 DEF Position, PeekTypes
  <2> QED
    BY <2>1, <2>2, <2>3
<1>5. round[p] = 1
  BY <1>1, <1>2 DEF PeekOf
<1>6. PeekTypes'
  BY <1>1, <1>2, <1>3, <1>4 DEF PeekTypes
<1>7. PeekOf(p)'
  <2>1. /\ round'[p] = 1
        /\ at'[p] \notin {"pause", "scan", "reuse", "bind", "join", "peek", "peek again"}
    BY <1>2, <1>3, <1>5
  <2>2. Len(ctxs'[p]) = built'[p]
    BY <1>1, <1>2 DEF PeekOf
  <2>3. peek'[p].result # <<>> => /\ Head(peek'[p].result).id = peek'[p].seen
                                  /\ Head(peek'[p].result).len >= peek'[p].size
    BY <1>1, <1>2 DEF PeekOf
  <2>4. at'[p] # "modify" \/ round'[p] # 2
    <3>1. 1 # 2
      OBVIOUS
    <3>2. round'[p] = 1
      BY <2>1
    <3> QED
      BY <3>1, <3>2, Zenon
  <2>5. /\ at'[p] \notin {"scan", "reuse", "bind", "join", "peek", "peek again"}
        /\ at'[p] \notin {"reuse", "bind", "join", "peek", "peek again"}
        /\ at'[p] # "peek again" /\ at'[p] \notin {"reuse", "bind", "join"}
    BY <2>1
  <2> QED
    BY <2>1, <2>2, <2>3, <2>4, <2>5, Zenon DEF PeekOf
<1>8. \A q \in Processes \ {p} : Same(q)
  BY <1>2, <1>3, <1>4 DEF Same
<1> QED
  BY <1>6, <1>7, <1>8, Moved

\* A message is sent, or is not.
LEMMA ModifySteps ==
  ASSUME PeekInv, NEW p \in Processes,
         (\E size \in MsgSizes : Modify(p, size)) \/ ModifyFails(p)
  PROVE  PeekInv'
<1>1. PeekTypes /\ PeekOf(p)
  BY DEF PeekInv
<1>2. UNCHANGED ctxs
  BY <1>1, NothingDelivered DEF Modify, ModifyFails
<1>3. at[p] = "modify" /\ UNCHANGED <<round, own, peek, built, strays>>
  BY DEF Modify, ModifyFails
<1>4. \E step \in {"pause", "cleanup"} : To(p, step) /\ (step = "pause" => IsSocket(p))
  <2>1. CASE \E size \in MsgSizes : Modify(p, size)
    BY <2>1 DEF Modify
  <2>2. CASE ModifyFails(p)
    <3>1. round[p] # 1 => IsSocket(p)
      BY <1>1, <1>3 DEF PeekTypes, PeekOf
    <3> QED
      BY <2>2, <3>1 DEF ModifyFails
  <2> QED
    BY <2>1, <2>2
<1>5. /\ DOMAIN at' = Processes /\ at'[p] \in {"pause", "cleanup"}
      /\ at'[p] = "pause" => IsSocket(p)
      /\ \A q \in Processes \ {p} : at'[q] = at[q]
  BY <1>1, <1>4, ToMoves
<1>6. IsSocket(p)' <=> IsSocket(p)
  BY <1>3 DEF IsSocket, own
<1>7. PeekTypes'
  BY <1>1, <1>2, <1>3, <1>5 DEF PeekTypes, own
<1>8. PeekOf(p)'
  BY <1>1, <1>2, <1>3, <1>5, <1>6 DEF PeekOf
<1>9. \A q \in Processes \ {p} : Same(q)
  BY <1>2, <1>3, <1>5 DEF Same, own
<1> QED
  BY <1>7, <1>8, <1>9, Moved

\* The peek starts with no result, on a socket of the process.
LEMMA InodeSteps ==
  ASSUME PeekInv, NEW p \in Processes, NEW q \in Processes, PeekInode(p, q)
  PROVE  PeekInv'
<1>1. PeekTypes /\ PeekOf(p)
  BY DEF PeekInv
<1>2. at[p] = "pause" /\ To(p, "scan") /\ UNCHANGED <<round, own, ctxs, built, strays>>
  BY DEF PeekInode
<1>3. /\ DOMAIN at' = Processes /\ at'[p] = "scan"
      /\ \A x \in Processes \ {p} : at'[x] = at[x]
  BY <1>1, <1>2, ToMoves
<1> DEFINE inode == IF sockfd[p] \in fds[q] THEN group[q] ELSE None
           rec == [NoPeek(q) EXCEPT !.inode = inode]
<1>4. inode \in Groups \cup {None}
  BY <1>1 DEF PeekTypes
<1>5. peek' = [peek EXCEPT ![p] = rec]
  BY DEF PeekInode
<1> HIDE DEF inode
<1>6. rec \in PeekRecord /\ rec.result = <<>>
  BY <1>4, NoPeekType DEF PeekRecord
<1> HIDE DEF rec
<1>7. /\ peek' \in [Processes -> PeekRecord] /\ peek'[p].result = <<>>
      /\ \A x \in Processes \ {p} : peek'[x] = peek[x]
  BY <1>1, <1>5, <1>6 DEF PeekTypes
<1>8. IsSocket(p)'
  BY <1>1, <1>2 DEF PeekOf, IsSocket, own
<1>9. PeekTypes'
  BY <1>1, <1>2, <1>3, <1>7 DEF PeekTypes, own
<1>10. PeekOf(p)'
  BY <1>1, <1>2, <1>3, <1>7, <1>8 DEF PeekOf
<1>11. \A x \in Processes \ {p} : Same(x)
  BY <1>2, <1>3, <1>7 DEF Same, own
<1> QED
  BY <1>9, <1>10, <1>11, Moved

\* A peek that ends: with nothing, or with a result that agrees with what was seen.
LEMMA PeekEnds ==
  ASSUME PeekInv, NEW p \in Processes, at[p] \in {"scan", "peek", "peek again"},
         AfterPeek(p), UNCHANGED <<own, ctxs, built, strays>>,
         NEW rec \in PeekRecord, peek' = [peek EXCEPT ![p] = rec],
         rec.result # <<>> => Head(rec.result).id = rec.seen /\ Head(rec.result).len >= rec.size
  PROVE  PeekInv'
<1>1. PeekTypes /\ PeekOf(p)
  BY DEF PeekInv
<1>2. /\ DOMAIN at' = Processes /\ at'[p] \in {"modify", "cleanup"}
      /\ round' \in [Processes -> {1, 2}]
      /\ \A q \in Processes \ {p} : at'[q] = at[q] /\ round'[q] = round[q]
  BY <1>1, AfterPeekMoves
<1>3. /\ peek' \in [Processes -> PeekRecord] /\ peek'[p] = rec
      /\ \A q \in Processes \ {p} : peek'[q] = peek[q]
  BY <1>1 DEF PeekTypes
<1>4. IsSocket(p)'
  BY <1>1 DEF PeekOf, IsSocket, own
<1>5. PeekTypes'
  BY <1>1, <1>2, <1>3 DEF PeekTypes, own
<1>6. PeekOf(p)'
  BY <1>1, <1>2, <1>3, <1>4 DEF PeekOf
<1>7. \A q \in Processes \ {p} : Same(q)
  BY <1>2, <1>3 DEF Same, own
<1> QED
  BY <1>5, <1>6, <1>7, Moved

\* A peek that found no line, no socket or no datagram ends without a result.
LEMMA NothingSteps ==
  ASSUME PeekInv, NEW p \in Processes, ContextFails(p) \/ PeekNothing(p)
  PROVE  PeekInv'
<1>1. /\ at[p] \in {"scan", "peek", "peek again"} /\ AfterPeek(p)
      /\ UNCHANGED <<own, ctxs, built, strays>> /\ peek' = [peek EXCEPT ![p] = NoPeek(p)]
  BY DEF ContextFails, PeekNothing
<1> QED
  BY <1>1, NoPeekType, PeekEnds

\* The second receive rejects the datagram, or returns the one seen first.
LEMMA SecondSteps ==
  ASSUME PeekInv, NEW p \in Processes, SecondRecv(p)
  PROVE  PeekInv'
<1>1. PeekTypes /\ PeekOf(p)
  BY DEF PeekInv
<1>2. /\ at[p] = "peek again" /\ AfterPeek(p) /\ Queue(p) # <<>>
      /\ UNCHANGED <<own, ctxs, built, strays>>
  BY DEF SecondRecv
<1>3. CASE peek' = [peek EXCEPT ![p] = NoPeek(p)]
  BY <1>2, <1>3, NoPeekType, PeekEnds
<1> DEFINE d == Head(Queue(p))
           rec == [peek[p] EXCEPT !.target = p, !.inode = None, !.result = <<d>>]
<1>4. CASE Accepts(peek[p].size, d) /\ peek' = [peek EXCEPT ![p] = rec]
  <2>1. ctxs[p] # <<>> /\ d.id = peek[p].seen
    BY <1>1, <1>2 DEF PeekOf
  <2>2. Queue(p) \in Seq(Datagram)
    BY <1>1, <2>1, QueueType
  <2>3. d \in Datagram
    BY <1>2, <2>2, HeadTailProperties
  <2>4. d.len >= peek[p].size
    BY <1>4 DEF Accepts
  <2> HIDE DEF d
  <2>5. <<d>> \in Seq(Datagram) /\ Head(<<d>>) = d
    BY <2>3
  <2> DEFINE res == <<d>>
  <2> HIDE DEF res
  <2>6. peek[p] \in PeekRecord /\ res \in Seq(Datagram)
    BY <1>1, <2>5 DEF PeekTypes, res
  <2> DEFINE half == [peek[p] EXCEPT !.target = p, !.inode = None]
  <2>7. half \in PeekRecord /\ half.seen = peek[p].seen /\ half.size = peek[p].size
    BY <2>6 DEF PeekRecord
  <2>8. rec = [half EXCEPT !.result = res]
    BY Zenon DEF res
  <2> HIDE DEF half, rec
  <2>9. /\ rec \in PeekRecord /\ rec.result = res
        /\ rec.seen = peek[p].seen /\ rec.size = peek[p].size
    BY <2>6, <2>7, <2>8 DEF PeekRecord
  <2>10. Head(rec.result).id = rec.seen /\ Head(rec.result).len >= rec.size
    BY <2>1, <2>4, <2>5, <2>9 DEF res
  <2> QED
    BY <1>2, <1>4, <2>9, <2>10, PeekEnds
<1> QED
  BY <1>3, <1>4 DEF SecondRecv

\* The socket of a context: one more, and not yet a context that was built.
LEMMA SocketSteps ==
  ASSUME PeekInv, NEW p \in Processes, MakeSocket(p)
  PROVE  PeekInv'
<1>1. PeekTypes /\ PeekOf(p)
  BY DEF PeekInv
<1>2. at[p] = "scan" /\ To(p, "reuse") /\ UNCHANGED <<round, own, peek, built, strays>>
  BY DEF MakeSocket
<1>3. /\ DOMAIN at' = Processes /\ at'[p] = "reuse"
      /\ \A q \in Processes \ {p} : at'[q] = at[q]
  BY <1>1, <1>2, ToMoves
<1> DEFINE c == [group |-> None, port |-> None, queue |-> <<>>]
           s == ctxs[p]
<1>4. c \in Context /\ s \in Seq(Context)
  <2>1. <<>> \in Seq(Datagram)
    BY EmptySeq
  <2> QED
    BY <1>1, <2>1 DEF Context, PeekTypes
<1>5. ctxs' = [ctxs EXCEPT ![p] = Append(s, c)]
  BY DEF MakeSocket
<1> HIDE DEF c, s
<1>6. /\ Append(s, c) \in Seq(Context) /\ Len(Append(s, c)) = Len(s) + 1
      /\ Append(s, c) # <<>>
  BY <1>4, AppendProperties
<1>7. /\ ctxs' \in [Processes -> Seq(Context)] /\ ctxs'[p] = Append(s, c)
      /\ \A q \in Processes \ {p} : ctxs'[q] = ctxs[q]
  BY <1>1, <1>5, <1>6 DEF PeekTypes
<1>8. Len(ctxs'[p]) = built'[p] + 1 /\ ctxs'[p] # <<>>
  BY <1>1, <1>2, <1>6, <1>7 DEF PeekOf, s
<1>9. IsSocket(p)' /\ peek'[p].result = <<>>
  BY <1>1, <1>2 DEF PeekOf, IsSocket, own
<1>10. PeekTypes'
  BY <1>1, <1>2, <1>3, <1>7 DEF PeekTypes, own
<1>11. PeekOf(p)'
  BY <1>3, <1>8, <1>9 DEF PeekOf
<1>12. \A q \in Processes \ {p} : Same(q)
  BY <1>2, <1>3, <1>7 DEF Same, own
<1> QED
  BY <1>10, <1>11, <1>12, Moved

\* A call after socket failed: the socket is closed, and what is left are the
\* contexts that were built.
LEMMA CloseSteps ==
  ASSUME PeekInv, NEW p \in Processes, at[p] \in {"reuse", "bind", "join"}, CloseAndFail(p)
  PROVE  PeekInv'
<1>1. PeekTypes /\ PeekOf(p)
  BY DEF PeekInv
<1>2. /\ DOMAIN at' = Processes /\ at'[p] \in {"modify", "cleanup"}
      /\ round' \in [Processes -> {1, 2}]
      /\ \A q \in Processes \ {p} : at'[q] = at[q] /\ round'[q] = round[q]
  BY <1>1, AfterPeekMoves DEF CloseAndFail
<1>3. UNCHANGED <<own, built, strays>> /\ peek' = [peek EXCEPT ![p] = NoPeek(p)]
  BY DEF CloseAndFail
<1>4. /\ peek' \in [Processes -> PeekRecord] /\ peek'[p].result = <<>>
      /\ \A q \in Processes \ {p} : peek'[q] = peek[q]
  BY <1>1, <1>3, NoPeekType DEF PeekTypes
<1> DEFINE s == ctxs[p]
           t == SubSeq(s, 1, Len(s) - 1)
<1>5. s # <<>> /\ Len(s) = built[p] + 1 /\ built[p] \in Nat /\ s \in Seq(Context)
  BY <1>1 DEF PeekOf, PeekTypes
<1>6. ctxs' = [ctxs EXCEPT ![p] = t]
  BY DEF CloseAndFail
<1>7. t \in Seq(Context) /\ Len(t) = built[p]
  <2>1. /\ 1 \in 1 .. Len(s) + 1 /\ Len(s) - 1 \in 1 - 1 .. Len(s)
    BY <1>5
  <2> HIDE DEF s
  <2> QED
    BY <1>5, <2>1, SubSeqProperties
<1> HIDE DEF t
<1>8. /\ ctxs' \in [Processes -> Seq(Context)] /\ ctxs'[p] = t
      /\ \A q \in Processes \ {p} : ctxs'[q] = ctxs[q]
  BY <1>1, <1>6, <1>7 DEF PeekTypes
<1>9. IsSocket(p)'
  BY <1>1, <1>3 DEF PeekOf, IsSocket, own
<1>10. PeekTypes'
  BY <1>1, <1>2, <1>3, <1>4, <1>8 DEF PeekTypes, own
<1>11. PeekOf(p)'
  <2>1. Len(ctxs'[p]) = built'[p]
    BY <1>3, <1>7, <1>8
  <2> QED
    BY <1>2, <1>4, <1>9, <2>1 DEF PeekOf
<1>12. \A q \in Processes \ {p} : Same(q)
  BY <1>2, <1>3, <1>4, <1>8 DEF Same, own
<1> QED
  BY <1>10, <1>11, <1>12, Moved

\* The socket gets its port, or its group.
LEMMA LastReplaced ==
  ASSUME PeekTypes, NEW p \in Processes, ctxs[p] # <<>>, NEW c \in Context,
         ctxs' = [ctxs EXCEPT ![p] = [ctxs[p] EXCEPT ![Len(ctxs[p])] = c]]
  PROVE  /\ ctxs' \in [Processes -> Seq(Context)]
         /\ Len(ctxs'[p]) = Len(ctxs[p]) /\ ctxs'[p] # <<>>
         /\ \A q \in Processes \ {p} : ctxs'[q] = ctxs[q]
<1> DEFINE s == ctxs[p]
           n == Len(s)
           t == [s EXCEPT ![n] = c]
<1>1. n \in Nat /\ n \in 1 .. n /\ s \in Seq(Context)
  BY QueueType
<1>2. t \in Seq(Context) /\ Len(t) = n
  <2>1. n = Len(s)
    OBVIOUS
  <2> HIDE DEF s, n
  <2> QED
    BY <1>1, <2>1, ExceptSeq
<1> HIDE DEF t
<1>3. t # <<>>
  BY <1>1, <1>2, EmptySeq
<1> QED
  BY <1>2, <1>3 DEF PeekTypes, t

\* The steps of the initialization that succeed; the last one builds the context.
LEMMA SetupSteps ==
  ASSUME PeekInv, NEW p \in Processes, ReuseAddr(p) \/ BindSocket(p) \/ JoinGroup(p)
  PROVE  PeekInv'
<1>1. PeekTypes /\ PeekOf(p)
  BY DEF PeekInv
<1>2. at[p] \in {"reuse", "bind", "join"}
  BY DEF ReuseAddr, BindSocket, JoinGroup
<1>3. CASE CloseAndFail(p)
  BY <1>2, <1>3, CloseSteps
<1>4. CASE ~CloseAndFail(p)
  <2> DEFINE s == ctxs[p]
             e == s[Len(s)]
  <2>1. /\ s # <<>> /\ Len(s) = built[p] + 1 /\ built[p] \in Nat
        /\ e \in Context /\ Len(s) \in 1 .. Len(s) /\ s \in Seq(Context)
    BY <1>1, <1>2, QueueType DEF PeekOf, PeekTypes
  <2>2. /\ \E step \in {"bind", "join", "peek"} : To(p, step)
        /\ UNCHANGED <<round, own, peek, strays>>
    BY <1>4 DEF ReuseAddr, BindSocket, JoinGroup
  <2>3. /\ DOMAIN at' = Processes
        /\ \A q \in Processes \ {p} : at'[q] = at[q]
    BY <1>1, <2>2, ToMoves
  <2>4. /\ ctxs' \in [Processes -> Seq(Context)]
        /\ Len(ctxs'[p]) = Len(s) /\ ctxs'[p] # <<>>
        /\ \A q \in Processes \ {p} : ctxs'[q] = ctxs[q]
    <3>1. CASE ctxs' = ctxs
      BY <1>1, <2>1, <3>1 DEF PeekTypes
    <3>2. CASE BindSocket(p)
      <4>1. ctxs' = [ctxs EXCEPT ![p] = [s EXCEPT ![Len(s)] = [e EXCEPT !.port = BoundPort]]]
        BY <1>4, <2>1, <3>2 DEF BindSocket
      <4> HIDE DEF e
      <4>2. [e EXCEPT !.port = BoundPort] \in Context
        BY <2>1 DEF Context
      <4> QED
        BY <1>1, <2>1, <4>1, <4>2, LastReplaced
    <3>3. CASE JoinGroup(p)
      <4>1. ctxs' = [ctxs EXCEPT ![p] = [s EXCEPT ![Len(s)] = [e EXCEPT !.group = peek[p].inode]]]
        BY <1>4, <2>1, <3>3 DEF JoinGroup
      <4>2. PICK g \in Groups \cup {None} : g = peek[p].inode
        BY <1>1 DEF PeekTypes, PeekRecord
      <4>3. ctxs' = [ctxs EXCEPT ![p] = [s EXCEPT ![Len(s)] = [e EXCEPT !.group = g]]]
        BY <4>1, <4>2, Zenon
      <4> HIDE DEF e
      <4>4. [e EXCEPT !.group = g] \in Context
        BY <2>1 DEF Context
      <4> QED
        BY <1>1, <2>1, <4>3, <4>4, LastReplaced
    <3> QED
      BY <1>4, <3>1, <3>2, <3>3 DEF ReuseAddr
  <2>5. /\ built' \in [Processes -> Nat]
        /\ \A q \in Processes \ {p} : built'[q] = built[q]
        /\ \/ at'[p] \in {"bind", "join"} /\ built'[p] = built[p]
           \/ at'[p] = "peek" /\ built'[p] = built[p] + 1
    <3>1. CASE JoinGroup(p)
      <4>1. built' = [built EXCEPT ![p] = built[p] + 1] /\ To(p, "peek")
        BY <1>4, <3>1 DEF JoinGroup
      <4>2. at'[p] = "peek"
        BY <1>1, <4>1, ToMoves
      <4> QED
        BY <1>1, <4>1, <4>2 DEF PeekTypes
    <3>2. CASE ReuseAddr(p) \/ BindSocket(p)
      <4>1. UNCHANGED built /\ \E step \in {"bind", "join"} : To(p, step)
        BY <1>4, <3>2 DEF ReuseAddr, BindSocket
      <4>2. at'[p] \in {"bind", "join"}
        BY <1>1, <4>1, ToMoves
      <4> QED
        BY <1>1, <4>1, <4>2 DEF PeekTypes
    <3> QED
      BY <3>1, <3>2
  <2>6. IsSocket(p)' /\ peek'[p].result = <<>>
    BY <1>1, <1>2, <2>2 DEF PeekOf, IsSocket, own
  <2>7. PeekTypes'
    BY <1>1, <2>2, <2>3, <2>4, <2>5 DEF PeekTypes, own
  <2>8. PeekOf(p)'
    BY <2>1, <2>4, <2>5, <2>6 DEF PeekOf
  <2>9. \A q \in Processes \ {p} : Same(q)
    BY <2>2, <2>3, <2>4, <2>5 DEF Same, own
  <2> QED
    BY <2>7, <2>8, <2>9, Moved
<1> QED
  BY <1>3, <1>4

\* The first receive notes the datagram at the head of the queue and leaves it there.
LEMMA FirstSteps ==
  ASSUME PeekInv, NEW p \in Processes, FirstRecv(p)
  PROVE  PeekInv'
<1>1. PeekTypes /\ PeekOf(p)
  BY DEF PeekInv
<1>2. /\ at[p] = "peek" /\ To(p, "peek again") /\ Queue(p) # <<>>
      /\ UNCHANGED <<round, own, ctxs, built, strays>>
  BY DEF FirstRecv
<1>3. /\ DOMAIN at' = Processes /\ at'[p] = "peek again"
      /\ \A q \in Processes \ {p} : at'[q] = at[q]
  BY <1>1, <1>2, ToMoves
<1>4. ctxs[p] # <<>> /\ peek[p].result = <<>>
  BY <1>1, <1>2 DEF PeekOf
<1> DEFINE d == Head(Queue(p))
<1>5. d \in Datagram
  <2>1. Queue(p) \in Seq(Datagram)
    BY <1>1, <1>4, QueueType
  <2> QED
    BY <1>2, <2>1, HeadTailProperties
<1>6. PICK sz \in ClaimedSizes(d) : peek' = [peek EXCEPT ![p].size = sz, ![p].seen = d.id]
  BY DEF FirstRecv
<1> HIDE DEF d
<1>7. sz \in Sizes /\ d.id \in Nat
  BY <1>5 DEF ClaimedSizes, Datagram, Sizes
<1> DEFINE rec == [peek[p] EXCEPT !.size = sz, !.seen = d.id]
<1>8. peek' = [peek EXCEPT ![p] = rec]
  BY <1>1, <1>6 DEF PeekTypes
<1>9. rec \in PeekRecord /\ rec.result = peek[p].result /\ rec.seen = d.id
  <2>1. PICK i \in Nat : i = d.id
    BY <1>7
  <2> DEFINE half == [peek[p] EXCEPT !.size = sz]
  <2>2. half \in PeekRecord /\ half.result = peek[p].result
    <3>1. PICK r \in PeekRecord : r = peek[p]
      BY <1>1 DEF PeekTypes
    <3>2. half = [r EXCEPT !.size = sz]
      BY <3>1, Zenon
    <3> HIDE DEF half
    <3>3. PICK z \in Sizes : z = sz
      BY <1>7
    <3>4. half = [r EXCEPT !.size = z]
      BY <3>2, <3>3
    <3> QED
      BY <3>1, <3>4 DEF PeekRecord
  <2>3. rec = [half EXCEPT !.seen = i]
    BY <2>1, Zenon
  <2> HIDE DEF half, rec
  <2> QED
    BY <2>1, <2>2, <2>3 DEF PeekRecord
<1> HIDE DEF rec
<1>10. /\ peek' \in [Processes -> PeekRecord] /\ peek'[p] = rec
       /\ \A q \in Processes \ {p} : peek'[q] = peek[q]
  BY <1>1, <1>8, <1>9 DEF PeekTypes
<1>11. Queue(p)' # <<>> /\ Head(Queue(p)').id = peek'[p].seen
  BY <1>2, <1>9, <1>10 DEF Queue, d
<1>12. IsSocket(p)'
  BY <1>1, <1>2 DEF PeekOf, IsSocket, own
<1>13. Len(ctxs'[p]) = built'[p] /\ ctxs'[p] # <<>> /\ peek'[p].result = <<>>
  BY <1>1, <1>2, <1>4, <1>9, <1>10 DEF PeekOf
<1>14. PeekTypes'
  BY <1>1, <1>2, <1>3, <1>10 DEF PeekTypes, own
<1>15. PeekOf(p)'
  BY <1>3, <1>11, <1>12, <1>13 DEF PeekOf
<1>16. \A q \in Processes \ {p} : Same(q)
  BY <1>2, <1>3, <1>10 DEF Same, own
<1> QED
  BY <1>14, <1>15, <1>16, Moved

\* Cleaning up closes the sender; leaving main closes the rest.
LEMMA ClosingSteps ==
  ASSUME PeekInv, NEW p \in Processes, Cleanup(p) \/ Exit(p)
  PROVE  PeekInv'
<1>1. PeekTypes /\ PeekOf(p)
  BY DEF PeekInv
<1>2. CASE Cleanup(p)
  <2>1. at[p] = "cleanup" /\ To(p, "closed") /\ UNCHANGED <<round, group, ctxs, peek, built, strays>>
    BY <1>2 DEF Cleanup
  <2>2. /\ DOMAIN at' = Processes /\ at'[p] = "closed"
        /\ \A q \in Processes \ {p} : at'[q] = at[q]
    BY <1>1, <2>1, ToMoves
  <2>3. /\ DOMAIN sockfd' = Processes /\ DOMAIN fds' = Processes
        /\ \A q \in Processes \ {p} : sockfd'[q] = sockfd[q] /\ fds'[q] = fds[q]
    BY <1>1, <1>2 DEF Cleanup, PeekTypes
  <2>4. PeekTypes'
    BY <1>1, <2>1, <2>2, <2>3 DEF PeekTypes
  <2>5. PeekOf(p)'
    BY <1>1, <2>1, <2>2 DEF PeekOf
  <2>6. \A q \in Processes \ {p} : Same(q)
    BY <2>1, <2>2, <2>3 DEF Same
  <2> QED
    BY <2>4, <2>5, <2>6, Moved
<1>3. CASE Exit(p)
  <2>1. /\ To(p, "exited") /\ UNCHANGED <<round, own, peek, built, strays>>
        /\ ctxs' = [ctxs EXCEPT ![p] = <<>>]
    BY <1>3 DEF Exit
  <2>2. /\ DOMAIN at' = Processes /\ at'[p] = "exited"
        /\ \A q \in Processes \ {p} : at'[q] = at[q]
    BY <1>1, <2>1, ToMoves
  <2>3. /\ ctxs' \in [Processes -> Seq(Context)]
        /\ \A q \in Processes \ {p} : ctxs'[q] = ctxs[q]
    BY <1>1, <2>1, EmptySeq DEF PeekTypes
  <2>4. PeekTypes'
    BY <1>1, <2>1, <2>2, <2>3 DEF PeekTypes, own
  <2>5. PeekOf(p)'
    BY <1>1, <2>1, <2>2 DEF PeekOf
  <2>6. \A q \in Processes \ {p} : Same(q)
    BY <2>1, <2>2, <2>3 DEF Same, own
  <2> QED
    BY <2>4, <2>5, <2>6, Moved
<1> QED
  BY <1>2, <1>3

\* A datagram from elsewhere goes to the end of the queue.
LEMMA StraySteps ==
  ASSUME PeekInv, NEW p \in Processes, NEW d \in Strays, Stray(p, d)
  PROVE  PeekInv'
<1>1. PeekTypes /\ PeekOf(p)
  BY DEF PeekInv
<1>2. /\ ctxs[p] # <<>> /\ strays' = strays + 1 /\ strays' \in Nat
      /\ UNCHANGED <<loc, own, peek, built>>
  BY <1>1 DEF Stray, PeekTypes
<1> DEFINE dg == [size |-> d[1], len |-> d[2], id |-> strays']
           s == ctxs[p]
           n == Len(s)
           q0 == Append(s[n].queue, dg)
           c == [s[n] EXCEPT !.queue = q0]
<1>3. ctxs' = [ctxs EXCEPT ![p] = [s EXCEPT ![n].queue = Append(@, dg)]]
  BY DEF Stray
<1>4. dg \in Datagram
  BY <1>2 DEF Datagram, Sizes, Lengths
<1>5. /\ n \in Nat /\ n \in 1 .. n /\ s \in Seq(Context)
      /\ s[n] \in Context /\ s[n].queue \in Seq(Datagram)
  BY <1>1, <1>2, QueueType DEF Queue
<1> HIDE DEF dg
<1>6. /\ q0 \in Seq(Datagram) /\ q0 # <<>>
      /\ s[n].queue # <<>> => Head(q0) = Head(s[n].queue)
  <2> DEFINE k == s[n].queue
  <2>1. k \in Seq(Datagram) /\ q0 = Append(k, dg)
    BY <1>5
  <2> HIDE DEF k, q0
  <2>2. k # <<>> => Head(q0) = Head(k)
    BY <1>4, <2>1
  <2> QED
    BY <1>4, <2>1, <2>2, AppendProperties DEF k
<1>7. [s EXCEPT ![n].queue = Append(@, dg)] = [s EXCEPT ![n] = c]
  BY <1>5
<1> HIDE DEF q0
<1>8. c \in Context /\ c.queue = q0
  <2> DEFINE e == s[n]
  <2>1. e \in Context /\ c = [e EXCEPT !.queue = q0]
    BY <1>5
  <2> HIDE DEF e, c
  <2> QED
    BY <1>6, <2>1 DEF Context
<1>9. /\ [s EXCEPT ![n] = c] \in Seq(Context) /\ Len([s EXCEPT ![n] = c]) = n
      /\ [s EXCEPT ![n] = c][n] = c
  <2>1. n = Len(s)
    OBVIOUS
  <2> HIDE DEF s, n, c
  <2> QED
    BY <1>5, <1>8, <2>1, ExceptSeq
<1> DEFINE t == [s EXCEPT ![n] = c]
<1>10. /\ t \in Seq(Context) /\ Len(t) = n /\ t[n] = c /\ ctxs' = [ctxs EXCEPT ![p] = t]
  BY <1>3, <1>7, <1>9
<1> HIDE DEF t, c
<1>11. /\ ctxs' \in [Processes -> Seq(Context)] /\ ctxs'[p] = t
       /\ \A q \in Processes \ {p} : ctxs'[q] = ctxs[q]
  BY <1>1, <1>10 DEF PeekTypes
<1>12. /\ Len(ctxs'[p]) = Len(ctxs[p]) /\ Queue(p)' = q0 /\ ctxs'[p] # <<>>
  BY <1>5, <1>8, <1>10, <1>11 DEF Queue
<1>13. PeekTypes'
  BY <1>1, <1>2, <1>11 DEF PeekTypes, loc, own
<1>14. PeekOf(p)'
  <2>1. at[p] = "peek again" => Queue(p)' # <<>> /\ Head(Queue(p)').id = peek[p].seen
    BY <1>1, <1>6, <1>12 DEF PeekOf, Queue
  <2>2. IsSocket(p)' <=> IsSocket(p)
    BY <1>2 DEF IsSocket, own
  <2> QED
    BY <1>1, <1>2, <1>12, <2>1, <2>2 DEF PeekOf, loc
<1>15. \A q \in Processes \ {p} : Same(q)
  BY <1>2, <1>11 DEF Same, loc, own
<1> QED
  BY <1>13, <1>14, <1>15, Moved

\* The invariant is inductive.
LEMMA PeekSteps == PeekInv /\ [PeekNext]_nvars => PeekInv'
<1> SUFFICES ASSUME PeekInv, [PeekNext]_nvars
             PROVE  PeekInv'
  OBVIOUS
<1>1. CASE UNCHANGED nvars
  BY <1>1 DEF PeekInv, PeekTypes, PeekOf, IsSocket, Queue, nvars, loc, own
<1>2. ASSUME NEW p \in Processes, Step(p)
      PROVE  PeekInv'
  BY <1>2, SenderSteps, ModifySteps, InodeSteps, NothingSteps, SecondSteps, SocketSteps, SetupSteps,
     FirstSteps, ClosingSteps DEF Step
<1> QED
  BY <1>1, <1>2, StraySteps DEF PeekNext

\* No process has begun.
LEMMA PeekStarts == PeekInit => PeekInv
<1> SUFFICES ASSUME PeekInit
             PROVE  PeekInv
  OBVIOUS
<1>1. PeekTypes
  BY EmptySeq, NoPeekType DEF PeekInit, PeekTypes
<1>2. ASSUME NEW p \in Processes
      PROVE  PeekOf(p)
  <2>1. at[p] = "init" /\ round[p] = 1 /\ ctxs[p] = <<>> /\ built[p] = 0 /\ peek[p].result = <<>>
    BY NoPeekType DEF PeekInit
  <2> QED
    BY <2>1 DEF PeekOf
<1> QED
  BY <1>1, <1>2 DEF PeekInv

\* Although np_socket_init reports success when it failed, no process of any number
\* gets past its first message without a socket.
THEOREM SenderHasSocket == PeekSpec => []SentNeedsSocket
<1>1. PeekInv => SentNeedsSocket
  BY DEF PeekInv, PeekOf, SentNeedsSocket, SettingUp
<1> QED
  BY <1>1, PeekStarts, PeekSteps, PTL DEF PeekSpec

\* Whatever arrives between the two receives of a peek, and from whomever, the result
\* is one datagram, the one whose snowflake was read first, and as long as it said.
THEOREM PeekReadsOneDatagram == PeekSpec => []ResultIsOneDatagram
<1>1. PeekInv => ResultIsOneDatagram
  BY DEF PeekInv, PeekOf, ResultIsOneDatagram
<1> QED
  BY <1>1, PeekStarts, PeekSteps, PTL DEF PeekSpec

\* Whichever calls of an initialization failed, a running process holds exactly one
\* open socket for every context it built, and the one it is setting up.
THEOREM EveryContextLeaks == PeekSpec => []LeaksAccounted
<1>1. ASSUME PeekInv, NEW p \in Processes, at[p] # "exited"
      PROVE  Len(ctxs[p]) = built[p] + (IF SettingUp(p) THEN 1 ELSE 0)
  <2>1. PeekOf(p) /\ built[p] \in Nat
    BY <1>1 DEF PeekInv, PeekTypes
  <2>2. CASE SettingUp(p)
    <3>1. Len(ctxs[p]) = built[p] + 1
      BY <2>1, <2>2 DEF PeekOf, SettingUp
    <3> QED
      BY <2>2, <3>1
  <2>3. CASE ~SettingUp(p)
    <3>1. Len(ctxs[p]) = built[p]
      BY <1>1, <2>1, <2>3 DEF PeekOf, SettingUp
    <3> QED
      BY <2>1, <2>3, <3>1
  <2> QED
    BY <2>2, <2>3
<1>2. PeekInv => LeaksAccounted
  BY <1>1 DEF LeaksAccounted
<1> QED
  BY <1>2, PeekStarts, PeekSteps, PTL DEF PeekSpec
=============================================================================
