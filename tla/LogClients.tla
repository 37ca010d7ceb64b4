----------------------------- MODULE LogClients -----------------------------
(***************************************************************************)
(* The programs that use the log: fastlog/eg/forks, eg/threads and         *)
(* eg/vm_reader, and the benchmark of write_append, which also appends     *)
(* with plain system calls.  Workers open the log, insert Messages         *)
(* messages each and leave; the parent waits for them, trims the log and   *)
(* validates it.                                                           *)
(*                                                                         *)
(* The log is used here as AppendLog describes it: an insert reserves a    *)
(* place after all others and then fills it or leaves a hole: NUL bytes,   *)
(* or the first piece of the message and NUL bytes.  A line is a message;  *)
(* a hole has no newline, so it runs into the line that follows it.        *)
(***************************************************************************)
EXTENDS Integers, Sequences, FiniteSets, SequencesExt

CONSTANTS
  Workers,
  Messages     \* messages of each worker

ASSUME ClientsAssumption ==
  /\ Messages \in Nat \ {0}
  /\ IsFiniteSet(Workers) /\ Workers # {} /\ "earlier run" \notin Workers

Programs == {"forks", "threads", "reader", "bench mmlog", "bench write"}

VARIABLES
  prog,        \* which program runs
  meta,        \* the metadata file exists
  data,        \* the data file: missing, shorter than a chunk, or usable
  log,         \* its content
  seqno,       \* global_seq_counter of eg/threads
  parent,      \* where the parent is
  wk,          \* each worker: step, messages left, its place and number, success
  trimmed,     \* the file ends at the cursor
  verdict,     \* what the program reports
  clean,       \* history: no call has failed
  cut          \* history: a trim ran under an insert

disk == <<meta, data>>
lvars == <<prog, disk, log, seqno, parent, wk, trimmed, verdict, clean, cut>>

Old == [by |-> "earlier run", seq |-> 0, whole |-> TRUE]

\* eg/vm_reader has one thread only.
Active == IF prog = "reader" THEN {CHOOSE w \in Workers : TRUE} ELSE Workers

\* Nothing is there, or what an earlier run of the program has left.
ClientsInit ==
  /\ prog \in Programs
  /\ \/ meta = FALSE /\ data = "missing" /\ log = <<>>
     \/ meta = TRUE /\ data \in {"short", "usable"} /\ log = <<Old>>
  /\ seqno = 0
  /\ parent = "unlink"
  /\ wk = [w \in Workers |-> [at |-> "unborn", left |-> Messages, place |-> 0, seq |-> 0, ok |-> FALSE]]
  /\ trimmed = FALSE /\ verdict = "none" /\ clean = TRUE /\ cut = FALSE

Bench == prog \in {"bench mmlog", "bench write"}
UsesLog == prog # "bench write"

\* The tests remove the data file only, the benchmark both files.
Unlink ==
  /\ parent = "unlink"
  /\ parent' = "start"
  /\ IF prog = "reader" THEN UNCHANGED <<disk, log>>
     ELSE data' = "missing" /\ log' = <<>> /\ meta' = (meta /\ ~Bench)
  /\ UNCHANGED <<prog, seqno, wk, trimmed, verdict, clean, cut>>

Start(w) ==
  /\ parent = "start" /\ wk[w].at = "unborn"
  /\ wk' = [wk EXCEPT ![w].at = "open"]
  /\ UNCHANGED <<prog, disk, log, seqno, parent, trimmed, verdict, clean, cut>>

\* fork or pthread_create fails and the program exits; children go on without
\* it, threads do not.  (The benchmark goes on with one child less.)
StartFails(w) ==
  /\ parent = "start" /\ wk[w].at = "unborn" /\ prog # "reader"
  /\ parent' = IF Bench THEN parent ELSE "exited"
  /\ verdict' = IF Bench THEN verdict ELSE "aborted"
  /\ wk' = IF prog = "threads" THEN [u \in Workers |-> [wk[u] EXCEPT !.at = "done"]]
                               ELSE [wk EXCEPT ![w].at = "done"]
  /\ clean' = FALSE
  /\ UNCHANGED <<prog, disk, log, seqno, trimmed, cut>>

-----------------------------------------------------------------------------
(* Workers *)

\* mmlog_open creates the log when there is no metadata file; otherwise it
\* wants a data file of at least a chunk.  (MMLogOpen has the details.)
CanOpen == ~meta \/ data = "usable"

OpenEffect ==
  /\ meta' = (meta \/ UsesLog)
  /\ data' = "usable"
  /\ log' = IF UsesLog /\ ~meta THEN <<>> ELSE log

WorkerOpen(w) ==
  /\ wk[w].at = "open" /\ (UsesLog => CanOpen)
  /\ OpenEffect
  /\ wk' = [wk EXCEPT ![w].at = "loop"]
  /\ UNCHANGED <<prog, seqno, parent, trimmed, verdict, clean, cut>>

WorkerOpenFails(w) ==
  /\ wk[w].at = "open"
  /\ wk' = [wk EXCEPT ![w].at = "done"]
  /\ clean' = FALSE
  /\ UNCHANGED <<prog, disk, log, seqno, parent, trimmed, verdict, cut>>

MutantNumber(w) ==
  /\ wk[w].at = "loop" /\ wk[w].left > 0
  /\ wk' = [wk EXCEPT ![w].at = "insert", ![w].seq = Messages - wk[w].left]
  /\ UNCHANGED <<prog, disk, log, seqno, parent, trimmed, verdict, clean, cut>>

\* The next message; eg/threads numbers it with an atomic fetch_add.
Number(w) ==
  /\ wk[w].at = "loop" /\ wk[w].left > 0
  /\ wk' = [wk EXCEPT ![w].at = "insert", ![w].seq = seqno]
  /\ seqno' = IF prog = "threads" THEN seqno + 1 ELSE seqno
  /\ UNCHANGED <<prog, disk, log, parent, trimmed, verdict, clean, cut>>

Reserve(w) ==
  /\ wk[w].at = "insert"
  /\ log' = Append(log, [by |-> w, seq |-> wk[w].seq, whole |-> FALSE])
  /\ wk' = [wk EXCEPT ![w].at = "copy", ![w].place = Len(log) + 1]
  /\ UNCHANGED <<prog, disk, seqno, parent, trimmed, verdict, clean, cut>>

Inserted(w) ==
  /\ wk[w].at = "copy"
  /\ log' = [log EXCEPT ![wk[w].place].whole = TRUE]
  /\ wk' = [wk EXCEPT ![w].at = "loop", ![w].left = @ - 1]
  /\ UNCHANGED <<prog, disk, seqno, parent, trimmed, verdict, clean, cut>>

\* mmlog_insert reports failure, with or without a place reserved.  The tests
\* give up; the benchmark ignores it.
InsertFails(w) ==
  /\ wk[w].at \in {"insert", "copy"}
  /\ clean' = FALSE
  /\ wk' = [wk EXCEPT ![w] = IF Bench THEN [@ EXCEPT !.at = "loop", !.left = wk[w].left - 1]
                                      ELSE [@ EXCEPT !.at = "done"]]
  /\ UNCHANGED <<prog, disk, log, seqno, parent, trimmed, verdict, cut>>

InFlight == \E w \in Workers : wk[w].at = "copy"

MutantLeave(w) ==
  /\ wk[w].at = "loop" /\ wk[w].left = 0
  /\ wk' = [wk EXCEPT ![w].at = "done", ![w].ok = TRUE]
  /\ cut' = (cut \/ (prog = "bench mmlog" /\ InFlight))
  /\ UNCHANGED <<prog, disk, log, seqno, parent, trimmed, verdict, clean>>

\* The workers of the tests free the handle without a trim; the children of the
\* benchmark leave by exit, which does not run the destructor that would trim.
Leave(w) ==
  /\ wk[w].at = "loop" /\ wk[w].left = 0
  /\ wk' = [wk EXCEPT ![w].at = "done", ![w].ok = TRUE]
  /\ UNCHANGED <<prog, disk, log, seqno, parent, trimmed, verdict, clean, cut>>

-----------------------------------------------------------------------------
(* The parent *)

AllDone == \A w \in Active : wk[w].at = "done"

\* waitpid or pthread_join of every worker
Join ==
  /\ parent = "start" /\ AllDone
  /\ IF prog = "reader" /\ ~clean THEN parent' = "exited" /\ verdict' = "aborted"
     ELSE IF Bench THEN parent' = "exited" /\ verdict' = "reported"
     ELSE parent' = (IF prog = "reader" THEN "trim" ELSE "open") /\ UNCHANGED verdict
  /\ UNCHANGED <<prog, disk, log, seqno, wk, trimmed, clean, cut>>

ParentOpen ==
  /\ parent = "open" /\ CanOpen
  /\ OpenEffect
  /\ parent' = "trim"
  /\ UNCHANGED <<prog, seqno, wk, trimmed, verdict, clean, cut>>

\* eg/forks gives up; eg/threads calls mmlog_trim without a log and goes on.
ParentOpenFails ==
  /\ parent = "open"
  /\ clean' = FALSE
  /\ IF prog = "forks" THEN parent' = "exited" /\ verdict' = "aborted"
                       ELSE parent' = "validate" /\ UNCHANGED verdict
  /\ UNCHANGED <<prog, disk, log, seqno, wk, trimmed, cut>>

Trim ==
  /\ parent = "trim"
  /\ trimmed' \in BOOLEAN
  /\ clean' = (clean /\ trimmed')
  /\ cut' = (cut \/ InFlight)
  /\ parent' = "validate"
  /\ UNCHANGED <<prog, disk, log, seqno, wk, verdict>>

Whole == {i \in DOMAIN log : log[i].whole}

Total == Messages * Cardinality(Workers)

MutantLines == {Len(log)}

TrailingHole == log # <<>> /\ ~Last(log).whole

\* Where the buffer of fgets may be full before the newline comes.  It has room for
\* two messages and not always for three: the place where it is full is behind two
\* holes, and not next to the place where the buffer before it was.
Splits ==
  LET long == {i \in DOMAIN log : i > 2 /\ ~log[i - 1].whole /\ ~log[i - 2].whole}
  IN  {full \in SUBSET long : \A i \in full : i + 1 \notin full}

\* How often fgets returns: once per newline, once per full buffer, once more for
\* holes at the end, any number of times for the unused end of a file that was not
\* trimmed.
Lines ==
  LET hole == IF TrailingHole THEN 1 ELSE 0
      tails == IF trimmed THEN {hole} ELSE hole .. Total
  IN  {Cardinality(Whole) + Cardinality(full) + n : full \in Splits, n \in tails}

\* Messages that sscanf reads: a hole in front of them hides them.
Parsed == {i \in Whole : i > 1 => log[i - 1].whole}

\* Numbers that sscanf reads in a line or a full buffer that begins with a hole.
Scraps ==
  {s \in SUBSET (0 .. seqno - 1) : Cardinality(s) <= Cardinality(DOMAIN log \ Whole)}

\* What eg/threads expects: the messages of the threads that succeeded.
Expected == Messages * Cardinality({w \in Workers : wk[w].ok})

Seen == {log[i].seq : i \in Parsed} \cap 0 .. Expected - 1

\* validate_log: the number of lines, and for eg/threads no number twice and no gap.
Valid(lines, scraps) ==
  CASE prog = "forks" -> lines = Total
    [] prog = "threads" ->
         /\ data # "missing" /\ lines = Expected
         /\ \A i, j \in Parsed : log[i].seq = log[j].seq /\ log[i].seq \in Seen => i = j
         /\ scraps \cap Seen = {}
         /\ LET seen == Seen \cup (scraps \cap 0 .. Expected - 1)
            IN  \A n \in 0 .. Expected - 1 : (\E m \in seen : n <= m) => n \in seen
    [] OTHER -> \A w \in Active : Cardinality({i \in Whole : log[i].by = w}) = Messages

Validate ==
  /\ parent = "validate"
  /\ \E lines \in Lines, scraps \in (IF prog = "threads" THEN Scraps ELSE {{}}) :
       verdict' = IF Valid(lines, scraps) THEN "passed" ELSE "failed"
  /\ parent' = "exited"
  /\ UNCHANGED <<prog, disk, log, seqno, wk, trimmed, clean, cut>>

\* The file cannot be read.
ValidateFails ==
  /\ parent = "validate"
  /\ verdict' = "failed" /\ parent' = "exited" /\ clean' = FALSE
  /\ UNCHANGED <<prog, disk, log, seqno, wk, trimmed, cut>>

-----------------------------------------------------------------------------
WorkerStep(w) ==
  \/ Start(w) \/ StartFails(w) \/ WorkerOpen(w) \/ WorkerOpenFails(w) \/ Number(w)
  \/ Reserve(w) \/ Inserted(w) \/ InsertFails(w) \/ Leave(w)

ClientsNext ==
  \/ Unlink \/ Join \/ ParentOpen \/ ParentOpenFails \/ Trim \/ Validate \/ ValidateFails
  \/ \E w \in Active : WorkerStep(w)

ClientsSpec == ClientsInit /\ [][ClientsNext]_lvars

-----------------------------------------------------------------------------
(* Properties *)

\* A test that fails has seen a call fail: with concurrent workers and no errors
\* every line is there once, numbered without a gap, when the parent counts.
CleanRunPasses == verdict = "failed" => ~clean

Missing == Messages * Cardinality(Active) - Cardinality({i \in Whole : log[i].by \in Active})

\* What a pass is worth.  eg/forks looks at the number of lines only: once the log
\* is trimmed it passes with a message missing only if that was the last one, whose
\* hole counts as a line, and never with two, however the holes split the lines.
\* eg/threads expects the messages of the threads that succeeded: it passes only if
\* the others have left no whole message.
PassedMeansLogged ==
  verdict = "passed" =>
    /\ prog = "forks" /\ trimmed => Missing = IF TrailingHole THEN 1 ELSE 0
    /\ prog = "threads" => \A i \in Whole : log[i].by \in Workers /\ wk[log[i].by].ok

\* The log is never trimmed under an insert: the tests wait for every worker,
\* and the benchmark is saved by children that skip their destructor.
NoTrimUnderInsert == ~cut
=============================================================================
