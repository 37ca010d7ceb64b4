----------------------------- MODULE MMLogOpen -----------------------------
(***************************************************************************)
(* mmlog_open of fastlog/include/mmlog.h: the processes that find no       *)
(* metadata file race to create it (files_create); the others wait until   *)
(* the log is ready (files_open).  One step is one system call or one      *)
(* access to the shared metadata page.                                     *)
(***************************************************************************)
EXTENDS Integers

CONSTANTS
  Openers,     \* processes that open the log
  Crashers,    \* processes that may be killed at any point
  ChunkSize,   \* chunk_size given to mmlog_open
  OldSizes,    \* sizes of a data file left behind by an earlier log
  TrimSizes,   \* values of the cursor when mmlog_trim is called
  Unlinks,     \* whether the data file is removed between two runs
  MaxOpens     \* bound: calls of mmlog_open per process

ASSUME OpenAssumption ==
  /\ Crashers \subseteq Openers
  /\ ChunkSize \in Nat \ {0}
  /\ OldSizes \subseteq Nat /\ TrimSizes \subseteq Nat
  /\ Unlinks \in BOOLEAN
  /\ MaxOpens \in Nat

VARIABLES
  meta,        \* the metadata file: existence, whether sized, and its fields
  data,        \* the data file: existence and size
  pc,          \* where each process is
  waited,      \* the current hot_wait_for_cond has failed at least once
  want,        \* fd_data_args.size
  opens,       \* calls of mmlog_open made by each process
  foundReady,  \* history: the log was ready when the call tried to create it
  failed,      \* history: an open or fstat failed in a call that found it ready
  touched      \* history: a ready log was trimmed or lost its data file

ovars == <<meta, data, pc, waited, want, opens, foundReady, failed, touched>>

NoMeta == [exists |-> FALSE, sized |-> FALSE, chunk_size |-> 0, file_size |-> 0, is_ready |-> FALSE]

Creating == {"c_trunc", "c_map", "c_init", "c_data", "c_zero", "c_grow", "c_size", "c_ready"}

Waiting == {"o_meta", "o_ready", "o_data"}

Goto(p, l) == pc' = [pc EXCEPT ![p] = l]

OpenInit ==
  /\ meta = NoMeta
  /\ data \in {[exists |-> FALSE, size |-> 0]} \cup {[exists |-> TRUE, size |-> n] : n \in OldSizes}
  /\ pc = [p \in Openers |-> "start"]
  /\ waited = [p \in Openers |-> FALSE]
  /\ want = [p \in Openers |-> 0]
  /\ opens = [p \in Openers |-> 0]
  /\ foundReady = [p \in Openers |-> FALSE]
  /\ failed = [p \in Openers |-> FALSE]
  /\ touched = FALSE

-----------------------------------------------------------------------------
\* mmlog_open up to the files: bad arguments and a failed calloc end it.
MmlogOpen(p) ==
  /\ pc[p] \in {"start", "null"}
  /\ opens[p] < MaxOpens
  /\ opens' = [opens EXCEPT ![p] = @ + 1]
  /\ foundReady' = [foundReady EXCEPT ![p] = FALSE]
  /\ failed' = [failed EXCEPT ![p] = FALSE]
  /\ Goto(p, "excl") \/ Goto(p, "null")
  /\ UNCHANGED <<meta, data, waited, want, touched>>

\* Mutant: without O_EXCL everybody creates.
MutantOpenExcl(p) ==
  /\ pc[p] = "excl"
  /\ foundReady' = [foundReady EXCEPT ![p] = meta.is_ready]
  /\ waited' = [waited EXCEPT ![p] = FALSE]
  /\ meta' = [meta EXCEPT !.exists = TRUE]
  /\ Goto(p, "c_trunc")
  /\ UNCHANGED <<data, want, opens, failed, touched>>

\* open(O_CREAT | O_EXCL) of the metadata file.  Any failure, also one that
\* has nothing to do with the file being there, leads to files_open.
OpenExcl(p) ==
  /\ pc[p] = "excl"
  /\ foundReady' = [foundReady EXCEPT ![p] = meta.is_ready]
  /\ waited' = [waited EXCEPT ![p] = FALSE]
  /\ \/ /\ ~meta.exists
        /\ meta' = [meta EXCEPT !.exists = TRUE]
        /\ Goto(p, "c_trunc")
     \/ Goto(p, "o_meta") /\ UNCHANGED meta
  /\ UNCHANGED <<data, want, opens, failed, touched>>

-----------------------------------------------------------------------------
(* files_create *)

\* ftruncate of the metadata file, which gives a page of zeroes.
CreateTruncate(p) ==
  /\ pc[p] = "c_trunc"
  /\ \/ meta' = [meta EXCEPT !.sized = TRUE] /\ Goto(p, "c_map")
     \/ Goto(p, "null") /\ UNCHANGED meta
  /\ UNCHANGED <<data, waited, want, opens, foundReady, failed, touched>>

\* mmap of the metadata page
CreateMap(p) ==
  /\ pc[p] = "c_map"
  /\ Goto(p, "c_init") \/ Goto(p, "null")
  /\ UNCHANGED <<meta, data, waited, want, opens, foundReady, failed, touched>>

\* Mutant: the last offset of a chunk is stored for its size.
MutantCreateInit(p) ==
  /\ pc[p] = "c_init"
  /\ meta' = [meta EXCEPT !.chunk_size = ChunkSize - 1]
  /\ Goto(p, "c_data")
  /\ UNCHANGED <<data, waited, want, opens, foundReady, failed, touched>>

\* version, page_size and chunk_size; only the last one is read by a process
\* that has not seen is_ready.
CreateInit(p) ==
  /\ pc[p] = "c_init"
  /\ meta' = [meta EXCEPT !.chunk_size = ChunkSize]
  /\ Goto(p, "c_data")
  /\ UNCHANGED <<data, waited, want, opens, foundReady, failed, touched>>

\* open(O_CREAT) of the data file, which keeps what is there
CreateData(p) ==
  /\ pc[p] = "c_data"
  /\ \/ data' = [data EXCEPT !.exists = TRUE] /\ Goto(p, "c_zero")
     \/ Goto(p, "null") /\ UNCHANGED data
  /\ UNCHANGED <<meta, waited, want, opens, foundReady, failed, touched>>

\* Mutant: the log is ready before the data file has its size.
MutantCreateZero(p) ==
  /\ pc[p] = "c_zero"
  /\ data' = [data EXCEPT !.size = 0]
  /\ meta' = [meta EXCEPT !.is_ready = TRUE]
  /\ Goto(p, "c_grow")
  /\ UNCHANGED <<waited, want, opens, foundReady, failed, touched>>

\* ftruncate(fd_data, 0)
CreateZero(p) ==
  /\ pc[p] = "c_zero"
  /\ \/ data' = [data EXCEPT !.size = 0] /\ Goto(p, "c_grow")
     \/ Goto(p, "null") /\ UNCHANGED data
  /\ UNCHANGED <<meta, waited, want, opens, foundReady, failed, touched>>

\* ftruncate(fd_data, chunk_size)
CreateGrow(p) ==
  /\ pc[p] = "c_grow"
  /\ \/ data' = [data EXCEPT !.size = ChunkSize] /\ Goto(p, "c_size")
     \/ Goto(p, "null") /\ UNCHANGED data
  /\ UNCHANGED <<meta, waited, want, opens, foundReady, failed, touched>>

\* atomic_store(file_size, chunk_size)
CreateStoreSize(p) ==
  /\ pc[p] = "c_size"
  /\ meta' = [meta EXCEPT !.file_size = ChunkSize]
  /\ Goto(p, "c_ready")
  /\ UNCHANGED <<data, waited, want, opens, foundReady, failed, touched>>

\* atomic_store(is_ready, true); mmlog_open returns the handle.
CreateStoreReady(p) ==
  /\ pc[p] = "c_ready"
  /\ meta' = [meta EXCEPT !.is_ready = TRUE]
  /\ Goto(p, "open")
  /\ UNCHANGED <<data, waited, want, opens, foundReady, failed, touched>>

-----------------------------------------------------------------------------
(* files_open *)

\* One round of hot_wait_for_cond.
Try(p, cond, next) ==
  /\ Goto(p, IF cond THEN next ELSE pc[p])
  /\ waited' = [waited EXCEPT ![p] = ~cond]

\* One round of try_check_file_ready, whose open and fstat may fail whatever
\* the file is like.
TryFile(p, large, next) ==
  \/ Try(p, large, next) /\ UNCHANGED failed
  \/ Try(p, FALSE, next) /\ failed' = [failed EXCEPT ![p] = foundReady[p]]

\* Mutant: the wait for the creator has no bound.
MutantWaitTimeout(p) ==
  /\ pc[p] \in Waiting \ {"o_ready"} /\ waited[p]
  /\ Goto(p, "null")
  /\ UNCHANGED <<meta, data, waited, want, opens, foundReady, failed, touched>>

\* SLEEP_TIME_MAX_MS passed: files_open cleans up and returns false.
WaitTimeout(p) ==
  /\ pc[p] \in Waiting /\ waited[p]
  /\ Goto(p, "null")
  /\ UNCHANGED <<meta, data, waited, want, opens, foundReady, failed, touched>>

\* try_check_file_ready on the metadata file
OpenMeta(p) ==
  /\ pc[p] = "o_meta"
  /\ TryFile(p, meta.exists /\ meta.sized, "o_map")
  /\ UNCHANGED <<meta, data, want, opens, foundReady, touched>>

\* mmap of the metadata page and read of chunk_size, which comes before the
\* test for MAP_FAILED.
OpenMap(p) ==
  /\ pc[p] = "o_map"
  /\ \/ want' = [want EXCEPT ![p] = meta.chunk_size] /\ Goto(p, "o_ready")
     \/ Goto(p, "segv") /\ UNCHANGED want
  /\ UNCHANGED <<meta, data, waited, opens, foundReady, failed, touched>>

\* try_check_metadata_ready; the version is the only one there is.
OpenReady(p) ==
  /\ pc[p] = "o_ready"
  /\ Try(p, meta.is_ready, "o_data")
  /\ UNCHANGED <<meta, data, want, opens, foundReady, failed, touched>>

\* Mutant: the data file must be larger than one chunk.
MutantOpenData(p) ==
  /\ pc[p] = "o_data"
  /\ TryFile(p, data.exists /\ data.size > want[p], "open")
  /\ UNCHANGED <<meta, data, want, opens, foundReady, touched>>

\* try_check_file_ready on the data file, against the chunk_size read before
\* the log was ready
OpenData(p) ==
  /\ pc[p] = "o_data"
  /\ TryFile(p, data.exists /\ data.size >= want[p], "open")
  /\ UNCHANGED <<meta, data, want, opens, foundReady, touched>>

-----------------------------------------------------------------------------
\* A process is killed; the files stay as they are.
Crash(p) ==
  /\ p \in Crashers /\ pc[p] \notin {"dead", "segv"}
  /\ Goto(p, "dead")
  /\ UNCHANGED <<meta, data, waited, want, opens, foundReady, failed, touched>>

\* mmlog_trim of an open log
Trim(p) ==
  /\ pc[p] = "open"
  /\ \E n \in TrimSizes : data' = [data EXCEPT !.size = n]
  /\ touched' = TRUE
  /\ UNCHANGED <<meta, pc, waited, want, opens, foundReady, failed>>

\* The examples remove the data file, and not the metadata file, before they
\* start their processes.
Unlink ==
  /\ Unlinks /\ data.exists
  /\ \A p \in Openers : pc[p] \in {"start", "null", "dead", "segv"}
  /\ data' = [exists |-> FALSE, size |-> 0]
  /\ touched' = (touched \/ meta.is_ready)
  /\ UNCHANGED <<meta, pc, waited, want, opens, foundReady, failed>>

\* The steps of a call of mmlog_open.
OpenStep(p) ==
  \/ OpenExcl(p)
  \/ CreateTruncate(p)
  \/ CreateMap(p)
  \/ CreateInit(p)
  \/ CreateData(p)
  \/ CreateZero(p)
  \/ CreateGrow(p)
  \/ CreateStoreSize(p)
  \/ CreateStoreReady(p)
  \/ WaitTimeout(p)
  \/ OpenMeta(p)
  \/ OpenMap(p)
  \/ OpenReady(p)
  \/ OpenData(p)

OpenNext ==
  \/ \E p \in Openers : MmlogOpen(p) \/ OpenStep(p) \/ Crash(p) \/ Trim(p)
  \/ Unlink

OpenSpec == OpenInit /\ [][OpenNext]_ovars

\* A running process is scheduled, and its clock advances.
OpenFairSpec == OpenSpec /\ \A p \in Openers : WF_ovars(OpenStep(p))

-----------------------------------------------------------------------------
(* Properties *)

\* The files, the processes and their counters keep their types.
OpenTypeOK ==
  /\ meta \in [exists : BOOLEAN, sized : BOOLEAN, chunk_size : {0, ChunkSize},
               file_size : {0, ChunkSize}, is_ready : BOOLEAN]
  /\ data \in [exists : BOOLEAN, size : Nat]
  /\ pc \in [Openers -> Creating \cup Waiting \cup
               {"start", "excl", "o_map", "open", "null", "dead", "segv"}]
  /\ waited \in [Openers -> BOOLEAN]
  /\ want \in [Openers -> {0, ChunkSize}]
  /\ opens \in [Openers -> Nat]
  /\ foundReady \in [Openers -> BOOLEAN]
  /\ failed \in [Openers -> BOOLEAN]
  /\ touched \in BOOLEAN

\* The handle that mmlog_open returns is for a log that is set up: whoever
\* uses it finds the chunk size, the file size and, until the log is trimmed,
\* a data file to match, although chunk_size may have been read before the
\* creator stored it.
OpenedIsReady ==
  \A p \in Openers :
    pc[p] = "open" =>
      /\ meta.is_ready /\ meta.chunk_size = ChunkSize /\ meta.file_size = ChunkSize
      /\ ~touched => data.exists /\ data.size >= ChunkSize

\* "just clobber the file" is for a log nobody has yet: no process is about to
\* truncate or to size the data file while another one has a handle.
NoClobber ==
  \A p, q \in Openers : pc[p] = "open" => pc[q] \notin {"c_zero", "c_grow"}

\* A call that finds the log ready opens it and does not run into a timeout,
\* as long as the data file is the one the creator left: such a log times out
\* only on a process whose own open or fstat failed.
ReadyLogOpens ==
  \A p \in Openers : foundReady[p] /\ ~touched /\ ~failed[p] => pc[p] # "null"

\* How far the one creator has come, and that nobody creates a log that is
\* ready: what makes NoClobber and OpenedIsReady inductive.
CreatorInv ==
  /\ \A p, q \in Openers : pc[p] \in Creating /\ pc[q] \in Creating => p = q
  /\ \A p \in Openers :
       /\ pc[p] \in Creating => meta.exists /\ ~meta.is_ready
       /\ pc[p] \in Creating \ {"c_trunc", "c_map", "c_init"} => meta.chunk_size = ChunkSize
       /\ pc[p] \in {"c_zero", "c_grow", "c_size", "c_ready"} => data.exists
       /\ pc[p] \in {"c_size", "c_ready"} => data.size = ChunkSize
       /\ pc[p] = "c_ready" => meta.file_size = ChunkSize
       /\ pc[p] \in {"o_data", "open"} => meta.is_ready
  /\ meta.is_ready =>
       /\ meta.exists /\ meta.chunk_size = ChunkSize /\ meta.file_size = ChunkSize
       /\ ~touched => data.exists /\ data.size = ChunkSize

\* Every call of mmlog_open returns, also when the creator died or gave up
\* before it set is_ready.
OpenReturns ==
  \A p \in Openers : pc[p] = "excl" ~> pc[p] \in {"open", "null", "dead", "segv"}

=============================================================================
