# Verification of systems_experiments

The repository is a collection of about a hundred small systems experiments.
Most are a page of code that shows one behaviour of the kernel, the loader or a
compiler; a few are libraries or programs with a state and a protocol of their
own. This project models the latter in TLA+, checks small instances with TLC and
proves the central facts with TLAPS.

The core is `fastlog`, a log that any number of threads of any number of
processes append to through shared memory, without a server. It is modelled
completely, with the programs that use it. Around it stand the other experiments
that have several actors: a shared ring buffer, a registry over multicast
sockets, cycle accounting, and the programs about signals and processes.

## Inventory

| part | state | operations | what is hard | what makes it correct |
|---|---|---|---|---|
| fastlog, reservation (`mmlog.h` 420-500, 813-830) | shared metadata page: `cursor`, `file_size`, `is_locked`, `is_panicked`; size of the data file | `mmlog_checkout`, `data_file_expand`, `mmlog_trim` | interleavings across processes, orphaned lock, failing `ftruncate`, timeouts | ranges never overlap, a granted range is backed by the file, a file in use never shrinks |
| fastlog, insert (`mmlog.h` 502-811) | per process: ring of mapped chunks, `head`, `tail`, `head_locked`, reference counts | `mmlog_insert` and its helpers | pieces across chunks, ring overwrite, fork with a held lock, SIGBUS, short writes, death inside a `memcpy` | a message reported as inserted is in the file, whole and for good |
| fastlog, open (`mmlog.h` 153-413) | the two files and their readiness | `mmlog_open`, `files_create`, `files_open` | creation race, creator that dies, waits with a time limit | a handle is for a log that is set up; nobody clobbers a log in use |
| fastlog, clients (`eg/`, `write_append`) | the two files, a line per message, sequence numbers | workers open, insert and leave; a parent joins, trims, validates | verdicts over logs with holes, files of an earlier run, children that skip destructors | a clean run passes, a run that passes has its messages, nobody trims under an insert |
| simple_ringbuffer | `read_pos`, `write_pos`, mirrored buffer | constructor, `write`, `read` | producers publish a position before the data, bounded retries, a wrapped position | a reader sees whole entries only; no unread entry is overwritten |
| nopeeking_registry | sender socket, sockets made by peeks, queues | `np_socket_init`, `np_modify_message`, `np_peek_message`, cleanup | two peeks must agree; error returns; a blocking receive | a message is sent and peeked over a real socket; a result comes from one datagram; every peek returns, and each failure closes its socket |
| tsc_time | calibration flag and rate, operation statistics, buckets | `initialize`, `start_operation`, `end_operation` | second caller during calibration, time stamps older than the mutex | one calibration, updates in proportion to operations, averages within what was measured |
| autodaemonize | three processes, the ends of a pipe | daemonize, timed wait, send, shutdown | who still holds the write end, a `pipe` whose result nobody looks at | a daemon that has a pipe ends, and after its client |
| pid_1_signals | actions of two signals, `child_pid`, the child's flag | wrapper, child | windows between `fork`, the store and `sigaction` | a signal that is handled is passed on |
| sigsegv_return_from_kill, sigaction_deadlock | action of SIGSEGV, handler frames | handlers | which thread takes a signal, PID 1, faults in handlers | the handler comes back only where the kernel spares the process; recursion ends |
| orphans and reapers, threaded_forks, can_pthreads_join_late | process tree, mutexes | fork, wait, join | reparenting, locks over `fork` | every orphan is reaped; nobody waits for a lock without holder |
| smaps_spy | mappings, selection, status message, reload clock | event loop, parser | clocks shared by two purposes | a message is shown, then goes away |

The parts of fastlog meet in the metadata page and the data file: `mmlog_open`
hands out a handle once `is_ready` is set; `mmlog_insert` calls `mmlog_checkout`
for a range, then writes it through its own process' ring or with `pwrite`;
`mmlog_trim` truncates the file under all of them. The other experiments are
independent of each other, except that `write_append` measures fastlog: its
children and those of `eg/` call `mmlog_open`, `mmlog_insert` and `mmlog_trim`.

## Modules

| module | models |
|---|---|
| `MMLogCheckout` | reservation and growth of the file. One action per access to the shared page or system call: `CheckoutFetchAdd`, `CheckoutLoadSize`, `Expand...`, `TrimLoad`, `TrimFtruncate`, and `Crash` |
| `Align` | the `ALIGN` macro, bit by bit, with a mask as wide as `chunk_size` (`Bits`, 32 in the code) |
| `LogSpan` | the assumption that the log stays below that width, for the proofs and all runs but `big_log` |
| `MMLogCheckout_proofs` | theorems about `Align` and `MMLogCheckout` |
| `Induction` | induction over numbers for the proofs: the least number of a set, sets closed under successor, and recursive functions |
| `MMLog`, `MMLog_proofs` | extends `MMLogCheckout` by the write path of `mmlog_insert`: `Pwrite`, `LockHead`, `FindChunk`, `AddNewChunk`, `UnlockHead`, `Pin`, `Copy`, `Unpin`, `Clean`; and by `Fork`, `Kill`, `BusError`, `Trim` |
| `AppendLog`, `LogInterface_proofs` | what an append-only log promises (`Reserve`, `Progress`), and what follows from it. `MMLog` is checked, and proved, to implement it |
| `MMLogOpen`, `LogInterface_proofs` | `mmlog_open`: one creator, many openers, and its theorems |
| `LogClients`, `Programs_proofs` | `eg/forks`, `eg/threads`, `eg/vm_reader` and `write_append`, on top of the log as `AppendLog` describes it: `WorkerOpen`, `Number`, `Reserve`, `Inserted`, `InsertFails`, `Leave` of the workers; `Unlink`, `Join`, `ParentOpen`, `Trim`, `Validate` of the parent |
| `RingBuffer`, `RingBuffer_proofs` | `ring_buffer.hpp` and the processes of `main.cpp`: `OpenBacking` to `TryMirror` of the constructor, one action per atomic access of `write`, serialization of header and body, `ReadHeader`, `ReadBody` |
| `NoPeeking`, `Programs_proofs` | `nopeeking.c` under `main.c`: `SenderOpens`, `Position`, `Modify`, `PeekInode`, `MakeSocket`, `ReuseAddr`, `BindSocket`, `JoinGroup`, `FirstRecv`, `SecondRecv`, `Cleanup`, and their failures |
| `Accounting`, `Accounting_proofs` | `cycle_counter.hpp` and `accounting.hpp`: `Initialize`, `StoreRate`, `StoreFlag`; one action per shared access of `end_operation`, the test of `operation_count` (`IsDue`, `NotDue`) among them; `UpdateBuckets` under the mutex |
| `SegvHandlers`, `Signals_proofs` | `watchseg.c` and `deadlock.c`: threads with stacks of handler frames |
| `PidOneWrapper`, `Signals_proofs` | `wrapper.c` and its child `sigterm_test.c` |
| `AutoDaemon`, `Signals_proofs` | `daemon.hpp` and its users: client, intermediate process, daemon; a pipe that may be missing (`piped`), and a `poll` that fails (`PollFails`) |
| `MC...` | instances for TLC; `MCSignals` holds the last three, `MCPrograms` holds `LogClients` and `NoPeeking`, `MCShared` holds `RingBuffer` and `Accounting`; their first state chooses which program runs |

State and code correspond by name. `cursor`, `file_size`, `is_locked` and
`is_panicked` are the fields of `log_metadata_t`; `buffer`, `head`, `tail` and
`head_locked` those of `chunk_buffer_t`, per process; `phys` is the size of the
data file; `content` says which call wrote each cell of it. `pc` is the place of
a thread inside `mmlog_checkout`; a thread with `pc = "granted"` is past it, and
`wpc` is its place in the write. `req` holds the range of the call, or the cursor
that `mmlog_trim` has read. `reserved`, `trimmed`, `committed`, `foundReady`,
`failed`, `touched`, `calibrations`, `updates`, `range` and `built` are history
variables.

Abstractions:

- A cell stands for some bytes, all messages being multiples of it. What a
  message says does not matter, only which call wrote it (`Mark`).
- The metadata fields are C11 atomics with the default, sequentially consistent
  order, so interleaving single accesses loses nothing. `chunk_size` is a plain
  field that an opener may read while the creator stores it: both values occur.
- Work on the ring under `head_locked` is one step. `clean_chunks` looks at the
  ring without the lock, but only when `tail` is set, and nothing sets it; the
  reaping branch is in the model (`Reapable`, `ReapTail`), one round per step,
  and is not reached.
- `memcpy` of a piece is one step, since its cells belong to one call; when the
  process dies in it, any part of the piece may have been stored.
- A store behind the end of a trimmed file but in its last page is kept or lost.
- A timeout may happen after any failed try, never before the first one, as in
  `hot_wait_for_cond`. Durations are not modelled.
- System calls fail without a reason. Null arguments to the functions of an open
  log, which return at once, are left out.
- The files, sockets, signals and pipes of the kernel are modelled from how the
  programs use them, and marked external in `PROJECT.json`. In particular: the
  default action of a signal that is sent spares PID 1, and a fault does not; a
  blocked or unhandled fault kills; `poll` reports a hang-up when the last writer
  is gone, whether or not messages are left.
- `LogClients` takes an insert as `AppendLog` does: a place after all others, then
  the message or a hole: NUL bytes, or the first piece of the message and NUL bytes.
  A hole has no newline, so it runs into the line that follows it. `fgets` returns
  after 511 bytes without a newline: two messages always fit and three need not, so
  that the buffer may be full anywhere behind two holes, at the end of the log too,
  again and again, but not at two places next to each other (`Splits`). `sscanf` may
  take any number for that of a hole that begins a line (`Scraps`). A file that was
  not trimmed adds any number of lines.
- Entries of the ring are a header cell and body cells; an entry is serialized
  in two steps, so that a reader can come before, between and after them. A word
  from the middle of an entry, taken for a size, can be anything.
- Sums of the accounting are whole numbers and averages are rounded down; cycle
  counts wrap at `Word`. The coarsening factor is a whole number.
- The sender of `nopeeking` connects to port 0 and its receivers bind port 0, so
  that what is sent does not reach them; datagrams in their queues come from
  elsewhere (`Stray`), of any size. Sequence numbers are left out: both peeks see
  the head of one queue.
- The cursor is bounded by `MaxCursor`, so that its 64 bits never wrap.

## Runs

The instances have two threads of one process and, in `checkout` and `log_live`, a
third one of another process. Chunks have four cells and pages two; in `checkout`
a chunk has six, which is no power of two, and `mmlog_open` accepts that: `ALIGN`
then rounds to sizes that are no multiples of it. Messages of 3
cells fit into a chunk or straddle two, messages of 4 cells fill one, messages of
6 bypass the ring; every second message needs a larger file. In `log`, `MaxCursor = 12` is
three chunks: the ring of capacity 2 wraps, and the file grows at least twice.
`MaxCalls` of two lets a thread call again after a failure or a hole. `log_live`
has one message of 3 cells per thread (`MaxCursor = 9`), because liveness is
checked without symmetry; the second message straddles a chunk boundary and the
third one reaches a third chunk. In `shared` the clock stops at 5, enough for a
shift over two buckets and for a late update. In `open` a chunk has two cells, and old data
files and trims are shorter or longer than that. Deadlock is not checked in any
run: with the calls used up, or all processes ended, the system is done.

| run | shows |
|---|---|
| `checkout` | three threads of two processes, both of which may be killed anywhere; one thread also trims: `RangesDisjoint`, `TrimCutsBetween`, `GrantCovered`, `FileNeverShrinks`, `PanicIsFinal`, and the inductive `CheckoutInv` |
| `log` | two threads insert, two calls each, every system call may fail and the process may be killed anywhere: `CommittedIntact`, `CopyIsMapped`, `NoBusError`, `HeadLockExcludes`, and `ImplementsAppendLog` |
| `log_live` | a child is forked at any moment of the parent's inserts, inserts too and trims the file under them, so that some writers die of SIGBUS: `CellsOwned`, `RefCoversUsers`, `InsertReturns`, `HeadLockReleased` |
| `open` | three processes, two calls each, one of which may be killed, over old data files of several sizes, with trims and a data file removed between calls: `OpenedIsReady`, `ReadyLogOpens`, `NoClobber`, the inductive `CreatorInv`, and `OpenReturns` |
| `bus_error` | violation: an insert after a trim dies of SIGBUS |
| `big_log` | violation: a log that reaches 2 to the width of `chunk_size` is truncated by its own expansion, and space behind the end of the file is granted |
| `mappings` | violation: a full ring forgets mappings instead of cleaning up or refusing |
| `shared` | two producers, a child that reads whenever it likes and a parent that reads at the end, entries of two sizes; the constructor fails anywhere: `ConstructedOrClean`, `FirstLapSound`, `GivesUpAfterThree`, `DrainsAll`. Two threads that time operations, an update every second one, three buckets: `CalibratesOnce`, `UpdatesBounded`, `AveragesInRange` |
| `ring_room` | violation: after a lap the space test lets a producer overwrite unread entries |
| `programs` | five programs with three workers of two messages (the benchmark, whose children go on after a failed insert, with two: `TwoChildren`), over no files, a usable log and one that was trimmed: `CleanRunPasses`, `PassedMeansLogged`, `NoTrimUnderInsert`. Two processes that peek at each other, three descriptor limits, every call of an initialization failing, stray datagrams that are short, honest or lie about their size: `SentNeedsSocket`, `ResultIsOneDatagram`, `LeaksAccounted`, `PeekReturns` |
| `signals` | all command lines of `watchseg` and `deadlock` with stacks of four frames; all modes of the wrapper with two signals and three rounds; a daemon with two messages, with or without a pipe, forks and `poll` failing: `ReturnsOnlyAsInit`, `RecursionBounded`, `HandledIsForwarded`, `DaemonCleansUp` |
| `clean_exit` | violation: the SIGTERM that the wrapper passes on as PID 1 kills the child |

`GrantCovered`, `FileNeverShrinks`, `NoBusError` and `CommittedIntact` do not
survive a trim, which is why the first two speak of a log that has not been
trimmed (`~trimmed`) and the others are checked without one: `mmlog_trim` sets the
size of the file and leaves `file_size`, "Current physical size of the data
file", as it was. What is left under a trim is in `log_live`: no cell ever holds
the data of a call that does not own it. `ReadyLogOpens` is about a log whose
data file is as its creator left it (`~touched`): once it is trimmed below one
chunk, or removed as the examples do before a run, while the metadata file stays,
every later `mmlog_open` ends in a timeout. And it is about a call none of whose
own `open` or `fstat` failed (`failed`): `try_check_file_ready` takes a failure for a
file that is not ready yet, tries again, and may run out of time. A chunk's `ref_count` starts at 1
and the thread that maps the chunk counts itself a second time, so it is an upper
bound of the users (`RefCoversUsers`) and not their number.

What the other properties say, and where they stop:

- `FirstLapSound` and `DrainsAll` speak of the first lap of the ring (until a
  reservation reaches the end of the buffer) and of a child that does not read
  while somebody writes. Both limits are the code's: `write_pos` is published
  before the data, and `ring_room` shows the space test failing after a lap.
- `PassedMeansLogged`: `eg/forks` counts lines only. With the log trimmed it can
  pass with one message missing, when the failed insert left its hole at the end,
  and never with more: a run of holes returns from `fgets` less often than it has
  holes, so that they never make up for each other. When the trim failed, the unused
  end of the file makes up for any number. `eg/threads` expects the messages of the
  threads that succeeded, so that a whole message of one that failed is a line too
  many; what it cannot tell is a number behind a hole, which it may misread.
- `NoTrimUnderInsert` holds for the benchmark because its children call `exit`,
  which does not destroy `FileAppender`. A child that returned would trim.
- `CalibratesOnce` counts calibrations (`calibrations`): a second one, at the same
  time as the first or after it, violates it; and whoever finds `is_calibrated` set
  finds the complete rate. A thread that comes while another calibrates goes on at
  once and converts nothing.
- `AveragesInRange` has two bounds. No average exceeds the longest latency, in
  whatever order updates reach the mutex. None is below the shortest as long as they
  come in the order of their time stamps (`~stale`): a late one subtracts a later
  time from an earlier one, unsigned, and shifts every bucket, empty ones too, whose
  average is 0. Max history is never enforced in the default
  configuration: every shift into the last bucket sets its `last_update_time`, and
  without one the time elapsed is at most the span of the bucket before it, so that
  `Discard` finds nothing to do (`HistoryIsNeverDiscarded`).
- `SentNeedsSocket`: `np_socket_init` returns -1 as a `bool`, so `main` never sees
  its failure; the failing `send` stops it. `ResultIsOneDatagram` and
  `PeekReturns` hold because both receives peek: the datagram that the first one
  saw is still at the head for the second, which may block.
- `LeaksAccounted`: the socket is made, given its options, bound and joined to the
  group in steps of their own, each of which may fail and closes it then. A context
  that was built is never closed, which is what `built` counts.
- `HandledIsForwarded`: `child_pid` is set before a handler is installed. A signal
  that comes earlier meets the default action. Between the child's test of
  `got_signal` and its `pause` a signal is handled and the child sleeps on; the
  wrapper then ends with its timeout, and with success. `clean_exit` is about
  SIGTERM: the README of the experiment says of the pass mode under `docker stop`
  "Wrapper forwards SIGTERM to child, clean exit", but `sigterm_test` handles SIGINT
  only, is killed, and the wrapper reports failure.
- `DaemonCleansUp` is about a daemon that has a pipe. `daemonize` ignores the result of
  `pipe`; without one it forks all the same, and the daemon polls descriptor -1, which
  only ever times out, for ever after its client is gone. A `poll` that fails ends it
  early ("Whatever, just die"). The property says nothing of messages: `run_daemon` looks for the hang-up
  first and drops what is still in the pipe. `state` is a member, copied by
  `fork` and not shared, so that the client always waits the whole 200 ms.

`mmlog_trim` reads the cursor and truncates later, so that it can cut off what was
reserved in between; `TrimCutsBetween` says that it does so between messages.
`big_log` is about `ALIGN(end, metadata->chunk_size)`: `chunk_size` is a `uint32_t`, so
that the mask has 32 bits and clears the upper half of the new size. The expansion
that should pass 4 GiB cuts the file down, stores the small size in `file_size`, and
`mmlog_checkout` grants the range. The comment of `mmlog_checkout` says that it "Will
increase the capacity of the file if needed".

Two observations about fastlog have no run of their own: `files_open` reads `chunk_size` through the result of
`mmap` on the line before it compares it with `MAP_FAILED` (`OpenMap`); and a log
trimmed below one chunk cannot be opened again. Two headers do not compile as
they are: `Buffer<int64_t>` of the ring buffer has no `serializedSize`, and
`computePIDOutput` of the accounting reads its own local variable. The rest of
them is modelled as written.

Symmetry is used in runs of safety properties only, over threads of one process.

Fairness. `log_live` and `open` assume that a thread inside a call is scheduled, one weak
fairness condition per thread on all the steps of the call together. A failed try
of a lock is a step that changes nothing, so the condition amounts to: either the
lock is taken or the time limit is noticed. The code justifies it, since every
wait is a `hot_wait_for_cond`, bounded by `CLOCK_MONOTONIC`. No fairness is
assumed for locks, and none for system calls to succeed. `programs` assumes that
each process that peeks keeps running, and nothing of the network. `signals` assumes that
client, intermediate process and daemon keep running and that a client comes to
the end of its use of the daemon, as all three users do; it may be killed before.
Nothing is assumed of `poll`, which may or may not fail.

Each property has a mutant: a definition named `Mutant...` stands in front of the
one it varies, and with it TLC finds the property violated.

## Proofs

The provers cannot use the library's induction theorems, whose hypotheses are
operators. `Induction` states what is needed of them over sets instead: a set of
numbers that is not empty has a least one (`LeastNumber`), a set that has 0 and is closed
under successor up to n has all of 0 .. n (`UpTo`), and a loop
of n iterations has a value after each of them, so that a recursive definition has
the values of its equation (`Recursion`). With
these, what `ALIGN`, the time spans, the loop over the buckets and the averages
compute is proved for every width and every number of buckets.

`MMLogCheckout_proofs`, for any threads, processes, sizes and bounds, from the
assumptions that `MMLogCheckout` and `LogSpan` name (`ProcOf` is a function, sizes are
positive, the log stays below the width of `chunk_size`):

- `AlignRoundsUp`, `AlignIsMultiple` and `AlignLosesUpperHalf`, about any width and
  without `SpanAssumption`. The first is for every chunk size: with `m = a - 1` and
  `y = x + a - 1`, the bits of `y` that the mask clears, `y & m`, are worth at
  most `m`, so that `y & ~m` is at least `x`; nothing in it needs a power of two. The second does. The
  third is why `SpanAssumption` is there, and why `big_log` ends as it does.
- `TrimTearsNoMessage`. `TrimCutsBetween` is inductive with `RangesDisjoint`: a trim reads a
  cursor above all ranges, and later ranges start above it.
- `TypeCorrect` and `RangesAreDisjoint`. `RangesDisjoint` is inductive together
  with the types, because it also says that all ranges lie below the cursor.
- `CheckoutInvariant`, `GrantsAreCovered`, `ExpansionOnlyGrows` and
  `PanicIsForGood`, with trims and crashes at any time. `GrantCovered` is far
  from inductive:
  that a thread leaving the critical section is covered depends on `file_size`
  being the size of the file (`SizeInv`), which depends on the exclusion by
  `is_locked` (`LockInv`), and the thread that finds the log panicked must not
  believe in its own expansion (`CoverInv`, `PanicInv`). A process that died
  between `ftruncate` and the store of `file_size` keeps the lock, which is why
  `file_size` may lag behind the file only while the lock is taken. `IInv` is the
  conjunction, with one step of the proof per action.

`MMLog_proofs`, for any finite set of threads (`RefCoversUsers` counts them), any
processes, sizes and a ring of two slots or more:

- `MInv` is the conjunction of the types, `BaseInv`, `RingInv` and `DataInv`, and
  is inductive with trims, forks and deaths at any time. `BaseInv` reuses `IInv` of
  `MMLogCheckout_proofs`: a step of `mmlog_insert` is, for the reservation, one of
  its own steps or none, a `pwrite`, which can only grow a file that was trimmed, or
  a death. `CallInv` gives each call one range.
- `HeadLockIsExclusive`, `CountsCoverUsers` and `CopiesAreMapped` come from
  `RingInv`. That a copy stays in its chunk needs `ChunkInv`: chunks start at
  multiples of the chunk size, the chunk that was checked out holds the position of
  the next piece, and `tail` is never set, so that `clean_chunks` unmaps nothing (the
  run `mappings` shows the price). `RefCoversUsers` needs `PhaseInv`, which says
  where a thread can be a user.
- `CellsAreOwned` holds through trims and deaths. `SafeUntilTrim` says that up to
  the first trim nothing faults and committed messages are whole; it needs
  `WrittenInv`, that what a thread has counted as written, and the piece it has just
  copied, are in the file. `NoBusErrorUntrimmed`, `CommittedStays` and
  `InsertImplementsAppendLog` assume `Trimmers = {}`: with trims the run `bus_error`
  refutes the first. The refinement maps the cursor to the end of the abstract log,
  the reservations to its entries and the calls under way to the open ones; `Insert`
  is `Reserve`, and every other step is `Progress`, which may write to cells of open
  entries and close them, or a stutter.

`LogInterface_proofs`, first part, for any number of processes, killed, trimming or removing the
data file where they like: `OpenTypeCorrect`; `CreatorInv` follows the one creator
through `files_create`; from it `HandlesAreReady` and `OpenLogsAreNotClobbered`.
`ReadyLogsOpen` needs in addition that none of the waits of a call that found the
log ready fails even once, unless one of its own system calls failed (`FoundInv`).

Second part, the abstract log, for messages that are not empty (`Parameters`): `AppendDisjoint`
and `AppendDurable`. The argument for the
second: a writer only touches cells of its own entry, entries are disjoint, and
an entry that is committed is no longer open.

`RingBuffer_proofs`, for any producers, size of the buffer and entries of at least
two cells that fit into it:

- `ConstructorIsClean`. `CtorInv` says how many descriptors and which mappings the
  constructor holds at each of its steps; it needs that the second `close` of
  `try_map`'s caller finds nothing left to close.
- `GiveUpNeedsContention`. `TriesInv`: a writer with t tries left began at least
  3 - t entries ago, and when it is exactly that many, `write_pos` is still what it
  loaded, so that the exchange succeeds.
- `FirstLapIsSound`. `LapInv`: entries lie end to end up to `write_pos`, a cell was
  never written or belongs to the entry that lies there, every writer that
  serializes has an entry of its own, an entry nobody fills is complete, and a reader
  took its size from an entry or from a cell that was never written. The last part
  is why a reader may overtake a serialization.
- `LateReaderDrains`. `Drain`: while a writer runs nobody has read, so the test
  for space keeps the ring on its first lap; after that the child stands at the entry
  that follows those it has read.

`Accounting_proofs`, for any finite set of threads, any clock and word size:

- `OneCalibration`. `CalInv` says that only the thread that set `initialized`
  calibrates, that nobody has calibrated before it stores the rate, that it stores the rate before it sets `is_calibrated`, and that
  `is_calibrated` implies `initialized`.
- `UpdatesAreBounded`. While the count stands at a multiple of `Period`, every thread
  between its increment and its test will update: `CountInv` counts these with the
  updates that were done.
- `AveragesStayInRange`, for any number of buckets, any base, factor and history.
  `BucketInv` says, while updates come in order, that the sum of every bucket lies between its
  count times the shortest and its count times the longest latency (and so does any sum of
  buckets), that no bucket is newer than the last update, and that an empty bucket is no
  newer than the one after it. The last part (`Layered`) is what makes the first one
  inductive: a shift from an empty bucket adds an average of 0, and it does not
  happen, because such a bucket was emptied by a shift that set the time of the next one.
  The proof carries `Layered` through the loop of `update_buckets`, bucket by bucket.
  The upper bound needs no order: a shift moves an average, which is no larger than
  the longest latency, and an update adds a latency.
- `HistoryIsNeverDiscarded`, if the span of the last bucket but one is at most
  `max_history` (the defaults: 10 ms times 2 to the 14, against an hour): the count of
  the last bucket never decreases while updates come in order, although the comment
  in front of the test says "For the last bucket, we discard data older than max history".

`Signals_proofs`, for any stack depth, rounds and number of signals:
`HandlerForwards`, because the handlers are installed after `child_pid` is set and
the child ends clean only after a signal (`WrapperInv`); `OnlyInitReturns`, because a
frame that is about to raise the signal again has restored the default action
(`FrameInv`, over all frames of all threads); `GuardEndsRecursion`, because the first
frame of `deadlock.c` is at work only once the static flag is down, and a second
frame finds it down (`DeadlockInv`). `DaemonIsLast` is the safety half of
`DaemonCleansUp`: `PipeInv` follows the copies of the write end through the two forks,
so that a daemon with a pipe finds the hang-up exactly when client and intermediate
process have gone; without a pipe it never finds one.

`Programs_proofs`:

- `TrimWaitsForInserts`, for any finite set of workers, of which there is at least one
  (`eg/vm_reader` is one of them alone), and any number of messages: past the join
  every worker is done (`JoinInv`).
- `CleanTestsPass` and `PassedTestsLogged`, for the same constants; no worker is
  called "earlier run", the author that the model gives the lines found at the
  start. `CountInv` gives every message in the log its rank among those of its
  worker (`Ranks`): the ranks behind the ones a worker has left are all there and
  whole, and a hole is the message its worker is copying or the last thing it did.
  Ranks are one to one, so that the lines are counted by a bijection with the pairs
  of a worker and a rank, without a sum over the workers (`MessagesOf`, `PlacesOf`).
  `NumberInv` adds that the numbers of `eg/threads` are given out once. `OneMissing`
  shows that full buffers of `fgets` never make up for the holes in front of them: each
  stands behind two holes and no two are next to each other, so that there are fewer
  of them than holes. `OnlySucceeded` counts the same lines for `eg/threads`, against
  the messages of the threads that succeeded, all of which are there.
- `SenderHasSocket`, `PeekReadsOneDatagram`, `EveryContextLeaks`, for any number of
  processes, limits, groups, messages and stray datagrams. `PeekInv` adds that a
  process at its second message has a socket, that a peek under way has a socket to
  receive on and no result, that the sockets are the contexts built and the one being set up, and that between the two receives the datagram seen first is
  still at the head of the queue: both receives peek, and whatever arrives is appended.

Only model-checked, and why:

- the liveness properties (`InsertReturns`, `HeadLockReleased`, `OpenReturns`,
  `PeekReturns`, `DaemonCleansUp`): liveness under fairness is out of the prover's
  reach;
- the five runs that expect a violation, which are about one counterexample each.

## Plan

1. Reservation, insert, open of fastlog, with the proofs above (done).
2. The clients of the log, `simple_ringbuffer`, `tsc_time`,
   `nopeeking_registry` (done).
3. `autodaemonize`, `pid_1_signals`, `sigsegv_return_from_kill`,
   `sigaction_deadlock` (done).
4. Proofs: every invariant and action property of the passing runs, that `MMLog`
   implements `AppendLog` when nobody trims, and what `ALIGN` computes (done).
5. Left: the reapers, threads and fork; the event loop and parser of `smaps_spy`.

## Not modelled

The error table of fastlog, which only words outcomes; the test programs'
message generation and the mixed-size test of `eg/threads`, which validates
nothing; the functions of `nopeeking.c` that nobody calls; the PID controller of
the accounting, which is floating-point arithmetic; terminal rendering; the many one-page demonstrations of
kernel, loader and compiler behaviour, which have no state of their own; scripts.
`PROJECT.json` lists them with the reasons.
