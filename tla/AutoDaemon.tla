----------------------------- MODULE AutoDaemon -----------------------------
(***************************************************************************)
(* autodaemonize/daemon.hpp and its users: the constructor of Daemon makes *)
(* a pipe and forks twice; the grandchild is the daemon and reads the pipe *)
(* until every writer has hung up.  The state member is copied by fork,    *)
(* not shared, so that the client's wait for Ready always runs into its    *)
(* timeout.                                                                *)
(***************************************************************************)
EXTENDS Integers

CONSTANT Sends   \* messages that a client may send

ASSUME SendsAssumption == Sends \in Nat

VARIABLES
  client,    \* where the client is
  middle,    \* where the intermediate process is
  daemon,    \* where the daemon is
  writers,   \* processes that hold client_fd, the write end
  readers,   \* processes that hold daemon_fd, the read end
  pipe,      \* messages in the pipe
  piped      \* whether pipe succeeded; if not, _pfd keeps its -1

dvars == <<client, middle, daemon, writers, readers, pipe, piped>>

DaemonInit ==
  /\ client = "pipe" /\ middle = "unborn" /\ daemon = "unborn"
  /\ writers = {} /\ readers = {} /\ pipe = 0 /\ piped = FALSE

\* A process that ends, or an end that is closed by hand.
Closes(p) == writers' = writers \ {p} /\ readers' = readers \ {p}

\* The result of pipe is not looked at: daemonize goes on without one.
MakePipe ==
  /\ client = "pipe"
  /\ \/ piped' = TRUE /\ writers' = {"client"} /\ readers' = {"client"}
     \/ UNCHANGED <<piped, writers, readers>>
  /\ client' = "fork"
  /\ UNCHANGED <<middle, daemon, pipe>>

\* A child has the descriptors of its parent.
Inherits(child, parent) ==
  /\ writers' = writers \cup {c \in {child} : parent \in writers}
  /\ readers' = readers \cup {c \in {child} : parent \in readers}

\* fork errors are not handled: the client goes on without a daemon.
ForkMiddle ==
  /\ client = "fork"
  /\ client' = "wait"
  /\ \/ middle' = "fork" /\ Inherits("middle", "client")
     \/ UNCHANGED <<middle, writers, readers>>
  /\ UNCHANGED <<daemon, pipe, piped>>

\* A failed second fork looks like success to the intermediate process.
ForkDaemon ==
  /\ middle = "fork"
  /\ middle' = "exit"
  /\ \/ daemon' = "close" /\ Inherits("daemon", "middle")
     \/ UNCHANGED <<daemon, writers, readers>>
  /\ UNCHANGED <<client, pipe, piped>>

MiddleExits ==
  /\ middle = "exit"
  /\ middle' = "exited"
  /\ Closes("middle")
  /\ UNCHANGED <<client, daemon, pipe, piped>>

MutantCloseClientFd ==
  /\ daemon = "close"
  /\ daemon' = "poll"
  /\ UNCHANGED <<client, middle, writers, readers, pipe, piped>>

CloseClientFd ==
  /\ daemon = "close"
  /\ daemon' = "poll"
  /\ writers' = writers \ {"daemon"}
  /\ UNCHANGED <<client, middle, readers, pipe, piped>>

\* value_timedwait gives up after 200 ms
WaitTimesOut ==
  /\ client = "wait"
  /\ client' = "use"
  /\ readers' = readers \ {"client"}
  /\ UNCHANGED <<middle, daemon, writers, pipe, piped>>

\* Without a reader the write raises SIGPIPE, which ends the client; without a
\* pipe it fails, and send answers false.
SendMessage ==
  /\ client = "use" /\ piped /\ pipe < Sends
  /\ IF readers = {} THEN client' = "killed" /\ Closes("client") /\ UNCHANGED pipe
                     ELSE pipe' = pipe + 1 /\ UNCHANGED <<client, writers, readers>>
  /\ UNCHANGED <<middle, daemon, piped>>

\* shutdown, the destructor, or the end of the client
Shutdown ==
  /\ client = "use"
  /\ client' = "done"
  /\ Closes("client")
  /\ UNCHANGED <<middle, daemon, pipe, piped>>

\* The client may also be killed at any time.
ClientKilled ==
  /\ client \in {"fork", "wait", "use"}
  /\ client' = "killed"
  /\ Closes("client")
  /\ UNCHANGED <<middle, daemon, pipe, piped>>

\* poll reports a hang-up, whether or not messages are left in the pipe.  It ignores
\* a descriptor of -1: without a pipe it only ever times out.
HangUp ==
  /\ daemon = "poll" /\ piped /\ writers = {}
  /\ daemon' = "exited"
  /\ Closes("daemon")
  /\ UNCHANGED <<client, middle, pipe, piped>>

\* "Whatever, just die": poll itself may fail, whoever still writes.
PollFails ==
  /\ daemon = "poll"
  /\ daemon' = "gave up"
  /\ Closes("daemon")
  /\ UNCHANGED <<client, middle, pipe, piped>>

\* One read takes all that is in the pipe.
Receive ==
  /\ daemon = "poll" /\ writers # {} /\ pipe > 0
  /\ pipe' = 0
  /\ UNCHANGED <<client, middle, daemon, writers, readers, piped>>

DaemonStep == CloseClientFd \/ HangUp \/ Receive
MiddleStep == ForkDaemon \/ MiddleExits
ClientStep == MakePipe \/ ForkMiddle \/ WaitTimesOut \/ SendMessage \/ Shutdown

DaemonNext == DaemonStep \/ MiddleStep \/ ClientStep \/ ClientKilled \/ PollFails

\* "it will clean itself up": a daemon that has a pipe ends some time after its
\* client has shut it down, ended or been killed, whichever process was scheduled
\* first; a failing poll only makes it end before.
DaemonCleansUp == daemon = "close" /\ piped ~> daemon \in {"exited", "gave up"}
=============================================================================
