----------------------------- MODULE NoPeeking ------------------------------
(***************************************************************************)
(* The registry of nopeeking_registry/src/nopeeking.c under the program of *)
(* main.c: every process opens a multicast sender, moves it to a high      *)
(* descriptor, sends a message, peeks at a process, sends again, peeks     *)
(* again and cleans up.  main.c peeks at itself; the header offers any pid *)
(* ("Client functions"), so the target of a peek is any process.           *)
(*                                                                         *)
(* A datagram is [size, len, id]: the size its snowflake claims, the bytes *)
(* that follow the snowflake (-1 for a datagram shorter than a snowflake)  *)
(* and which datagram it is.                                               *)
(* Descriptor 0 is stdin; the first socket of a process is descriptor 3.   *)
(***************************************************************************)
EXTENDS Integers, Sequences, FiniteSetsExt

CONSTANTS
  Processes,
  Limits,      \* values of RLIMIT_NOFILE
  Groups,      \* multicast addresses that may be generated
  MsgSizes,    \* sizes of the messages sent
  Strays,      \* <<size, len>> of datagrams that other hosts may send to a receiver
  MaxStrays    \* bound: stray datagrams in a behaviour

ASSUME NoPeekingAssumption ==
  /\ Limits \subseteq Nat
  /\ MsgSizes \subseteq Nat
  /\ MaxStrays \in Nat

VARIABLES
  at,          \* where in main.c each process is
  round,       \* first or second message
  sockfd,      \* g_multicast_ctx.sockfd
  group,       \* the address the sender is connected to
  fds,         \* descriptors of the sender socket
  ctxs,        \* sockets made by np_peek_message: group, bound port, queue
  peek,        \* the peek under way: target, inode, size and datagram first
               \* seen, result
  built,       \* history: contexts whose initialization succeeded
  strays

loc == <<at, round>>
own == <<sockfd, group, fds>>
nvars == <<loc, own, ctxs, peek, built, strays>>

None == "none"
First == 3

\* No peek under way.
NoPeek(p) == [target |-> p, inode |-> None, size |-> 0, seen |-> 0, result |-> <<>>]

PeekInit ==
  /\ at = [p \in Processes |-> "init"]
  /\ round = [p \in Processes |-> 1]
  /\ sockfd = [p \in Processes |-> 0]
  /\ group = [p \in Processes |-> None]
  /\ fds = [p \in Processes |-> {}]
  /\ ctxs = [p \in Processes |-> <<>>]
  /\ peek = [p \in Processes |-> NoPeek(p)]
  /\ built = [p \in Processes |-> 0]
  /\ strays = 0

To(p, step) == at' = [at EXCEPT ![p] = step]

-----------------------------------------------------------------------------
(* np_socket_init.  It is a bool function that returns -1 on failure, so   *)
(* main goes on to its first message whatever happened.                    *)

\* socket, setsockopt or connect fails: sockfd keeps its initial zero.
SenderFails(p) ==
  /\ at[p] = "init"
  /\ To(p, "modify")
  /\ UNCHANGED <<round, own, ctxs, peek, built, strays>>

SenderOpens(p) ==
  /\ at[p] = "init"
  /\ \E a \in Groups : group' = [group EXCEPT ![p] = a]
  /\ sockfd' = [sockfd EXCEPT ![p] = First]
  /\ fds' = [fds EXCEPT ![p] = {First}]
  /\ To(p, "position")
  /\ UNCHANGED <<round, ctxs, peek, built, strays>>

\* dup2 fails for a number that is not below the limit.
Targets(p, limit) == {n \in {2 ^ power : power \in 0 .. 30} : sockfd[p] < n /\ n < limit}

Position(p, limit) ==
  /\ at[p] = "position"
  /\ LET n == IF Targets(p, limit) = {} THEN -1 ELSE Max(Targets(p, limit))
     IN  /\ sockfd' = [sockfd EXCEPT ![p] = n]
         /\ fds' = [fds EXCEPT ![p] = {n} \ {-1}]
  /\ To(p, "modify")
  /\ UNCHANGED <<round, group, ctxs, peek, built, strays>>

-----------------------------------------------------------------------------
(* np_modify_message *)

\* The sender is connected to port 0 and the receivers bind port 0, which
\* gives them a port of the kernel's choice.
DestPort == "port 0"
BoundPort == "ephemeral"

Deliver(a, d) ==
  [q \in Processes |-> [i \in DOMAIN ctxs[q] |->
     IF ctxs[q][i].group = a /\ ctxs[q][i].port = DestPort
       THEN [ctxs[q][i] EXCEPT !.queue = Append(@, d)] ELSE ctxs[q][i]]]

\* The number stands for a socket; 0 is stdin, and -1 is refused.
IsSocket(p) == sockfd[p] \in fds[p]

Modify(p, size) ==
  /\ at[p] = "modify" /\ IsSocket(p)
  /\ ctxs' = Deliver(group[p], [size |-> size, len |-> size, id |-> 0])
  /\ To(p, "pause")
  /\ UNCHANGED <<round, own, peek, built, strays>>

MutantModifyFails(p) ==
  /\ at[p] = "modify"
  /\ To(p, "pause")
  /\ UNCHANGED <<round, own, ctxs, peek, built, strays>>

\* No descriptor, no memory, or send failed.  Only the first failure is fatal.
ModifyFails(p) ==
  /\ at[p] = "modify"
  /\ To(p, IF round[p] = 1 THEN "cleanup" ELSE "pause")
  /\ UNCHANGED <<round, own, ctxs, peek, built, strays>>

-----------------------------------------------------------------------------
(* np_peek_message *)

\* readlink of /proc/<target>/fd/<sockfd of the caller>
PeekInode(p, q) ==
  /\ at[p] = "pause"
  /\ peek' = [peek EXCEPT ![p] = [NoPeek(q) EXCEPT
                 !.inode = IF sockfd[p] \in fds[q] THEN group[q] ELSE None]]
  /\ To(p, "scan")
  /\ UNCHANGED <<round, own, ctxs, built, strays>>

AfterPeek(p) == To(p, IF round[p] = 1 THEN "modify" ELSE "cleanup")
             /\ round' = [round EXCEPT ![p] = 2]

\* The target's socket is still listed in /proc/net/udp.
Listed(p) == peek[p].inode # None /\ fds[peek[p].target] # {}

\* No inode, no such line, or fopen or socket failed: there is nothing to close.
ContextFails(p) ==
  /\ at[p] = "scan"
  /\ AfterPeek(p)
  /\ peek' = [peek EXCEPT ![p] = NoPeek(p)]
  /\ UNCHANGED <<own, ctxs, built, strays>>

MakeSocket(p) ==
  /\ at[p] = "scan" /\ Listed(p)
  /\ ctxs' = [ctxs EXCEPT ![p] = Append(@, [group |-> None, port |-> None, queue |-> <<>>])]
  /\ To(p, "reuse")
  /\ UNCHANGED <<round, own, peek, built, strays>>

\* A later call failed: the socket is closed and the peek returns NULL.
CloseAndFail(p) ==
  /\ ctxs' = [ctxs EXCEPT ![p] = SubSeq(@, 1, Len(@) - 1)]
  /\ AfterPeek(p)
  /\ peek' = [peek EXCEPT ![p] = NoPeek(p)]
  /\ UNCHANGED <<own, built, strays>>

\* SO_REUSEADDR
ReuseAddr(p) ==
  /\ at[p] = "reuse"
  /\ \/ CloseAndFail(p)
     \/ To(p, "bind") /\ UNCHANGED <<round, own, ctxs, peek, built, strays>>

BindSocket(p) ==
  /\ at[p] = "bind"
  /\ \/ CloseAndFail(p)
     \/ /\ ctxs' = [ctxs EXCEPT ![p] = [@ EXCEPT ![Len(@)].port = BoundPort]]
        /\ To(p, "join")
        /\ UNCHANGED <<round, own, peek, built, strays>>

MutantJoinGroup(p) ==
  /\ at[p] = "join"
  /\ \/ AfterPeek(p) /\ peek' = [peek EXCEPT ![p] = NoPeek(p)] /\ UNCHANGED <<own, ctxs, built, strays>>
     \/ /\ ctxs' = [ctxs EXCEPT ![p] = [@ EXCEPT ![Len(@)].group = peek[p].inode]]
        /\ built' = [built EXCEPT ![p] = @ + 1]
        /\ To(p, "peek")
        /\ UNCHANGED <<round, own, peek, strays>>

\* IP_ADD_MEMBERSHIP
JoinGroup(p) ==
  /\ at[p] = "join"
  /\ \/ CloseAndFail(p)
     \/ /\ ctxs' = [ctxs EXCEPT ![p] = [@ EXCEPT ![Len(@)].group = peek[p].inode]]
        /\ built' = [built EXCEPT ![p] = @ + 1]
        /\ To(p, "peek")
        /\ UNCHANGED <<round, own, peek, strays>>

Queue(p) == ctxs[p][Len(ctxs[p])].queue

\* Nothing there, a size of zero, or no memory: NULL, and the socket stays open.
PeekNothing(p) ==
  /\ at[p] = "peek"
  /\ AfterPeek(p)
  /\ peek' = [peek EXCEPT ![p] = NoPeek(p)]
  /\ UNCHANGED <<own, ctxs, built, strays>>

\* A datagram shorter than the snowflake leaves part of it uninitialized.
ClaimedSizes(d) == (IF d.len < 0 THEN MsgSizes ELSE {d.size}) \ {0}

MutantFirstRecv(p) ==
  /\ at[p] = "peek" /\ Queue(p) # <<>>
  /\ \E s \in ClaimedSizes(Head(Queue(p))) : peek' = [peek EXCEPT ![p].size = s, ![p].seen = Head(Queue(p)).id]
  /\ ctxs' = [ctxs EXCEPT ![p] = [@ EXCEPT ![Len(@)].queue = Tail(@)]]
  /\ To(p, "peek again")
  /\ UNCHANGED <<round, own, built, strays>>

FirstRecv(p) ==
  /\ at[p] = "peek" /\ Queue(p) # <<>>
  /\ \E s \in ClaimedSizes(Head(Queue(p))) : peek' = [peek EXCEPT ![p].size = s, ![p].seen = Head(Queue(p)).id]
  /\ To(p, "peek again")
  /\ UNCHANGED <<round, own, ctxs, built, strays>>

\* recv fills the buffer, and the snowflake is the one seen before
Accepts(size, d) == d.len >= size /\ d.size = size

\* The second recv waits for a datagram.
SecondRecv(p) ==
  /\ at[p] = "peek again" /\ Queue(p) # <<>>
  /\ \/ peek' = [peek EXCEPT ![p] = NoPeek(p)]           \* rejected, or no memory
     \/ /\ Accepts(peek[p].size, Head(Queue(p)))
        /\ peek' = [peek EXCEPT ![p] = [peek[p] EXCEPT !.target = p, !.inode = None,
                                                        !.result = <<Head(Queue(p))>>]]
  /\ AfterPeek(p)
  /\ UNCHANGED <<own, ctxs, built, strays>>

-----------------------------------------------------------------------------
\* np_socket_cleanup; with a sockfd of 0 it is stdin that is closed.
Cleanup(p) ==
  /\ at[p] = "cleanup"
  /\ fds' = [fds EXCEPT ![p] = @ \ {sockfd[p]}]
  /\ sockfd' = [sockfd EXCEPT ![p] = -1]
  /\ To(p, "closed")
  /\ UNCHANGED <<round, group, ctxs, peek, built, strays>>

\* main returns and the kernel closes what the process has left open.
Exit(p) ==
  /\ at[p] = "closed"
  /\ ctxs' = [ctxs EXCEPT ![p] = <<>>]
  /\ To(p, "exited")
  /\ UNCHANGED <<round, own, peek, built, strays>>

\* It reaches a socket that is bound.
Stray(p, d) ==
  /\ strays < MaxStrays /\ ctxs[p] # <<>> /\ ctxs[p][Len(ctxs[p])].port = BoundPort
  /\ strays' = strays + 1
  /\ ctxs' = [ctxs EXCEPT ![p][Len(ctxs[p])].queue =
                Append(@, [size |-> d[1], len |-> d[2], id |-> strays'])]
  /\ UNCHANGED <<loc, own, peek, built>>

Step(p) ==
  \/ SenderFails(p) \/ SenderOpens(p) \/ (\E limit \in Limits : Position(p, limit))
  \/ (\E size \in MsgSizes : Modify(p, size)) \/ ModifyFails(p)
  \/ (\E q \in Processes : PeekInode(p, q))
  \/ ContextFails(p) \/ MakeSocket(p) \/ ReuseAddr(p) \/ BindSocket(p) \/ JoinGroup(p)
  \/ PeekNothing(p) \/ FirstRecv(p) \/ SecondRecv(p)
  \/ Cleanup(p) \/ Exit(p)

PeekNext == \E p \in Processes : Step(p) \/ \E d \in Strays : Stray(p, d)

\* Every process keeps running; the network owes nothing.
PeekSpec == PeekInit /\ [][PeekNext]_nvars /\ \A p \in Processes : WF_nvars(Step(p))

-----------------------------------------------------------------------------
(* Properties *)

\* A socket that np_peek_message is still setting up.
SettingUp(p) == at[p] \in {"reuse", "bind", "join"}

\* np_socket_init answers true when it failed.  What saves main is that the
\* send then fails: no process gets past its first message without a socket.
SentNeedsSocket ==
  \A p \in Processes :
    at[p] \in {"pause", "scan", "peek", "peek again"} \/ SettingUp(p) => IsSocket(p)

\* What a peek returns is as long as the snowflake said and comes whole from the
\* very datagram whose snowflake was read first, whatever arrived between the
\* two peeks and whatever a short datagram left in the snowflake.
ResultIsOneDatagram ==
  \A p \in Processes : peek[p].result # <<>> =>
    LET d == Head(peek[p].result) IN d.id = peek[p].seen /\ d.len >= peek[p].size

\* np_peek_message never closes the socket of a context that was built, and each
\* failure of its initialization closes the one it made: whichever calls failed,
\* a process holds one socket for every context that was built, and the one it
\* is setting up.
LeaksAccounted ==
  \A p \in Processes : at[p] # "exited" =>
    Len(ctxs[p]) = built[p] + (IF SettingUp(p) THEN 1 ELSE 0)

\* The second recv may block, but the datagram of the first is still queued:
\* every peek returns.
PeekReturns == \A p \in Processes : at[p] = "scan" ~> at[p] \in {"modify", "cleanup"}
=============================================================================
