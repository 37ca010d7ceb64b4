--------------------------- MODULE PidOneWrapper ----------------------------
(***************************************************************************)
(* pid_1_signals: wrapper.c forks a binary, sets the action of SIGTERM and *)
(* SIGINT as its mode says and polls for the child for ten rounds;         *)
(* sigterm_test.c is the binary.  Signals arrive at any moment, at the     *)
(* wrapper or, from a terminal, at both.  A signal is handled when it is   *)
(* sent.                                                                   *)
(***************************************************************************)
EXTENDS Integers

CONSTANTS
  Rounds,      \* rounds of the wait loop (10 in the code)
  MaxSignals   \* bound: signals sent in a behaviour

ASSUME WrapperAssumption == {Rounds, MaxSignals} \subseteq Nat

VARIABLES
  mode,        \* command line
  pid_one,     \* the wrapper is PID 1 of its namespace
  wrapper,     \* where the wrapper is
  child_pid,   \* the variable is set
  action,      \* action of SIGTERM and SIGINT in the wrapper
  rounds,
  status,      \* exit status of the wrapper
  child,       \* where the child is
  got_signal,
  sent,        \* signals sent so far
  dropped      \* history: the handler ran and passed nothing on

kid == <<child, got_signal>>
wrp == <<wrapper, child_pid, action, rounds, status>>
wvars == <<mode, pid_one, wrp, kid, sent, dropped>>

Modes == {"default", "no-ignore", "ignore", "pass", "invalid"}
Signals == {"TERM", "INT"}

WrapperInit ==
  /\ mode \in Modes /\ pid_one \in BOOLEAN
  /\ wrapper = "fork" /\ child_pid = FALSE
  /\ action = [s \in Signals |-> "default"]
  /\ rounds = 0 /\ status = "none"
  /\ child = "unborn" /\ got_signal = FALSE
  /\ sent = 0 /\ dropped = FALSE

-----------------------------------------------------------------------------
(* Signals *)

ChildAlive == child \in {"exec", "loop", "about to pause", "pause"}

\* sigterm_test.c handles SIGINT, once it has come that far; pause returns.
ChildTakes(s) ==
  IF ~ChildAlive THEN UNCHANGED kid
  ELSE IF s = "INT" /\ child # "exec"
    THEN got_signal' = TRUE /\ child' = IF child = "pause" THEN "loop" ELSE child
    ELSE child' = "killed" /\ UNCHANGED got_signal

WrapperAlive == wrapper # "exited"

\* signal_pass_handler; the default action spares PID 1.
WrapperTakes(s, terminal) ==
  /\ IF action[s] = "default" /\ ~pid_one
       THEN wrapper' = "exited" /\ status' = "killed" ELSE UNCHANGED <<wrapper, status>>
  /\ dropped' = (dropped \/ (action[s] = "pass" /\ ~child_pid))
  /\ IF terminal \/ (action[s] = "pass" /\ child_pid) THEN ChildTakes(s) ELSE UNCHANGED kid
  /\ UNCHANGED <<child_pid, action, rounds>>

Send(s, terminal) ==
  /\ sent < MaxSignals /\ WrapperAlive
  /\ sent' = sent + 1
  /\ WrapperTakes(s, terminal)
  /\ UNCHANGED <<mode, pid_one>>

-----------------------------------------------------------------------------
(* wrapper.c *)

At(step, next) == wrapper = step /\ wrapper' = next

Fork ==
  /\ At("fork", "set pid")
  /\ child' = "exec"
  /\ UNCHANGED <<mode, pid_one, child_pid, action, rounds, status, got_signal, sent, dropped>>

ForkFails ==
  /\ At("fork", "exited")
  /\ status' = "failure"
  /\ UNCHANGED <<mode, pid_one, child_pid, action, rounds, kid, sent, dropped>>

MutantSetPid ==
  /\ At("set pid", "TERM")
  /\ UNCHANGED <<mode, pid_one, child_pid, action, rounds, status, kid, sent, dropped>>

SetPid ==
  /\ At("set pid", IF mode = "default" THEN "wait" ELSE "TERM")
  /\ child_pid' = TRUE
  /\ UNCHANGED <<mode, pid_one, action, rounds, status, kid, sent, dropped>>

ActionOf == CASE mode = "ignore" -> "ignore" [] mode = "pass" -> "pass" [] OTHER -> "default"

SetAction(s, next) ==
  /\ mode # "invalid"
  /\ At(s, next)
  /\ action' = [action EXCEPT ![s] = ActionOf]
  /\ UNCHANGED <<mode, pid_one, child_pid, rounds, status, kid, sent, dropped>>

InvalidMode ==
  /\ mode = "invalid"
  /\ At("TERM", "exited")
  /\ status' = "failure"
  /\ ChildTakes("TERM")
  /\ UNCHANGED <<mode, pid_one, child_pid, action, rounds, sent, dropped>>

\* waitpid finds the child dead
Reap ==
  /\ At("wait", "exited") /\ rounds < Rounds
  /\ child \in {"clean", "failed", "killed"}
  /\ status' = IF child = "clean" THEN "success" ELSE "failure"
  /\ UNCHANGED <<mode, pid_one, child_pid, action, rounds, kid, sent, dropped>>

SleepOneSecond ==
  /\ wrapper = "wait" /\ rounds < Rounds /\ child \notin {"clean", "failed", "killed"}
  /\ rounds' = rounds + 1
  /\ UNCHANGED <<mode, pid_one, wrapper, child_pid, action, status, kid, sent, dropped>>

Timeout ==
  /\ At("wait", "exited") /\ rounds = Rounds
  /\ status' = "success"
  /\ UNCHANGED <<mode, pid_one, child_pid, action, rounds, kid, sent, dropped>>

-----------------------------------------------------------------------------
(* sigterm_test.c *)

\* execl works and the program installs its handler, or one of them fails.
Exec ==
  /\ child = "exec"
  /\ child' \in {"loop", "failed"}
  /\ UNCHANGED <<mode, pid_one, wrp, got_signal, sent, dropped>>

\* The test of got_signal and the pause are two steps.
Test ==
  /\ child = "loop"
  /\ child' = IF got_signal THEN "clean" ELSE "about to pause"
  /\ UNCHANGED <<mode, pid_one, wrp, got_signal, sent, dropped>>

Pause ==
  /\ child = "about to pause"
  /\ child' = "pause"
  /\ UNCHANGED <<mode, pid_one, wrp, got_signal, sent, dropped>>

\* The end of PID 1 is the end of its namespace.
NamespaceEnds ==
  /\ pid_one /\ ~WrapperAlive /\ ChildAlive
  /\ child' = "killed"
  /\ UNCHANGED <<mode, pid_one, wrp, got_signal, sent, dropped>>

WrapperNext ==
  \/ \E s \in Signals, terminal \in BOOLEAN : Send(s, terminal)
  \/ Fork \/ ForkFails \/ SetPid \/ SetAction("TERM", "INT") \/ SetAction("INT", "wait")
  \/ InvalidMode \/ Reap \/ SleepOneSecond \/ Timeout
  \/ Exec \/ Test \/ Pause \/ NamespaceEnds

-----------------------------------------------------------------------------
(* Properties *)

\* From the fork on, whenever a signal comes: the pass handler never finds
\* child_pid unset, so that every signal it takes is passed on; and the wrapper
\* reports success for a child it reaped only if a signal reached that child.
HandledIsForwarded ==
  /\ ~dropped
  /\ status = "success" => got_signal \/ rounds = Rounds

\* README.md on the pass mode as PID 1: "Wrapper forwards SIGTERM to child, clean
\* exit": no signal that reaches the wrapper in its wait loop kills a child that
\* has come to its own loop.
CleanExit ==
  [][pid_one /\ mode = "pass" /\ wrapper = "wait" /\ child \in {"loop", "about to pause", "pause"}
       => child' # "killed"]_wvars
=============================================================================
