---------------------------- MODULE SegvHandlers ----------------------------
(***************************************************************************)
(* Two programs that handle SIGSEGV.  sigsegv_return_from_kill/watchseg.c: *)
(* a second thread raises it with kill, tgkill or a bad store; the handler *)
(* restores the default action and raises it again in one of these ways,   *)
(* as an ordinary process or as PID 1 of a namespace.                      *)
(* sigaction_deadlock/deadlock.c: a handler that may fault itself, with or *)
(* without SA_NODEFER and a static guard.                                  *)
(* Signal delivery is the kernel's, modelled from what the programs rely   *)
(* on.                                                                     *)
(*                                                                         *)
(* A thread is its program and the handler frames on its stack.  A fault   *)
(* does not execute the store, so that the thread faults again when the    *)
(* handler returns.                                                        *)
(***************************************************************************)
EXTENDS Integers, Sequences, SequencesExt

CONSTANT StackDepth  \* bound: handler frames that fit on a stack

ASSUME StackAssumption == StackDepth \in Nat \ 0..1

VARIABLES
  opt,       \* the program and its command line
  disp,      \* action of SIGSEGV: "handler" or "default"
  proc,      \* "running", or how the process ended
  base,      \* where each thread is below its handlers
  frames,    \* the handler frames of each thread
  is_first,  \* the static flag of deadlock.c
  returned   \* history: a handler that raised the signal again has returned

svars == <<opt, disp, proc, base, frames, is_first, returned>>

SegThreads == {"main", "killer", "bg"}
Ways == {"kill", "tgkill", "fault"}

WatchOptions ==
  [prog : {"watchseg"}, crash : Ways, signal : Ways, container : BOOLEAN, noraise : BOOLEAN,
   thread : BOOLEAN, nodefer : {TRUE}, recurse : {FALSE}, static : {FALSE}]

DeadlockOptions ==
  [prog : {"deadlock"}, crash : {"fault"}, signal : {"fault"}, container : {FALSE},
   noraise : {FALSE}, thread : {FALSE}, nodefer : BOOLEAN, recurse : BOOLEAN, static : BOOLEAN]

\* Where each thread starts.
FirstStep(t) ==
  CASE t = "bg" -> IF opt.thread THEN "hello" ELSE "ended"
    [] t = "main" -> IF opt.prog = "watchseg" THEN "hello" ELSE "raise"
    [] t = "killer" -> IF opt.prog = "watchseg" THEN "raise" ELSE "ended"

\* unshare and fork, for a process that wants to be PID 1, can fail.
Namespace == {"running"} \cup IF opt.container THEN {"failed"} ELSE {}

\* The command line is read and the handler installed.
SegInit ==
  /\ opt \in WatchOptions \cup DeadlockOptions
  /\ disp = "handler"
  /\ proc \in Namespace
  /\ base = [t \in SegThreads |-> FirstStep(t)]
  /\ frames = [t \in SegThreads |-> <<>>]
  /\ is_first = TRUE /\ returned = FALSE

-----------------------------------------------------------------------------
(* Delivery of SIGSEGV by the kernel *)

Enter(f, u, cause) == [f EXCEPT ![u] = Append(@, [at |-> "enter", cause |-> cause])]

\* kill or tgkill reaches thread u, with f the frames once the call returns.  The
\* default action spares PID 1.
Signal(u, f) ==
  IF disp = "handler" THEN frames' = Enter(f, u, "signal") /\ UNCHANGED proc
  ELSE frames' = f /\ proc' = IF opt.container THEN proc ELSE "killed"

\* The store faults in thread t.  A fault that is blocked, has no handler or no
\* stack for it kills the process, PID 1 too.
Fault(t) ==
  IF /\ disp = "handler"
     /\ frames[t] = <<>> \/ opt.nodefer
     /\ Len(frames[t]) < StackDepth
  THEN frames' = Enter(frames, t, "fault") /\ UNCHANGED proc
  ELSE proc' = "killed" /\ UNCHANGED frames

-----------------------------------------------------------------------------
(* The threads below their handlers *)

Alive == {t \in SegThreads : base[t] # "ended"}
Running(t) == proc = "running" /\ frames[t] = <<>>

\* kill_thread, or main of deadlock.c
RaiseSignal(t) ==
  /\ Running(t) /\ base[t] = "raise" /\ opt.crash # "fault"
  /\ \E u \in Alive : (opt.crash = "tgkill" => u = "main") /\ Signal(u, frames)
  /\ base' = [base EXCEPT ![t] = "alive"]
  /\ UNCHANGED <<opt, disp, is_first, returned>>

RaiseFault(t) ==
  /\ Running(t) /\ base[t] = "raise" /\ opt.crash = "fault"
  /\ Fault(t)
  /\ UNCHANGED <<opt, disp, base, is_first, returned>>

\* "I raised a segfault, but I'm alive now.", or bg_thread is through
ThreadEnds(t) ==
  /\ t # "main" /\ Running(t) /\ base[t] \in {"alive", "hello"}
  /\ base' = [base EXCEPT ![t] = "ended"]
  /\ UNCHANGED <<opt, disp, proc, frames, is_first, returned>>

\* main has said hello often enough, or was told to exit at once.
MainReturns ==
  /\ Running("main") /\ base["main"] = "hello"
  /\ proc' = "exited"
  /\ UNCHANGED <<opt, disp, base, frames, is_first, returned>>

-----------------------------------------------------------------------------
(* The handlers *)

In(t, step) == proc = "running" /\ frames[t] # <<>> /\ Last(frames[t]).at = step
Step(t, step) == [frames EXCEPT ![t] = [@ EXCEPT ![Len(@)].at = step]]

MutantRestore(t) ==
  /\ In(t, "enter") /\ opt.prog = "watchseg"
  /\ frames' = Step(t, IF opt.noraise THEN "return" ELSE "raise again")
  /\ UNCHANGED <<opt, disp, proc, base, is_first, returned>>

\* segfault_handler of watchseg.c puts the old action back.
Restore(t) ==
  /\ In(t, "enter") /\ opt.prog = "watchseg"
  /\ disp' = IF opt.noraise THEN disp ELSE "default"
  /\ frames' = Step(t, IF opt.noraise THEN "return" ELSE "raise again")
  /\ UNCHANGED <<opt, proc, base, is_first, returned>>

\* do_segfault in the handler: kill reaches any thread, tgkill its own.
RaiseAgain(t) ==
  /\ In(t, "raise again")
  /\ IF opt.signal = "fault" THEN Fault(t)
     ELSE \E u \in Alive : (opt.signal = "tgkill" => u = t) /\ Signal(u, Step(t, "returning"))
  /\ UNCHANGED <<opt, disp, base, is_first, returned>>

HandlerReturns(t) ==
  /\ In(t, "return") \/ In(t, "returning")
  /\ returned' = (returned \/ In(t, "returning"))
  /\ frames' = [frames EXCEPT ![t] = Front(@)]
  /\ UNCHANGED <<opt, disp, proc, base, is_first>>

MutantGuard(t) ==
  /\ In(t, "enter") /\ opt.prog = "deadlock"
  /\ frames' = Step(t, "work")
  /\ UNCHANGED <<opt, disp, proc, base, is_first, returned>>

\* segfault_handler of deadlock.c: the static check ...
Guard(t) ==
  /\ In(t, "enter") /\ opt.prog = "deadlock"
  /\ is_first' = (is_first /\ ~opt.static)
  /\ IF opt.static /\ ~is_first THEN proc' = "exited" /\ UNCHANGED frames
                                ELSE frames' = Step(t, "work") /\ UNCHANGED proc
  /\ UNCHANGED <<opt, disp, base, returned>>

\* ... then a second fault, or exit(1)
Work(t) ==
  /\ In(t, "work")
  /\ IF opt.recurse THEN Fault(t) ELSE proc' = "exited" /\ UNCHANGED frames
  /\ UNCHANGED <<opt, disp, base, is_first, returned>>

SegNext ==
  \/ MainReturns
  \/ \E t \in SegThreads :
       \/ RaiseSignal(t) \/ RaiseFault(t) \/ Restore(t) \/ RaiseAgain(t)
       \/ ThreadEnds(t) \/ HandlerReturns(t) \/ Guard(t) \/ Work(t)

-----------------------------------------------------------------------------
(* Properties *)

\* The handler comes back from raising the signal again only in PID 1, and only
\* when it was raised with kill or tgkill; everywhere else the process dies.
ReturnsOnlyAsInit == returned => opt.container /\ opt.signal # "fault"

\* A fault interrupts the handler only under SA_NODEFER ("you can't interrupt
\* segfaults with segfaults"), and the static flag then ends the recursion with
\* exit at the second frame, where without it the stack overflows.
RecursionBounded ==
  opt.prog = "deadlock" =>
    /\ Len(frames["main"]) > 1 => opt.nodefer
    /\ opt.static => Len(frames["main"]) <= 2
    /\ opt.static /\ opt.nodefer => proc # "killed"
=============================================================================
