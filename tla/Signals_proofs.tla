--------------------------- MODULE Signals_proofs ---------------------------
(***************************************************************************)
(* Theorems about the programs of MCSignals: the two SIGSEGV handlers, for *)
(* every depth of the stack, the wrapper, for every number of rounds and   *)
(* signals, and the daemon.                                                *)
(***************************************************************************)
EXTENDS MCSignals, SequenceTheorems, TLAPS

-----------------------------------------------------------------------------
(* pid_1_signals *)

WrapperInv ==
  /\ action \in [Signals -> {"default", "ignore", "pass"}]
  /\ child_pid \in BOOLEAN /\ dropped = FALSE
  /\ wrapper \in {"TERM", "INT", "wait"} => child_pid
  /\ \A s \in Signals : action[s] = "pass" => child_pid
  /\ child = "clean" => got_signal = TRUE
  /\ status = "success" => wrapper = "exited" /\ (got_signal = TRUE \/ rounds = Rounds)

\* A signal changes the child only towards having received it, or kills it.
LEMMA ChildTaking ==
  ASSUME NEW s \in Signals, WrapperInv, ChildTakes(s) \/ UNCHANGED kid
  PROVE  /\ child' = "clean" => got_signal' = TRUE
         /\ got_signal = TRUE => got_signal' = TRUE
<1>1. CASE UNCHANGED kid
  BY <1>1 DEF WrapperInv, kid
<1>2. CASE ChildTakes(s)
  BY <1>2 DEF WrapperInv, ChildTakes, ChildAlive, kid
<1> QED
  BY <1>1, <1>2

\* A signal that comes at any moment keeps the invariant of the wrapper.
LEMMA SendSteps ==
  ASSUME WrapperInv, NEW s \in Signals, NEW terminal \in BOOLEAN, Send(s, terminal)
  PROVE  WrapperInv'
<1>1. WrapperTakes(s, terminal) /\ wrapper # "exited"
  BY DEF Send, WrapperAlive
<1>2. UNCHANGED <<child_pid, action, rounds>>
  BY <1>1 DEF WrapperTakes
<1>3. status # "success"
  BY <1>1 DEF WrapperInv
<1>4. \/ wrapper' = "exited" /\ status' = "killed"
      \/ UNCHANGED <<wrapper, status>>
  BY <1>1 DEF WrapperTakes
<1>5. child' = "clean" => got_signal' = TRUE
  <2>1. ChildTakes(s) \/ UNCHANGED kid
    BY <1>1 DEF WrapperTakes
  <2> QED
    BY <2>1, ChildTaking
<1>6. dropped' = FALSE
  <2>1. dropped' = (dropped \/ (action[s] = "pass" /\ ~child_pid))
    BY <1>1 DEF WrapperTakes
  <2>2. action[s] = "pass" => child_pid
    BY DEF WrapperInv
  <2> QED
    BY <2>1, <2>2 DEF WrapperInv
<1> QED
  BY <1>2, <1>3, <1>4, <1>5, <1>6 DEF WrapperInv

\* So does every step of the wrapper and of its child.
LEMMA WrapperSteps == ASSUME WrapperInv, WrapperNext PROVE WrapperInv'
<1>1. CASE \E s \in Signals, terminal \in BOOLEAN : Send(s, terminal)
  BY <1>1, SendSteps
<1>2. CASE Fork
  BY <1>2 DEF Fork, At, WrapperInv
<1>3. CASE ForkFails
  BY <1>3 DEF ForkFails, At, WrapperInv, kid
<1>4. CASE SetPid
  BY <1>4 DEF SetPid, At, WrapperInv, kid
<1>5. ASSUME NEW s \in Signals, NEW next \in {"INT", "wait"}, SetAction(s, next)
      PROVE  WrapperInv'
  <2>1. ActionOf \in {"default", "ignore", "pass"}
    BY DEF ActionOf
  <2>2. wrapper \in {"TERM", "INT"} /\ wrapper' = next
    BY <1>5 DEF SetAction, At, Signals
  <2>3. action' = [action EXCEPT ![s] = ActionOf]
        /\ UNCHANGED <<child_pid, rounds, status, kid, dropped>>
    BY <1>5 DEF SetAction
  <2>4. child_pid
    BY <2>2 DEF WrapperInv
  <2> HIDE DEF ActionOf
  <2>5. action' \in [Signals -> {"default", "ignore", "pass"}]
    BY <2>1, <2>3 DEF WrapperInv
  <2> QED
    BY <2>2, <2>3, <2>4, <2>5 DEF WrapperInv, kid
<1>6. CASE InvalidMode
  <2>1. child' = "clean" => got_signal' = TRUE
    BY <1>6, ChildTaking DEF InvalidMode, Signals
  <2> QED
    BY <1>6, <2>1 DEF InvalidMode, At, WrapperInv
<1>7. CASE Reap
  BY <1>7 DEF Reap, At, WrapperInv, kid
<1>8. CASE SleepOneSecond
  BY <1>8 DEF SleepOneSecond, WrapperInv, kid
<1>9. CASE Timeout
  BY <1>9 DEF Timeout, At, WrapperInv, kid
<1>10. CASE Exec \/ Pause \/ NamespaceEnds
  BY <1>10 DEF Exec, Pause, NamespaceEnds, WrapperInv, wrp
<1>11. CASE Test
  BY <1>11 DEF Test, WrapperInv, wrp
<1> QED
  BY <1>1, <1>2, <1>3, <1>4, <1>5, <1>6, <1>7, <1>8, <1>9, <1>10, <1>11 DEF WrapperNext, Signals

\* Whenever the signals come, the pass handler finds child_pid set, and the wrapper
\* reports success only when its rounds ran out or a signal had reached the child.
THEOREM HandlerForwards == Spec => []HandledIsForwarded
<1>1. Init => WrapperInv
  BY DEF Init, WrapperInit, WrapperInv
<1>2. WrapperInv /\ [Next]_allvars => WrapperInv'
  <2> SUFFICES ASSUME WrapperInv, [Next]_allvars
               PROVE  WrapperInv'
    OBVIOUS
  <2>1. CASE UNCHANGED wvars
    BY <2>1 DEF wvars, wrp, kid, WrapperInv
  <2>2. CASE WrapperNext
    BY <2>2, WrapperSteps
  <2> QED
    BY <2>1, <2>2 DEF Next, Segv, Wrapper, Daemon, allvars
<1>3. WrapperInv => HandledIsForwarded
  BY DEF WrapperInv, HandledIsForwarded
<1> QED
  BY <1>1, <1>2, <1>3, PTL DEF Spec

-----------------------------------------------------------------------------
(* The frames of the handlers *)

HandlerSteps == {"enter", "raise again", "return", "returning", "work"}
Frame == [at : HandlerSteps, cause : {"signal", "fault"}]
Stacks == [SegThreads -> Seq(Frame)]

\* What a step does to the stack of thread t: the others stay.
Grown(f, g, t) ==
  /\ g \in Stacks /\ Len(g[t]) = Len(f[t]) + 1
  /\ \A i \in 1 .. Len(f[t]) : g[t][i] = f[t][i]
  /\ g[t][Len(f[t]) + 1].at = "enter"
  /\ \A u \in SegThreads \ {t} : g[u] = f[u]

Marked(f, g, t, step) ==
  /\ g \in Stacks /\ Len(g[t]) = Len(f[t])
  /\ \A i \in 1 .. Len(f[t]) - 1 : g[t][i] = f[t][i]
  /\ g[t][Len(f[t])].at = step
  /\ \A u \in SegThreads \ {t} : g[u] = f[u]

\* Entering a handler puts one frame on the stack of the thread.
LEMMA EnterGrows ==
  ASSUME NEW f \in Stacks, NEW u \in SegThreads, NEW cause \in {"signal", "fault"}
  PROVE  Grown(f, Enter(f, u, cause), u)
<1> DEFINE e == [at |-> "enter", cause |-> cause]
           g == Enter(f, u, cause)
<1>1. f[u] \in Seq(Frame) /\ e \in Frame /\ e.at = "enter"
  BY DEF Stacks, Frame, HandlerSteps
<1>2. g = [f EXCEPT ![u] = Append(f[u], e)]
  BY DEF Enter
<1> HIDE DEF e, g
<1>3. /\ Append(f[u], e) \in Seq(Frame) /\ Len(Append(f[u], e)) = Len(f[u]) + 1
      /\ \A i \in 1 .. Len(f[u]) : Append(f[u], e)[i] = f[u][i]
      /\ Append(f[u], e)[Len(f[u]) + 1] = e
  BY <1>1
<1>4. g \in Stacks /\ g[u] = Append(f[u], e) /\ \A v \in SegThreads \ {u} : g[v] = f[v]
  BY <1>2, <1>3 DEF Stacks
<1>5. Grown(f, g, u)
  BY <1>1, <1>3, <1>4 DEF Grown
<1> QED
  BY <1>5 DEF g

\* A step inside a handler touches the last frame only.
LEMMA StepMarks ==
  ASSUME frames \in Stacks, NEW t \in SegThreads, frames[t] # <<>>, NEW step \in HandlerSteps
  PROVE  Marked(frames, Step(t, step), t, step)
<1> DEFINE s == frames[t]
           n == Len(s)
           r == [s EXCEPT ![n].at = step]
           g == Step(t, step)
<1>1. s \in Seq(Frame) /\ n \in Nat /\ n # 0 /\ n \in 1 .. n
  BY DEF Stacks
<1>2. g = [frames EXCEPT ![t] = r]
  BY DEF Step
<1>3. s[n] \in Frame
  <2> HIDE DEF s
  <2> QED
    BY <1>1
<1>4. [s[n] EXCEPT !.at = step] \in Frame /\ [s[n] EXCEPT !.at = step].at = step
  <2> HIDE DEF s, n
  <2> QED
    BY <1>3 DEF Frame
<1>5. r = [s EXCEPT ![n] = [s[n] EXCEPT !.at = step]]
  <2> HIDE DEF s, n
  <2> QED
    BY <1>1
<1>6. /\ r \in Seq(Frame) /\ Len(r) = n /\ r[n].at = step
      /\ \A i \in 1 .. n - 1 : r[i] = s[i]
  <2> DEFINE e == [s[n] EXCEPT !.at = step]
  <2>1. e \in Frame /\ e.at = step /\ r = [s EXCEPT ![n] = e]
    BY <1>4, <1>5
  <2>2. n = Len(s)
    OBVIOUS
  <2> HIDE DEF s, n, r, e
  <2>3. /\ r \in Seq(Frame) /\ Len(r) = n
        /\ \A i \in 1 .. n : r[i] = IF i = n THEN e ELSE s[i]
    BY <1>1, <2>1, <2>2, ExceptSeq
  <2> QED
    BY <1>1, <2>1, <2>3
<1> HIDE DEF r, g
<1>7. g \in Stacks /\ g[t] = r /\ \A u \in SegThreads \ {t} : g[u] = frames[u]
  <2> HIDE DEF s, n
  <2> QED
    BY <1>2, <1>6 DEF Stacks
<1>8. Marked(frames, g, t, step)
  BY <1>6, <1>7 DEF Marked
<1> QED
  BY <1>8 DEF g

\* Returning from a handler takes the last frame away.
LEMMA FrontShrinks ==
  ASSUME frames \in Stacks, NEW t \in SegThreads, frames[t] # <<>>,
         frames' = [frames EXCEPT ![t] = Front(frames[t])]
  PROVE  /\ frames' \in Stacks /\ Len(frames'[t]) = Len(frames[t]) - 1
         /\ \A i \in 1 .. Len(frames'[t]) : frames'[t][i] = frames[t][i]
         /\ \A u \in SegThreads \ {t} : frames'[u] = frames[u]
<1> DEFINE s == frames[t]
           f == Front(s)
<1>1. s \in Seq(Frame) /\ Len(s) \in Nat /\ Len(s) # 0
  BY DEF Stacks
<1> HIDE DEF s
<1>2. f \in Seq(Frame) /\ Len(f) = Len(s) - 1 /\ \A i \in 1 .. Len(f) : f[i] = s[i]
  <2>1. f = SubSeq(s, 1, Len(s) - 1)
    BY DEF Front
  <2> HIDE DEF f
  <2>2. \A i \in 1 .. Len(s) - 1 : s[i] \in Frame
    BY <1>1, ElementOfSeq
  <2>3. /\ f \in Seq(Frame) /\ Len(f) = IF 1 <= Len(s) - 1 THEN (Len(s) - 1) - 1 + 1 ELSE 0
        /\ \A i \in 1 .. (Len(s) - 1) - 1 + 1 : f[i] = s[1 + i - 1]
    BY <1>1, <2>1, <2>2, SubSeqProperties
  <2>4. PICK m \in Nat : Len(s) = m + 1
    BY <1>1
  <2>5. (Len(s) - 1) - 1 + 1 = m /\ Len(f) = m /\ \A i \in 1 .. m : 1 + i - 1 = i
    BY <2>3, <2>4
  <2> QED
    BY <2>3, <2>4, <2>5
<1> HIDE DEF f
<1>3. frames' = [frames EXCEPT ![t] = f]
  BY DEF s, f
<1>4. frames'[t] = f /\ frames' \in Stacks /\ \A u \in SegThreads \ {t} : frames'[u] = frames[u]
  BY <1>2, <1>3 DEF Stacks
<1> QED
  BY <1>2, <1>4 DEF s

-----------------------------------------------------------------------------
(* sigsegv_return_from_kill *)

\* A handler that is about to raise the signal again has restored the default
\* action, and one that came back from that is in PID 1 or in a dead process.
FrameInv ==
  /\ frames \in Stacks
  /\ \A t \in SegThreads : \A i \in 1 .. Len(frames[t]) :
       /\ frames[t][i].at = "raise again" => disp = "default"
       /\ frames[t][i].at = "returning" =>
            opt.signal # "fault" /\ (opt.container \/ proc # "running")
  /\ ReturnsOnlyAsInit

\* Thread t has no frame that waits to raise again, or comes from it, that it did
\* not have before.
NoNew(t) ==
  \A i \in 1 .. Len(frames'[t]) :
    \/ frames'[t][i].at \notin {"raise again", "returning"}
    \/ i \in 1 .. Len(frames[t]) /\ frames'[t][i] = frames[t][i]

\* The last frame of a stack that is not empty is one of its frames.
LEMMA StackLength ==
  ASSUME frames \in Stacks, NEW t \in SegThreads
  PROVE  Len(frames[t]) \in Nat /\ (frames[t] # <<>> => Len(frames[t]) \in 1 .. Len(frames[t]))
<1>1. frames[t] \in Seq(Frame)
  BY DEF Stacks
<1> QED
  BY <1>1, EmptySeq, LenProperties

\* A step that adds no frame about to raise the signal keeps the invariant.
LEMMA FramesKept ==
  ASSUME FrameInv, UNCHANGED <<opt, disp, returned>>, proc' = proc \/ proc' # "running",
         frames' \in Stacks, \A t \in SegThreads : NoNew(t)
  PROVE  FrameInv'
<1>1. ReturnsOnlyAsInit'
  BY DEF FrameInv, ReturnsOnlyAsInit
<1>2. ASSUME NEW t \in SegThreads, NEW i \in 1 .. Len(frames'[t])
      PROVE  /\ frames'[t][i].at = "raise again" => disp' = "default"
             /\ frames'[t][i].at = "returning" =>
                  opt'.signal # "fault" /\ (opt'.container \/ proc' # "running")
  BY DEF NoNew, FrameInv
<1> QED
  BY <1>1, <1>2 DEF FrameInv

\* A frame that was just entered is not about to raise the signal.
LEMMA GrownIsOld ==
  ASSUME frames \in Stacks, NEW t \in SegThreads, Grown(frames, frames', t)
  PROVE  frames' \in Stacks /\ \A u \in SegThreads : NoNew(u)
<1>1. Len(frames[t]) \in Nat
  BY StackLength
<1>2. ASSUME NEW u \in SegThreads PROVE NoNew(u)
  <2>1. CASE u = t
    <3>1. ASSUME NEW i \in 1 .. Len(frames'[t])
          PROVE  i \in 1 .. Len(frames[t]) \/ i = Len(frames[t]) + 1
      BY <1>1 DEF Grown
    <3> QED
      BY <2>1, <3>1 DEF Grown, NoNew
  <2>2. CASE u # t
    BY <2>2 DEF Grown, NoNew
  <2> QED
    BY <2>1, <2>2
<1> QED
  BY <1>2 DEF Grown

\* A fault enters the handler or ends the process.
LEMMA FaultKeeps ==
  ASSUME FrameInv, NEW t \in SegThreads, Fault(t), proc = "running", UNCHANGED <<opt, disp, returned>>
  PROVE  FrameInv'
<1>1. CASE frames' = Enter(frames, t, "fault") /\ UNCHANGED proc
  BY <1>1, EnterGrows, GrownIsOld, FramesKept DEF FrameInv
<1>2. CASE proc' = "killed" /\ UNCHANGED frames
  BY <1>2, FramesKept DEF NoNew, FrameInv
<1> QED
  BY <1>1, <1>2 DEF Fault

\* The invariant of the frames is inductive.
LEMMA FrameSteps == ASSUME FrameInv, SegNext PROVE FrameInv'
<1>1. CASE MainReturns
  BY <1>1, FramesKept DEF MainReturns, NoNew, FrameInv
<1>2. ASSUME NEW t \in SegThreads, RaiseSignal(t)
      PROVE  FrameInv'
  <2>1. PICK u \in SegThreads : Signal(u, frames)
    BY <1>2 DEF RaiseSignal, Alive
  <2>2. UNCHANGED <<opt, disp, returned>>
    BY <1>2 DEF RaiseSignal
  <2>3. CASE frames' = Enter(frames, u, "signal") /\ UNCHANGED proc
    BY <2>2, <2>3, EnterGrows, GrownIsOld, FramesKept DEF FrameInv
  <2>4. CASE frames' = frames /\ proc' = IF opt.container THEN proc ELSE "killed"
    BY <2>2, <2>4, FramesKept DEF NoNew, FrameInv
  <2> QED
    BY <2>1, <2>3, <2>4 DEF Signal
<1>3. ASSUME NEW t \in SegThreads, RaiseFault(t)
      PROVE  FrameInv'
  BY <1>3, FaultKeeps DEF RaiseFault, Running
<1>4. ASSUME NEW t \in SegThreads, Restore(t)
      PROVE  FrameInv'
  <2> DEFINE step == IF opt.noraise THEN "return" ELSE "raise again"
  <2>1. frames[t] # <<>> /\ frames' = Step(t, step)
        /\ disp' = (IF opt.noraise THEN disp ELSE "default")
        /\ UNCHANGED <<opt, proc, returned>>
    BY <1>4 DEF Restore, In
  <2>2. step \in HandlerSteps /\ step # "returning"
        /\ (step = "raise again" => disp' = "default")
        /\ (disp = "default" => disp' = "default")
    BY <2>1 DEF HandlerSteps
  <2> HIDE DEF step
  <2>3. Marked(frames, frames', t, step)
    BY <2>1, <2>2, StepMarks DEF FrameInv
  <2>4. ASSUME NEW u \in SegThreads, NEW i \in 1 .. Len(frames'[u])
        PROVE  /\ frames'[u][i].at = "raise again" => disp' = "default"
               /\ frames'[u][i].at = "returning" =>
                    opt'.signal # "fault" /\ (opt'.container \/ proc' # "running")
    <3>1. Len(frames[u]) \in Nat
      BY StackLength DEF FrameInv
    <3>2. CASE u = t /\ i = Len(frames[t])
      BY <2>2, <2>3, <3>2 DEF Marked
    <3>3. CASE ~(u = t /\ i = Len(frames[t]))
      <4>1. i \in 1 .. Len(frames[u]) /\ frames'[u][i] = frames[u][i]
        BY <2>3, <3>1, <3>3 DEF Marked
      <4> QED
        BY <2>1, <2>2, <4>1 DEF FrameInv
    <3> QED
      BY <3>2, <3>3
  <2>5. ReturnsOnlyAsInit'
    BY <2>1 DEF FrameInv, ReturnsOnlyAsInit
  <2> QED
    BY <2>3, <2>4, <2>5 DEF FrameInv, Marked
<1>5. ASSUME NEW t \in SegThreads, RaiseAgain(t)
      PROVE  FrameInv'
  <2>1. /\ proc = "running" /\ frames[t] # <<>> /\ Last(frames[t]).at = "raise again"
        /\ UNCHANGED <<opt, disp, returned>>
    BY <1>5 DEF RaiseAgain, In
  <2>2. Len(frames[t]) \in Nat /\ Len(frames[t]) \in 1 .. Len(frames[t])
    BY <2>1, StackLength DEF FrameInv
  <2>3. disp = "default"
    BY <2>1, <2>2 DEF FrameInv, Last
  <2>4. CASE opt.signal = "fault"
    BY <1>5, <2>1, <2>4, FaultKeeps DEF RaiseAgain
  <2>5. CASE opt.signal # "fault"
    <3>1. PICK u \in SegThreads : Signal(u, Step(t, "returning"))
      BY <1>5, <2>5 DEF RaiseAgain, Alive
    <3>2. frames' = Step(t, "returning") /\ proc' = IF opt.container THEN proc ELSE "killed"
      BY <2>3, <3>1 DEF Signal
    <3>3. Marked(frames, frames', t, "returning")
      BY <2>1, <3>2, StepMarks DEF FrameInv, HandlerSteps
    <3>4. opt.container \/ proc' # "running"
      BY <3>2
    <3>5. ASSUME NEW v \in SegThreads, NEW i \in 1 .. Len(frames'[v])
          PROVE  /\ frames'[v][i].at = "raise again" => disp' = "default"
                 /\ frames'[v][i].at = "returning" =>
                      opt'.signal # "fault" /\ (opt'.container \/ proc' # "running")
      BY <2>1, <2>3, <2>5, <3>4
    <3>6. ReturnsOnlyAsInit'
      BY <2>1 DEF FrameInv, ReturnsOnlyAsInit
    <3> QED
      BY <3>3, <3>5, <3>6 DEF FrameInv, Marked
  <2> QED
    BY <2>4, <2>5
<1>6. ASSUME NEW t \in SegThreads, ThreadEnds(t)
      PROVE  FrameInv'
  BY <1>6, FramesKept DEF ThreadEnds, NoNew, FrameInv
<1>7. ASSUME NEW t \in SegThreads, HandlerReturns(t)
      PROVE  FrameInv'
  <2>1. /\ proc = "running" /\ frames[t] # <<>>
        /\ frames' = [frames EXCEPT ![t] = Front(frames[t])]
        /\ UNCHANGED <<opt, disp, proc>>
    BY <1>7 DEF HandlerReturns, In
  <2>2. /\ frames' \in Stacks /\ Len(frames'[t]) = Len(frames[t]) - 1
        /\ \A i \in 1 .. Len(frames'[t]) : frames'[t][i] = frames[t][i]
        /\ \A u \in SegThreads \ {t} : frames'[u] = frames[u]
    BY <2>1, FrontShrinks DEF FrameInv
  <2>3. Len(frames[t]) \in Nat /\ Len(frames[t]) \in 1 .. Len(frames[t])
    BY <2>1, StackLength DEF FrameInv
  <2>4. In(t, "returning") => opt.container /\ opt.signal # "fault"
    BY <2>1, <2>3 DEF In, Last, FrameInv
  <2>5. ReturnsOnlyAsInit'
    <3>1. returned' = (returned \/ In(t, "returning"))
      BY <1>7, Zenon DEF HandlerReturns
    <3>2. returned => opt.container /\ opt.signal # "fault"
      BY DEF FrameInv, ReturnsOnlyAsInit
    <3>3. returned' => opt.container /\ opt.signal # "fault"
      BY <2>4, <3>1, <3>2, Zenon
    <3> QED
      BY <2>1, <3>3 DEF ReturnsOnlyAsInit
  <2>6. ASSUME NEW u \in SegThreads, NEW i \in 1 .. Len(frames'[u])
        PROVE  /\ frames'[u][i].at = "raise again" => disp' = "default"
               /\ frames'[u][i].at = "returning" =>
                    opt'.signal # "fault" /\ (opt'.container \/ proc' # "running")
    <3>1. i \in 1 .. Len(frames[u]) /\ frames'[u][i] = frames[u][i]
      BY <2>2, <2>3
    <3> QED
      BY <2>1, <3>1 DEF FrameInv
  <2> QED
    BY <2>2, <2>5, <2>6 DEF FrameInv
<1>8. ASSUME NEW t \in SegThreads, Guard(t)
      PROVE  FrameInv'
  <2>1. frames[t] # <<>> /\ UNCHANGED <<opt, disp, returned>>
    BY <1>8 DEF Guard, In
  <2>2. CASE proc' = "exited" /\ UNCHANGED frames
    BY <2>1, <2>2, FramesKept DEF NoNew, FrameInv
  <2>3. CASE frames' = Step(t, "work") /\ UNCHANGED proc
    <3>1. Marked(frames, frames', t, "work")
      BY <2>1, <2>3, StepMarks DEF FrameInv, HandlerSteps
    <3>2. \A u \in SegThreads : Len(frames[u]) \in Nat
      BY StackLength DEF FrameInv
    <3>3. ASSUME NEW u \in SegThreads PROVE NoNew(u)
      <4>1. ASSUME NEW i \in 1 .. Len(frames'[u]), ~(u = t /\ i = Len(frames[t]))
            PROVE  i \in 1 .. Len(frames[u]) /\ frames'[u][i] = frames[u][i]
        BY <3>1, <3>2, <4>1 DEF Marked
      <4>2. u = t => frames'[u][Len(frames[t])].at = "work"
        BY <3>1 DEF Marked
      <4> QED
        BY <4>1, <4>2 DEF NoNew
    <3> QED
      BY <2>1, <2>3, <3>1, <3>3, FramesKept DEF Marked
  <2> QED
    BY <1>8, <2>2, <2>3 DEF Guard
<1>9. ASSUME NEW t \in SegThreads, Work(t)
      PROVE  FrameInv'
  <2>1. proc = "running" /\ UNCHANGED <<opt, disp, returned>>
    BY <1>9 DEF Work, In
  <2>2. CASE Fault(t)
    BY <2>1, <2>2, FaultKeeps
  <2>3. CASE proc' = "exited" /\ UNCHANGED frames
    BY <2>1, <2>3, FramesKept DEF NoNew, FrameInv
  <2> QED
    BY <1>9, <2>2, <2>3 DEF Work
<1> QED
  BY <1>1, <1>2, <1>3, <1>4, <1>5, <1>6, <1>7, <1>8, <1>9 DEF SegNext

\* The handler that raises the signal again comes back only in PID 1 and only from
\* kill or tgkill, whatever raised it first, in which thread, and however the
\* handlers of several threads interleave.
THEOREM OnlyInitReturns == Spec => []ReturnsOnlyAsInit
<1>1. Init => FrameInv
  <2> SUFFICES ASSUME Init
               PROVE  FrameInv
    OBVIOUS
  <2>1. frames = [t \in SegThreads |-> <<>>] /\ returned = FALSE
    BY DEF Init, SegInit
  <2>2. frames \in Stacks
    BY <2>1 DEF Stacks
  <2> QED
    BY <2>1, <2>2 DEF FrameInv, ReturnsOnlyAsInit
<1>2. FrameInv /\ [Next]_allvars => FrameInv'
  <2> SUFFICES ASSUME FrameInv, [Next]_allvars
               PROVE  FrameInv'
    OBVIOUS
  <2>1. CASE UNCHANGED svars
    BY <2>1, FramesKept DEF svars, FrameInv, NoNew
  <2>2. CASE SegNext
    BY <2>2, FrameSteps
  <2> QED
    BY <2>1, <2>2 DEF Next, Segv, Wrapper, Daemon, allvars
<1>3. FrameInv => ReturnsOnlyAsInit
  BY DEF FrameInv
<1> QED
  BY <1>1, <1>2, <1>3, PTL DEF Spec

-----------------------------------------------------------------------------
(* sigaction_deadlock *)

Depth == Len(frames["main"])

\* deadlock.c has one thread.  With the static flag its first frame is at work
\* only once the flag is down, and a second frame finds it down.
DeadlockInv ==
  /\ frames \in Stacks
  /\ opt.prog = "deadlock" =>
       /\ disp = "handler" /\ opt.crash = "fault"
       /\ base["main"] = "raise"
       /\ \A t \in SegThreads \ {"main"} : base[t] = "ended" /\ frames[t] = <<>>
       /\ \A i \in 1 .. Depth : frames["main"][i].at \in {"enter", "work"}
       /\ Depth > 1 => opt.nodefer
       /\ opt.static => /\ Depth <= 2
                        /\ Depth = 2 => frames["main"][2].at = "enter" /\ ~is_first
                        /\ Depth = 1 /\ frames["main"][1].at = "work" => ~is_first
       /\ opt.static /\ opt.nodefer => proc # "killed"

\* The depth is a number.
LEMMA DepthIsNat == ASSUME frames \in Stacks PROVE Depth \in Nat
BY StackLength DEF Depth, SegThreads

\* A fault of the main thread, outside of every handler or at work in the last frame.
LEMMA DeadlockFault ==
  ASSUME DeadlockInv, opt.prog = "deadlock", proc = "running", Fault("main"),
         frames["main"] = <<>> \/ frames["main"][Depth].at = "work",
         UNCHANGED <<opt, disp, base, is_first>>
  PROVE  DeadlockInv'
<1>1. Depth \in Nat /\ "main" \in SegThreads /\ disp = "handler" /\ frames \in Stacks
  BY DepthIsNat DEF DeadlockInv, SegThreads
<1>2. frames["main"] = <<>> => Depth = 0
  BY DEF Depth
<1>3. frames["main"] # <<>> => Depth >= 1
  BY <1>1, StackLength DEF Depth
<1>4. opt.static => Depth <= 1
  <2>1. CASE frames["main"] = <<>>
    BY <1>2, <2>1
  <2>2. CASE frames["main"][Depth].at = "work"
    BY <1>1, <2>2 DEF DeadlockInv
  <2> QED
    BY <2>1, <2>2
<1>5. opt.static /\ Depth = 1 => ~is_first
  BY <1>2 DEF DeadlockInv
<1>6. StackDepth \in Nat /\ StackDepth >= 2
  BY StackAssumption
<1>7. CASE /\ frames' = Enter(frames, "main", "fault") /\ UNCHANGED proc
           /\ frames["main"] = <<>> \/ opt.nodefer
  <2>1. Grown(frames, frames', "main")
    BY <1>1, <1>7, EnterGrows
  <2>2. /\ frames' \in Stacks /\ Depth' = Depth + 1
        /\ \A i \in 1 .. Depth : frames'["main"][i] = frames["main"][i]
        /\ frames'["main"][Depth + 1].at = "enter"
        /\ \A t \in SegThreads \ {"main"} : frames'[t] = frames[t]
    BY <2>1 DEF Grown, Depth
  <2>3. \A i \in 1 .. Depth' : frames'["main"][i].at \in {"enter", "work"}
    <3>1. \A i \in 1 .. Depth' : i \in 1 .. Depth \/ i = Depth + 1
      BY <1>1, <2>2
    <3> QED
      BY <2>2, <3>1 DEF DeadlockInv
  <2>4. Depth' > 1 => opt.nodefer
    BY <1>2, <1>7, <2>2
  <2>5. opt.static => /\ Depth' <= 2
                      /\ Depth' = 2 => frames'["main"][2].at = "enter" /\ ~is_first
                      /\ Depth' = 1 /\ frames'["main"][1].at = "work" => ~is_first
    <3>1. Depth' = 2 => Depth = 1 /\ Depth + 1 = 2
      BY <1>1, <2>2
    <3>2. Depth' = 1 => Depth + 1 = 1
      BY <1>1, <2>2
    <3> QED
      BY <1>1, <1>4, <1>5, <2>2, <3>1, <3>2
  <2> QED
    BY <1>7, <2>2, <2>3, <2>4, <2>5 DEF DeadlockInv
<1>8. CASE /\ proc' = "killed" /\ UNCHANGED frames
           /\ (frames["main"] # <<>> /\ ~opt.nodefer) \/ ~(Depth < StackDepth)
  <2>1. ~(opt.static /\ opt.nodefer)
    BY <1>1, <1>4, <1>6, <1>8
  <2> QED
    BY <1>8, <2>1 DEF DeadlockInv, Depth
<1> QED
  BY <1>1, <1>7, <1>8 DEF Fault, Depth

\* The invariant of deadlock.c is inductive.
LEMMA DeadlockSteps == ASSUME DeadlockInv, FrameInv, SegNext PROVE DeadlockInv'
<1>1. UNCHANGED opt /\ frames' \in Stacks
  BY FrameSteps DEF FrameInv, SegNext, MainReturns, RaiseSignal, RaiseFault, Restore, RaiseAgain,
                    ThreadEnds, HandlerReturns, Guard, Work
<1>2. CASE opt.prog # "deadlock"
  BY <1>1, <1>2 DEF DeadlockInv
<1>3. CASE opt.prog = "deadlock"
  <2>1. /\ frames \in Stacks /\ Depth \in Nat
        /\ base["main"] = "raise" /\ opt.crash = "fault"
        /\ \A t \in SegThreads \ {"main"} : base[t] = "ended" /\ frames[t] = <<>>
        /\ \A i \in 1 .. Depth : frames["main"][i].at \in {"enter", "work"}
    BY <1>3, DepthIsNat DEF DeadlockInv
  <2>2. ASSUME NEW t \in SegThreads, NEW step, In(t, step)
        PROVE  /\ t = "main" /\ Depth \in 1 .. Depth /\ frames["main"][Depth].at = step
               /\ step \in {"enter", "work"} /\ proc = "running" /\ frames["main"] # <<>>
    <3>1. frames[t] # <<>> /\ Last(frames[t]).at = step /\ proc = "running"
      BY <2>2 DEF In
    <3>2. t = "main"
      BY <2>1, <3>1
    <3>3. Depth \in 1 .. Depth
      BY <2>1, <3>1, <3>2, StackLength DEF Depth
    <3> QED
      BY <2>1, <3>1, <3>2, <3>3 DEF Last, Depth
  <2>3. CASE MainReturns
    BY <2>1, <2>3 DEF MainReturns
  <2>4. ASSUME NEW t \in SegThreads, RaiseSignal(t) \/ ThreadEnds(t)
        PROVE  FALSE
    BY <2>1, <2>4 DEF RaiseSignal, ThreadEnds
  <2>5. ASSUME NEW t \in SegThreads, Restore(t) \/ RaiseAgain(t) \/ HandlerReturns(t)
        PROVE  FALSE
    <3>1. CASE Restore(t)
      BY <1>3, <3>1 DEF Restore
    <3>2. CASE RaiseAgain(t) \/ HandlerReturns(t)
      <4>1. In(t, "raise again") \/ In(t, "return") \/ In(t, "returning")
        BY <3>2 DEF RaiseAgain, HandlerReturns
      <4>2. \E step \in {"raise again", "return", "returning"} : step \in {"enter", "work"}
        BY <2>2, <4>1, Zenon
      <4> QED
        BY <4>2
    <3> QED
      BY <2>5, <3>1, <3>2
  <2>6. ASSUME NEW t \in SegThreads, RaiseFault(t)
        PROVE  DeadlockInv'
    <3>1. t = "main" /\ frames["main"] = <<>> /\ proc = "running"
      BY <2>1, <2>6 DEF RaiseFault, Running
    <3> QED
      BY <1>3, <2>6, <3>1, DeadlockFault DEF RaiseFault
  <2>7. ASSUME NEW t \in SegThreads, Work(t)
        PROVE  DeadlockInv'
    <3>1. /\ t = "main" /\ frames["main"][Depth].at = "work" /\ proc = "running"
      BY <2>2, <2>7 DEF Work
    <3>2. CASE Fault(t)
      BY <1>3, <2>7, <3>1, <3>2, DeadlockFault DEF Work
    <3>3. CASE proc' = "exited" /\ UNCHANGED frames
      BY <2>7, <3>3 DEF Work, DeadlockInv, Depth
    <3> QED
      BY <2>7, <3>2, <3>3 DEF Work
  <2>8. ASSUME NEW t \in SegThreads, Guard(t)
        PROVE  DeadlockInv'
    <3>1. /\ t = "main" /\ frames["main"][Depth].at = "enter" /\ Depth \in 1 .. Depth
          /\ frames["main"] # <<>> /\ proc = "running"
      BY <2>2, <2>8 DEF Guard
    <3>2. is_first' = (is_first /\ ~opt.static) /\ UNCHANGED <<opt, disp, base>>
      BY <2>8, Zenon DEF Guard
    <3>3. ~is_first => ~is_first'
      BY <3>2, Zenon
    <3>4. opt.static => ~is_first'
      BY <3>2, Zenon
    <3>5. CASE proc' = "exited" /\ UNCHANGED frames
      BY <3>2, <3>3, <3>5 DEF DeadlockInv, Depth
    <3>6. CASE /\ frames' = Step(t, "work") /\ UNCHANGED proc
               /\ ~(opt.static /\ ~is_first)
      <4>1. Marked(frames, frames', "main", "work")
        BY <2>1, <3>1, <3>6, StepMarks DEF HandlerSteps
      <4>2. /\ Depth' = Depth /\ frames'["main"][Depth].at = "work"
            /\ \A i \in 1 .. Depth - 1 : frames'["main"][i] = frames["main"][i]
            /\ \A u \in SegThreads \ {"main"} : frames'[u] = frames[u]
        BY <4>1 DEF Marked, Depth
      <4>3. \A i \in 1 .. Depth' : frames'["main"][i].at \in {"enter", "work"}
        <5>1. \A i \in 1 .. Depth : i \in 1 .. Depth - 1 \/ i = Depth
          BY <2>1
        <5> QED
          BY <2>1, <4>2, <5>1
      <4>4. opt.static => Depth # 2
        BY <1>3, <3>6 DEF DeadlockInv
      <4>5. opt.static => /\ Depth' <= 2
                          /\ Depth' = 2 => frames'["main"][2].at = "enter" /\ ~is_first'
                          /\ Depth' = 1 /\ frames'["main"][1].at = "work" => ~is_first'
        BY <1>3, <3>4, <4>2, <4>4 DEF DeadlockInv
      <4> QED
        BY <1>1, <1>3, <3>2, <3>6, <4>2, <4>3, <4>5 DEF DeadlockInv
    <3> QED
      BY <2>8, <3>5, <3>6 DEF Guard
  <2> QED
    BY <2>3, <2>4, <2>5, <2>6, <2>7, <2>8 DEF SegNext
<1> QED
  BY <1>2, <1>3

\* For every depth of the stack: a fault in the handler of deadlock.c is handled
\* only under SA_NODEFER, and the static flag then ends the recursion at the second
\* frame, before the stack can overflow.
THEOREM GuardEndsRecursion == Spec => []RecursionBounded
<1>1. Init => DeadlockInv /\ FrameInv
  <2> SUFFICES ASSUME Init
               PROVE  DeadlockInv /\ FrameInv
    OBVIOUS
  <2>1. /\ frames = [t \in SegThreads |-> <<>>] /\ returned = FALSE /\ disp = "handler"
        /\ base = [t \in SegThreads |-> FirstStep(t)]
        /\ opt \in WatchOptions \cup DeadlockOptions
        /\ proc \in Namespace
    BY DEF Init, SegInit
  <2>2. frames \in Stacks /\ Depth = 0
    BY <2>1 DEF Stacks, Depth, SegThreads
  <2>3. FrameInv
    BY <2>1, <2>2 DEF FrameInv, ReturnsOnlyAsInit
  <2>4. proc # "killed"
    BY <2>1 DEF Namespace
  <2>5. opt.prog = "deadlock" => opt.crash = "fault" /\ opt.thread = FALSE
    BY <2>1 DEF WatchOptions, DeadlockOptions
  <2>6. opt.prog = "deadlock" =>
          base["main"] = "raise" /\ \A t \in SegThreads \ {"main"} : base[t] = "ended"
    BY <2>1, <2>5 DEF FirstStep, SegThreads
  <2> QED
    BY <2>1, <2>2, <2>3, <2>4, <2>5, <2>6 DEF DeadlockInv
<1>2. DeadlockInv /\ FrameInv /\ [Next]_allvars => (DeadlockInv /\ FrameInv)'
  <2> SUFFICES ASSUME DeadlockInv, FrameInv, [Next]_allvars
               PROVE  DeadlockInv' /\ FrameInv'
    OBVIOUS
  <2>1. CASE UNCHANGED svars
    BY <2>1, FramesKept DEF svars, FrameInv, NoNew, DeadlockInv, Depth
  <2>2. CASE SegNext
    BY <2>2, FrameSteps, DeadlockSteps
  <2> QED
    BY <2>1, <2>2 DEF Next, Segv, Wrapper, Daemon, allvars
<1>3. DeadlockInv => RecursionBounded
  BY DEF DeadlockInv, RecursionBounded, Depth
<1> QED
  BY <1>1, <1>2, <1>3, PTL DEF Spec

-----------------------------------------------------------------------------
(* autodaemonize *)

\* Who holds the write end of the pipe if there is one, and which process can be
\* there without which other one.
PipeInv ==
  /\ piped \in BOOLEAN
  /\ writers \subseteq {"client", "middle", "daemon"}
  /\ "client" \in writers <=> piped /\ client \in {"fork", "wait", "use"}
  /\ "middle" \in writers <=> piped /\ middle \in {"fork", "exit"}
  /\ "daemon" \in writers <=> piped /\ daemon = "close"
  /\ client \in {"pipe", "fork", "wait", "use", "done", "killed"}
  /\ middle \in {"unborn", "fork", "exit", "exited"}
  /\ client = "pipe" => ~piped
  /\ client \in {"pipe", "fork"} => middle = "unborn"
  /\ middle \in {"unborn", "fork"} => daemon = "unborn"

\* A daemon that saw a hang-up had a pipe, and ends after everybody who could still
\* write to it; and once these have ended no copy of the write end is left that
\* could keep a daemon with a pipe in poll.
DaemonOutlivesWriters ==
  LET Ended == client \in {"done", "killed"} /\ middle = "exited"
  IN  /\ daemon = "exited" => piped /\ Ended
      /\ daemon = "poll" /\ piped => (writers = {} <=> Ended)

\* The two together are inductive.
PipeInvOutlives == PipeInv /\ DaemonOutlivesWriters

\* Every step of the three processes keeps them.
LEMMA PipeSteps ==
  ASSUME PipeInvOutlives, DaemonNext
  PROVE  PipeInvOutlives'
<1> USE DEF PipeInvOutlives, PipeInv, DaemonOutlivesWriters, Closes
<1>1. CASE MakePipe
  <2>1. /\ client = "pipe" /\ client' = "fork" /\ middle = "unborn" /\ daemon = "unborn"
        /\ middle' = middle /\ daemon' = daemon
    BY <1>1 DEF MakePipe
  <2>2. CASE piped' = TRUE /\ writers' = {"client"}
    BY <2>1, <2>2
  <2>3. CASE UNCHANGED <<piped, writers>>
    BY <2>1, <2>3
  <2> QED
    BY <1>1, <2>2, <2>3 DEF MakePipe
<1>2. CASE ForkMiddle
  BY <1>2 DEF ForkMiddle, Inherits
<1>3. CASE WaitTimesOut
  BY <1>3 DEF WaitTimesOut
<1>4. CASE SendMessage
  BY <1>4 DEF SendMessage
<1>5. CASE Shutdown
  BY <1>5 DEF Shutdown
<1>6. CASE ClientKilled
  BY <1>6 DEF ClientKilled
<1>7. CASE ForkDaemon
  BY <1>7 DEF ForkDaemon, Inherits
<1>8. CASE MiddleExits
  BY <1>8 DEF MiddleExits
<1>9. CASE CloseClientFd
  BY <1>9 DEF CloseClientFd
<1>10. CASE HangUp
  BY <1>10 DEF HangUp
<1>11. CASE Receive
  BY <1>11 DEF Receive
<1>12. CASE PollFails
  BY <1>12 DEF PollFails
<1> QED
  BY <1>1, <1>2, <1>3, <1>4, <1>5, <1>6, <1>7, <1>8, <1>9, <1>10, <1>11, <1>12
  DEF DaemonNext, DaemonStep, MiddleStep, ClientStep

\* The safety half of DaemonCleansUp: whether pipe, a fork or poll fails and whenever
\* the client is killed, run_daemon ends through a hang-up only with a pipe and
\* after the client and the intermediate process, and with a pipe it finds the
\* hang-up as soon as they have gone.
THEOREM DaemonIsLast == Spec => []DaemonOutlivesWriters
<1>1. Init => PipeInvOutlives
  BY DEF Init, DaemonInit, PipeInvOutlives, PipeInv, DaemonOutlivesWriters
<1>2. PipeInvOutlives /\ [Next]_allvars => PipeInvOutlives'
  <2> SUFFICES ASSUME PipeInvOutlives, [Next]_allvars
               PROVE  PipeInvOutlives'
    OBVIOUS
  <2>1. CASE UNCHANGED dvars
    BY <2>1 DEF dvars, PipeInvOutlives, PipeInv, DaemonOutlivesWriters
  <2>2. CASE DaemonNext
    BY <2>2, PipeSteps
  <2> QED
    BY <2>1, <2>2 DEF Next, Segv, Wrapper, Daemon, allvars
<1>3. PipeInvOutlives => DaemonOutlivesWriters
  BY DEF PipeInvOutlives
<1> QED
  BY <1>1, <1>2, <1>3, PTL DEF Spec
=============================================================================
