----------------------------- MODULE MCSignals ------------------------------
(* One run for the programs about signals and processes: the first state     *)
(* chooses which of them runs.                                               *)
EXTENDS SegvHandlers, PidOneWrapper, AutoDaemon
VARIABLE running
allvars == <<svars, wvars, dvars, running>>
Init == /\ running \in {"segv", "wrapper", "daemon"}
        /\ SegInit /\ WrapperInit /\ DaemonInit
Segv(A) == running = "segv" /\ A /\ UNCHANGED <<wvars, dvars, running>>
Wrapper(A) == running = "wrapper" /\ A /\ UNCHANGED <<svars, dvars, running>>
Daemon(A) == running = "daemon" /\ A /\ UNCHANGED <<svars, wvars, running>>
Next == Segv(SegNext) \/ Wrapper(WrapperNext) \/ Daemon(DaemonNext)
(* Every process runs, and a client comes to the end of its use of the daemon. *)
Fairness == /\ WF_allvars(Daemon(DaemonStep)) /\ WF_allvars(Daemon(MiddleStep))
            /\ WF_allvars(Daemon(MakePipe)) /\ WF_allvars(Daemon(ForkMiddle))
            /\ WF_allvars(Daemon(WaitTimesOut)) /\ WF_allvars(Daemon(Shutdown))
Spec == Init /\ [][Next]_allvars /\ Fairness
=============================================================================
