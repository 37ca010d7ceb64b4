------------------------------ MODULE MCShared ------------------------------
(* One run for the ring and for the accounting of operations, the structures *)
(* that several callers share: the first state chooses which of them runs.   *)
EXTENDS RingBuffer, Accounting, TLC
CONSTANTS p1, p2, t1, t2
VARIABLE running
TwoProducers == {p1, p2}
Interchangeable == Permutations(TwoProducers) \cup Permutations(Threads)
allvars == <<rvars, avars, running>>
Init == running \in {"ring", "accounting"} /\ RingInit /\ AcctInit
Ring(A) == running = "ring" /\ A /\ UNCHANGED <<avars, running>>
Account(A) == running = "accounting" /\ A /\ UNCHANGED <<rvars, running>>
Next == Ring(RingNext) \/ Account(AcctNext)
Spec == Init /\ [][Next]_allvars
=============================================================================
