------------------------------ MODULE MCMMLog ------------------------------
(***************************************************************************)
(* Instances of MMLog: two threads of one process, and one of another that *)
(* opened the log for itself or was forked with it.                        *)
(***************************************************************************)
EXTENDS MMLog, LogSpan, TLC

CONSTANTS t1, t2, t3, p1, p2

\* t1 and t2 share a process, t3 has one of its own.
ThreePerTwo == [t \in {t1, t2, t3} |-> IF t = t3 THEN p2 ELSE p1]

\* The two threads of one process.
TwoPerOne == [t \in {t1, t2} |-> p1]

\* t1 and t2 are alike: same process, same roles.
Twins == Permutations({t1, t2})

=============================================================================
