----------------------------- MODULE MCPrograms -----------------------------
(* One run for the clients of the log and for the registry: the first state  *)
(* chooses which of them runs.                                               *)
EXTENDS LogClients, NoPeeking
CONSTANTS w1, w2, w3, p1, p2, g1
VARIABLE running
\* Stray datagrams: a whole one, one that claims more than it has, and one
\* shorter than a snowflake.
Odd == {<<2, 2>>, <<2, 1>>, <<1, -1>>}
allvars == <<lvars, nvars, running>>
Init == /\ running \in {"clients", "peek"} /\ ClientsInit /\ PeekInit
        /\ running = "peek" => prog = "reader" /\ ~meta
\* Bound: the benchmark, whose children go on after a failed insert, has two of
\* them; its third never starts.
TwoChildren == Bench => wk'[w3].at \in {"unborn", "done"}
Clients(A) == running = "clients" /\ A /\ TwoChildren /\ UNCHANGED <<nvars, running>>
Peek(A) == running = "peek" /\ A /\ UNCHANGED <<lvars, running>>
Next == Clients(ClientsNext) \/ Peek(PeekNext)
\* The fairness of PeekSpec.
Fairness == \A p \in Processes : WF_allvars(Peek(Step(p)))
Spec == Init /\ [][Next]_allvars /\ Fairness
=============================================================================
