-------------------------------- MODULE MCCAP --------------------------------
(***************************************************************************)
(* An instance of CAPOrchestrator: every sequence of up to three of seven  *)
(* states, so that each kind of conflict occurs, in every order.           *)
(***************************************************************************)
EXTENDS CAPOrchestrator

S(node, value, clock, time) ==
    [NodeID |-> node, State |-> value, VectorClock |-> clock, Timestamp |-> time]
C1(p) == [n \in {"p"} |-> p]
C2(p, q) == [n \in {"p", "q"} |-> IF n = "p" THEN p ELSE q]

MCStates == { S("p", "v", C1(1), 1),
              S("p", "v", C1(2), 2),
              S("p", "v", C2(1, 1), 3),
              S("p", "w", C2(2, 1), 4),
              S("q", "w", C2(3, 2), 6),
              S("p", "w", C2(1, 3), 3),     \* the same time as another
              S("q", "v", C1(3), 0) }       \* a clock that runs late

MCConflict == {<< >>} \cup UNION {SetToSeqs(T) : T \in
                                    {U \in SUBSET MCStates :
                                        Cardinality(U) \in 1 .. 3}}

MCPartitions == {<< >>, <<90, 30>>}
=============================================================================
