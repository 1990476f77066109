---- MODULE MCEventSync ----
EXTENDS EventSync, TLC

CONSTANTS a, b

MCSymmetry == Permutations(Ops)
AllLinks == {<<n, p>> \in Nodes \X Nodes : n # p}
ChainLinks == {<<1, 2>>, <<3, 2>>}

\* Fault budgets: none, or one fault of any of the given kinds
Count(S)   == [k \in FaultKinds |-> IF k \in S THEN 1 ELSE 0]
NoFaults   == {}
OneFault   == {Count({k}) : k \in FaultKinds}
====
