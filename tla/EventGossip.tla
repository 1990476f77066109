----------------------------- MODULE EventGossip -----------------------------
(***************************************************************************)
(* What the replication of the event log promises, without the sync loop:  *)
(* a node publishes events under fresh sequence numbers of its own, and a  *)
(* node learns an event only as its origin published it.  Nothing that is  *)
(* published changes or disappears.                                        *)
(***************************************************************************)
EXTENDS Naturals

CONSTANTS Nodes, Ops

VARIABLE log    \* log[n]: the events node n holds

Id(e) == <<e.node, e.seq>>

Init == log = [n \in Nodes |-> {}]

\* The new event is found in the new log: a fresh id, any positive seq.
Publish(n, op) ==
    \E e \in log'[n] :
        /\ e.seq \in Nat \ {0}
        /\ e = [node |-> n, seq |-> e.seq, op |-> op]
        /\ \A m \in Nodes : \A f \in log[m] : Id(f) # Id(e)
        /\ log' = [log EXCEPT ![n] = @ \cup {e}]

Learn(n, m) ==
    \E e \in log[m] :
        /\ e.node = m
        /\ \A f \in log[n] : Id(f) # Id(e)
        /\ log' = [log EXCEPT ![n] = @ \cup {e}]

Next ==
    \/ \E n \in Nodes, op \in Ops : Publish(n, op)
    \/ \E n, m \in Nodes : Learn(n, m)

Spec == Init /\ [][Next]_log
=============================================================================
