------------------------------- MODULE NodeSet -------------------------------
(***************************************************************************)
(* What the node tree (nodes.c) is to its callers: a set of node numbers.  *)
(* A new node gets a number that is not in use and keeps it.               *)
(***************************************************************************)
EXTENDS Naturals

CONSTANT Reserved    \* the nodes of the formatted volume, the root's among them

VARIABLE nodes

Init == nodes = Reserved

CreateNode == \E n \in nodes' \ nodes : n \in Nat /\ nodes' = nodes \cup {n}
DeleteNode == \E n \in nodes \ Reserved : nodes' = nodes \ {n}

Next == CreateNode \/ DeleteNode

Spec == Init /\ [][Next]_nodes
=============================================================================
