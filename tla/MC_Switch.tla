------------------------------- MODULE MC_Switch -------------------------------
(* Nodes that all list each other.  Each station is at a node of its own,   *)
(* or all start at node 1.                                                 *)
EXTENDS Switch

MC_Mesh == [n \in Nodes |-> Nodes \ {n}]

MC_Home == [mac \in MACs |-> CASE mac = "a" -> 1 [] mac = "b" -> 2]
MC_Together == [mac \in MACs |-> 1]
=============================================================================
