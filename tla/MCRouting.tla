------------------------------ MODULE MCRouting ------------------------------
(* Instances of Routing for TLC: every request may be routed to every node.   *)
EXTENDS Routing

ReachAll == [r \in Requests |-> Nodes]
==============================================================================
