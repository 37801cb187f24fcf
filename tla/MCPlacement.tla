---------------------------- MODULE MCPlacement ----------------------------
(***************************************************************************)
(* Instances of Placement for TLC.                                         *)
(***************************************************************************)
EXTENDS Placement, TLC

\* Gateways and claim ids differ in nothing.
Alike == Permutations(Gateways) \cup Permutations(ClaimIds)
=============================================================================
