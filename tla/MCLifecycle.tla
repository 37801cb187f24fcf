---------------------------- MODULE MCLifecycle ----------------------------
(***************************************************************************)
(* Instances of Lifecycle for TLC.                                         *)
(***************************************************************************)
EXTENDS Lifecycle, TLC

\* Slots differ in nothing when all of them take all requests.
Slots == Permutations(Ops)
=============================================================================
