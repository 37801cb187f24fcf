--------------------------- MODULE MCGenerations ---------------------------
(***************************************************************************)
(* Two bundles, two runtimes and the generations made of them, on one host. *)
(***************************************************************************)
EXTENDS Generations

CONSTANTS b1, b2, r1, r2

\* A first generation, and an update of both its parts.
MCPlans == {[bundle |-> b1, runtime |-> r1], [bundle |-> b2, runtime |-> r2]}
====
