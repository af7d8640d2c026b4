--------------------------- MODULE MCReconciler -----------------------------
(* Small instances of Reconciler for TLC. *)
EXTENDS Reconciler

CONSTANTS Ready, Prov, Avail

\* The order of the condition types' names.
MCRank == [t \in Types |-> CASE t = Avail -> 1 [] t = Prov -> 2 [] OTHER -> 3]

MCGenerations == 0 .. MaxGen
=============================================================================
