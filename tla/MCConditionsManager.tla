------------------------ MODULE MCConditionsManager -------------------------
(* Small instances of ConditionsManager for TLC. *)
EXTENDS ConditionsManager

CONSTANTS Ready, Provisioned, Degraded

\* The order of the condition types' names.
MCRank == [t \in Types |->
             CASE t = Degraded -> 1 [] t = Provisioned -> 2 [] OTHER -> 3]

MCOptions == {[reason |-> "failed", severity |-> "",     gen |-> 0],
              [reason |-> "late",   severity |-> "Info", gen |-> 0]}
=============================================================================
