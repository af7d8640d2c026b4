------------------------- MODULE MCStandaloneStatus -------------------------
(***************************************************************************)
(* A happy condition with two dependents: one is written by two            *)
(* preconditions, the other by one or by the reconciler itself.            *)
(***************************************************************************)
EXTENDS StandaloneStatus

MCDependents == <<"Deps", "Prov">>

Check(type, info, stop, skip, check) ==
    [type |-> type, info |-> info, stop |-> stop, clusters |-> {"OpenShift"},
     skip |-> skip, check |-> check]

MCChecks == {
    {},
    {Check("Deps", FALSE, TRUE, "no", MonitorCRDs(<<"ok", "noMatch">>))},
    {Check("Deps", TRUE, TRUE, "no", "fail"), Check("Deps", FALSE, FALSE, "no", "pass"),
     Check("Prov", FALSE, FALSE, "error", "pass")},
    {Check("Deps", FALSE, TRUE, "no", MonitorCRDs(<<"noMatch", "error">>)),
     Check("Prov", FALSE, FALSE, "no", MonitorCRDs(<<"ok">>))},
    {Check("Deps", FALSE, FALSE, "no", "pass"), Check("Prov", FALSE, TRUE, "skip", "nil")},
    {Check("Deps", FALSE, FALSE, "no", "pass"), Check("Prov", FALSE, FALSE, "no", "nil")}}

\* A new object; one that was healthy; one whose dependencies were missing.
MCHealthy ==
    SetRootCondition(SetRootCondition(NewRootManager(ResetRoot, 0), "Deps",
        Written([status |-> "True", info |-> FALSE, stop |-> FALSE], 1), 1),
        "Prov", Marked("True", "", FALSE, 1), 1)
MCInherited == {ResetRoot, MCHealthy,
    SetRootCondition(MCHealthy, "Deps",
        Written([status |-> "False", info |-> FALSE, stop |-> TRUE], 1), 1)}

MCRetries == {-1, 0, 1}
MCOneRetry == {1}
=============================================================================
