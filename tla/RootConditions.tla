--------------------------- MODULE RootConditions ---------------------------
(***************************************************************************)
(* The condition manager of the root module (pkg/controller/conditions)    *)
(* and the preconditions that write through it                             *)
(* (pkg/controller/precondition), as functions of a list of conditions.    *)
(*                                                                         *)
(* Unlike the framework's manager this one orders unhappy dependents by    *)
(* the time of their last transition, counts a missing dependent as        *)
(* healthy, and lets the happy condition be written.  Reason and message   *)
(* travel together; a severity is whether it is Info.                      *)
(***************************************************************************)
EXTENDS Naturals, Sequences, SequencesExt

CONSTANTS
    RootTypes,      \* condition types
    Happy,          \* the happy condition
    RootDependents, \* its dependents, in the order of registration
    RootReasons     \* reasons besides the ones the code writes

ASSUME RootConditionsAssumption ==
    /\ Happy \in RootTypes
    /\ RootDependents \in Seq(RootTypes \ {Happy})
    /\ IsInjective(RootDependents)

RootStatuses == {"True", "False", "Unknown"}

\* A type without a condition.
Missing == [status |-> "Missing", reason |-> "", info |-> FALSE, gen |-> 0, time |-> 0]

\* The fields conditionsEqual compares.  Severity "Error" and none at all,
\* which mean the same, are one here: the code takes it for a change.
Content(c) == [c EXCEPT !.time = 0]

\* What Mark builds: the options of the caller on a bare condition.
Marked(status, reason, info, gen) ==
    [status |-> status, reason |-> reason, info |-> info, gen |-> gen, time |-> 0]

\* SetStatusCondition: a change that keeps the status keeps the time.
Upsert(cs, t, c, now) ==
    IF Content(cs[t]) = Content(c) THEN cs
    ELSE [cs EXCEPT ![t] = [c EXCEPT !.time =
            IF cs[t].status = c.status THEN cs[t].time ELSE now]]

\* The dependents that count against happiness, by their place in the order
\* of registration.
UnhappyDependents(cs) ==
    {i \in DOMAIN RootDependents :
        LET c == cs[RootDependents[i]]
        IN  ~c.info /\ c.status \in {"False", "Unknown"}}

\* False before Unknown, then the latest transition, then registration.
UnhappyBefore(cs, i, j) ==
    LET c == cs[RootDependents[i]]
        d == cs[RootDependents[j]]
    IN  \/ c.status = "False" /\ d.status = "Unknown"
        \/ c.status = d.status /\ c.time > d.time
        \/ c.status = d.status /\ c.time = d.time /\ i < j

FindUnhappy(cs) ==
    CHOOSE i \in UnhappyDependents(cs) :
        \A j \in UnhappyDependents(cs) \ {i} : UnhappyBefore(cs, i, j)

\* Mutant: a happy condition the caller writes is trusted.
RecomputeTrusting(cs, t, now) ==
    IF t = Happy THEN cs
    ELSE IF UnhappyDependents(cs) # {}
    THEN LET c == cs[RootDependents[FindUnhappy(cs)]]
         IN  Upsert(cs, Happy, Marked(c.status, c.reason, FALSE, 0), now)
    ELSE Upsert(cs, Happy, Marked("True", "AllDependentsHealthy", FALSE, 0), now)

RecomputeRootHappiness(cs, t, now) ==
    IF UnhappyDependents(cs) # {}
    THEN LET c == cs[RootDependents[FindUnhappy(cs)]]
         IN  Upsert(cs, Happy, Marked(c.status, c.reason, FALSE, 0), now)
    ELSE IF t # Happy
    THEN Upsert(cs, Happy, Marked("True", "AllDependentsHealthy", FALSE, 0), now)
    ELSE cs

\* Manager.SetCondition, and with it Mark, MarkTrue, MarkFalse, MarkUnknown.
SetRootCondition(cs, t, c, now) ==
    IF Upsert(cs, t, c, now) = cs THEN cs
    ELSE RecomputeRootHappiness(Upsert(cs, t, c, now), t, now)

ClearRootCondition(cs, t, now) ==
    IF cs[t] = Missing THEN cs
    ELSE RecomputeRootHappiness([cs EXCEPT ![t] = Missing], t, now)

\* Manager.MarkFrom: everything but the observed generation.
MarkRootFrom(cs, t, source, now) ==
    IF source = Missing THEN cs
    ELSE SetRootCondition(cs, t, [source EXCEPT !.gen = 0, !.time = 0], now)

ResetRoot == [t \in RootTypes |-> Missing]

\* NewManager: the happy condition is there, and missing dependents are
\* seeded with its health.
NewRootManager(cs, now) ==
    LET h == IF cs[Happy] = Missing THEN Marked("Unknown", "", FALSE, 0) ELSE cs[Happy]
        seed == IF h.status = "True" THEN "True" ELSE "Unknown"
    IN  [t \in RootTypes |->
            IF cs[t] # Missing THEN cs[t]
            ELSE IF t = Happy THEN [h EXCEPT !.time = now]
            ELSE IF t \in Range(RootDependents)
            THEN [Marked(seed, "", FALSE, 0) EXCEPT !.time = now]
            ELSE Missing]

-----------------------------------------------------------------------------
(***************************************************************************)
(* Preconditions.  p is [type, info, stop, clusters, skip, check]: the     *)
(* options of newPreCondition, and what its functions return this time.    *)
(***************************************************************************)

\* MonitorCRDs: the first mapping that fails for another reason than a
\* missing kind is an error; otherwise missing kinds fail the check.
MonitorCRDs(mappings) ==
    IF mappings = <<>> \/ "error" \in Range(mappings) THEN "error"
    ELSE IF "noMatch" \in Range(mappings) THEN "fail"
    ELSE "pass"

SkippedByClusterType(p, cluster) ==
    cluster # "" /\ p.clusters # {} /\ cluster \notin p.clusters

\* evalPreCondition: the status it records, True if it records none.
Verdict(p, cluster) ==
    IF SkippedByClusterType(p, cluster) \/ p.skip = "skip" THEN "True"
    ELSE IF p.skip = "error" THEN "Unknown"
    ELSE IF p.check = "fail" THEN "False"
    ELSE IF p.check \in {"nil", "error"} THEN "Unknown"
    ELSE "True"

\* The aggregate of one condition type: False > Unknown > True; severity
\* and stop come from the checks that did not pass.
AggregateOf(pcs, t, cluster) ==
    LET failing == {p \in pcs : p.type = t /\ Verdict(p, cluster) # "True"}
    IN  [status |-> IF \E p \in failing : Verdict(p, cluster) = "False" THEN "False"
                    ELSE IF failing # {} THEN "Unknown" ELSE "True",
         info   |-> \A p \in failing : p.info,
         stop   |-> \E p \in failing : p.stop]

\* The condition writeConditions marks for an aggregate.
Written(agg, gen) ==
    IF agg.status = "True" THEN Marked("True", "", FALSE, gen)
    ELSE Marked(agg.status, "PreConditionFailed", agg.info, gen)
=============================================================================
