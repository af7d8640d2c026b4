----------------------------- MODULE Conditions -----------------------------
(***************************************************************************)
(* The condition manager and the aggregator of                             *)
(* framework/controller/conditions: a list of status conditions keyed by   *)
(* type, of which one, the target (usually Ready), is derived from the     *)
(* others.                                                                 *)
(*                                                                         *)
(* The list is a function from types to conditions.  Its order is not      *)
(* kept: every reader that depends on an order sorts first by              *)
(* compareConditions, and types are unique in the list.  Reason and        *)
(* message travel together and are one value.  Times are reduced to        *)
(* whether the LastTransitionTime of a condition is the one the manager    *)
(* was constructed with (variable fresh).                                  *)
(***************************************************************************)
EXTENDS Naturals

CONSTANTS
    Types,            \* condition types
    Target,           \* the aggregated type
    Dependents,       \* the types registered as dependents of the target
    HealthyWhenFalse, \* the dependents registered with inverted polarity
    Rank,             \* the lexicographic order of the types
    Reasons,          \* reasons (with their messages)
    NoReason,         \* the empty reason
    NotSet,           \* ConditionReasonNotSet
    Generations       \* values of ObservedGeneration

ASSUME TypesAssumption ==
    /\ Target \in Types
    /\ Dependents \subseteq Types \ {Target}
    /\ HealthyWhenFalse \subseteq Dependents

ASSUME RankAssumption ==
    /\ Rank \in [Types -> Nat]
    /\ \A t, u \in Types : Rank[t] = Rank[u] => t = u

ASSUME ValuesAssumption ==
    /\ NoReason \in Reasons
    /\ NotSet \in Reasons
    /\ 0 \in Generations
    /\ Generations \subseteq Nat

Statuses == {"True", "False", "Unknown"}
Severities == {"", "Info", "Error"}

Condition == [status : Statuses, reason : Reasons,
              severity : Severities, gen : Generations]

\* A type that is not in the list.
Absent == [status |-> "Absent", reason |-> NoReason, severity |-> "", gen |-> 0]

Slot == Condition \union {Absent}

\* A condition with only a status, as api.Condition{Type, Status} makes it.
Bare(status) ==
    [status |-> status, reason |-> NoReason, severity |-> "", gen |-> 0]

-----------------------------------------------------------------------------
(***************************************************************************)
(* The aggregator.                                                         *)
(***************************************************************************)

\* The status a type has when it is healthy.
HealthyStatus(t) == IF t \in HealthyWhenFalse THEN "False" ELSE "True"
UnhealthyStatus(t) == IF t \in HealthyWhenFalse THEN "True" ELSE "False"

\* Mutant: inverted polarity is not looked at.
IsHealthyIgnoringPolarity(t, c) == c.status = "True"

IsHealthy(t, c) == c.status = HealthyStatus(t)

ShouldConsider(t, c) ==
    /\ t # Target
    /\ c.severity # "Info"
    /\ Dependents = {} \/ t \in Dependents

Priority(t) == IF t = Target THEN 0 ELSE IF t \in Dependents THEN 1 ELSE 2

\* compareConditions(left, right) < 0
Before(t, u) ==
    \/ Priority(t) < Priority(u)
    \/ Priority(t) = Priority(u) /\ Rank[t] < Rank[u]

Considered(cs) == {t \in Types : cs[t] # Absent /\ ShouldConsider(t, cs[t])}
Unhealthy(cs) == {t \in Considered(cs) : ~IsHealthy(t, cs[t])}
ExplicitUnhealthy(cs) == {t \in Unhealthy(cs) : cs[t].status # "Unknown"}
UnknownUnhealthy(cs) == {t \in Unhealthy(cs) : cs[t].status = "Unknown"}

FirstOf(S) == CHOOSE t \in S : \A u \in S : ~Before(u, t)

\* The target's condition, derived: it mirrors the first explicitly
\* unhealthy condition, else the first unknown one, else it is True.
Aggregate(cs) ==
    IF ExplicitUnhealthy(cs) # {}
    THEN [Bare("False") EXCEPT !.reason = cs[FirstOf(ExplicitUnhealthy(cs))].reason]
    ELSE IF UnknownUnhealthy(cs) # {}
    THEN [Bare("Unknown") EXCEPT !.reason = cs[FirstOf(UnknownUnhealthy(cs))].reason]
    ELSE Bare("True")

-----------------------------------------------------------------------------
(***************************************************************************)
(* The manager's operations on a list of conditions.                       *)
(***************************************************************************)

\* SetStatusCondition: the stored condition becomes c; it reports a change
\* exactly when cs[t] # c (equals compares every field kept here).
SetStatusCondition(cs, t, c) == [cs EXCEPT ![t] = c]

Recompute(cs) == SetStatusCondition(cs, Target, Aggregate(cs))

\* A write of the target itself is not followed by a recomputation, nor is
\* one that changes nothing.
SetCondition(cs, t, c) ==
    IF cs[t] = c THEN cs
    ELSE IF t = Target THEN SetStatusCondition(cs, t, c)
    ELSE Recompute(SetStatusCondition(cs, t, c))

\* Mutant: clearing does not recompute.
ClearConditionNoRecompute(cs, t) == [cs EXCEPT ![t] = Absent]

ClearCondition(cs, t) ==
    IF cs[t] = Absent THEN cs
    ELSE Recompute([cs EXCEPT ![t] = Absent])

\* initializeConditions: the target first, without a recomputation, then the
\* dependents; each dependent added recomputes the target, and only the last
\* of these recomputations can be observed.
NewManager(cs) ==
    LET missing == {t \in Dependents : cs[t] = Absent}
        seeded == [t \in Types |->
                     IF cs[t] = Absent /\ t \in Dependents \union {Target}
                     THEN Bare("Unknown") ELSE cs[t]]
    IN  IF missing = {} THEN seeded ELSE Recompute(seeded)

NotSetCondition(t) ==
    [Bare(UnhealthyStatus(t)) EXCEPT !.reason = NotSet, !.severity = "Error"]

\* Mutant: a dependent nobody set is dropped like any other condition.
SweptDroppingDependents(cs, active) ==
    [t \in Types |-> IF t = Target \/ t \in active THEN cs[t] ELSE Absent]

\* What CleanupStaleConditions leaves of the list, before it recomputes:
\* a dependent nobody set in this reconciliation is reported unhealthy, any
\* other condition nobody set is dropped.
Swept(cs, active) ==
    [t \in Types |->
       IF t = Target \/ t \in active THEN cs[t]
       ELSE IF t \in Dependents THEN NotSetCondition(t) ELSE Absent]

CleanupStale(cs, active) ==
    IF Swept(cs, active) = cs THEN cs ELSE Recompute(Swept(cs, active))

IsHappy(cs) == cs[Target].status = "True"

\* The target agrees with the considered conditions cs: True exactly when all
\* of them are healthy, Unknown when none is worse than unknown, and otherwise
\* the reason is that of an unhealthy condition that has the reported status.
Reflects(target, cs) ==
    LET bad == {t \in Types \ {Target} :
                  /\ cs[t] # Absent
                  /\ cs[t].severity # "Info"
                  /\ t \in Dependents \/ Dependents = {}
                  /\ cs[t].status # HealthyStatus(t)}
    IN  /\ target.status = "True" <=> bad = {}
        /\ target.status = "Unknown" =>
              \A t \in bad : cs[t].status = "Unknown"
        /\ target.status = "False" =>
              \E t \in bad : cs[t].status # "Unknown" /\ cs[t].reason = target.reason
        /\ target.status = "Unknown" => \E t \in bad : cs[t].reason = target.reason
=============================================================================
