------------------------- MODULE ConditionsManager --------------------------
(***************************************************************************)
(* One conditions.Manager over the status conditions of one object, called *)
(* in any order the API allows, and replaced by a new manager over what    *)
(* was persisted (the next reconciliation of the same object).             *)
(***************************************************************************)
EXTENDS Conditions

CONSTANT Options   \* what callers pass to Mark next to type and status

ASSUME OptionsAssumption ==
    Options \subseteq [reason : Reasons, severity : Severities, gen : Generations]

VARIABLES
    loaded,      \* the statuses of the list the manager was constructed over
    conds,       \* the conditions as the manager has them now
    tracking,    \* activeTypes is allocated (Reset was called)
    active,      \* activeTypes
    fresh,       \* types whose LastTransitionTime this manager stamped
    overridden   \* history: the target was written directly, or not yet
                 \* recomputed by this manager

vars == <<loaded, conds, tracking, active, fresh, overridden>>

\* Mutant: the old time is kept unless the condition is new.
StampOnlyNew(old, new) ==
    {t \in Types : new[t] # Absent /\ (t \in fresh \/ old[t] = Absent)}

\* The types stamped with a new transition time when the list goes from old
\* to new: those added, and those whose status changed.
Stamp(old, new) ==
    {t \in Types : new[t] # Absent /\
                   (t \in fresh \/ new[t].status # old[t].status)}

\* The list becomes new by calls that stamp as SetStatusCondition does.
Write(new) ==
    /\ conds' = new
    /\ fresh' = Stamp(conds, new)
    /\ UNCHANGED loaded

-----------------------------------------------------------------------------
\* The next reconciliation constructs a manager over the list this one saved.
\* (One that saved nothing leaves the list, and the manager that will be
\* constructed over it, as they were before it.)
NextReconcile ==
    /\ loaded' = [t \in Types |-> conds[t].status]
    /\ conds' = NewManager(conds)
    /\ fresh' = {t \in Types : conds[t].status # NewManager(conds)[t].status}
    /\ tracking' = FALSE
    /\ active' = {}
    /\ overridden' = (\A t \in Dependents : conds[t] # Absent)

Marked(status, o) ==
    [status |-> status, reason |-> o.reason, severity |-> o.severity, gen |-> o.gen]

Set(t, c) ==
    /\ Write(SetCondition(conds, t, c))
    /\ active' = IF tracking THEN active \union {t} ELSE active
    /\ overridden' = IF conds[t] = c THEN overridden ELSE t = Target
    /\ UNCHANGED tracking

\* Mark, MarkTrue, MarkFalse and MarkUnknown.
Mark(t, status, o) == Set(t, Marked(status, o))

MarkHealthy(t, o) == Mark(t, HealthyStatus(t), o)
MarkUnhealthy(t, o) == Mark(t, UnhealthyStatus(t), o)

\* MarkFrom copies a condition but not its observed generation.
MarkFrom(t, status, o) == Set(t, [Marked(status, o) EXCEPT !.gen = 0])

\* Removing the target is undone by the recomputation, with a new time.
Clear(t) ==
    /\ conds' = ClearCondition(conds, t)
    /\ fresh' = Stamp(conds, conds') \union
                  (IF t = Target /\ conds[t] # Absent THEN {Target} ELSE {})
    /\ overridden' = IF conds[t] = Absent THEN overridden ELSE FALSE
    /\ UNCHANGED <<loaded, tracking, active>>

RecomputeHappiness ==
    /\ Write(Recompute(conds))
    /\ overridden' = FALSE
    /\ UNCHANGED <<tracking, active>>

Reset ==
    /\ tracking' = TRUE
    /\ active' = {}
    /\ UNCHANGED <<loaded, conds, fresh, overridden>>

CleanupStaleConditions ==
    /\ Write(IF tracking THEN CleanupStale(conds, active) ELSE conds)
    /\ overridden' = IF tracking /\ Swept(conds, active) # conds THEN FALSE ELSE overridden
    /\ UNCHANGED <<tracking, active>>

-----------------------------------------------------------------------------
\* A new object: nothing persisted.
Init ==
    /\ loaded = [t \in Types |-> "Absent"]
    /\ conds = NewManager([t \in Types |-> Absent])
    /\ tracking = FALSE
    /\ active = {}
    /\ fresh = {t \in Types : conds[t] # Absent}
    /\ overridden = (Dependents = {})

Next ==
    \/ NextReconcile
    \/ \E t \in Types, s \in Statuses, o \in Options : Mark(t, s, o)
    \/ \E t \in Types, o \in Options : MarkHealthy(t, o)
    \/ \E t \in Types, o \in Options : MarkUnhealthy(t, o)
    \/ \E t \in Types, s \in Statuses, o \in Options : MarkFrom(t, s, o)
    \/ \E t \in Types : Clear(t)
    \/ RecomputeHappiness
    \/ Reset
    \/ CleanupStaleConditions

Spec == Init /\ [][Next]_vars

-----------------------------------------------------------------------------
(***************************************************************************)
(* Properties.                                                             *)
(***************************************************************************)

(* Every variable has its type, and the target is never missing: it is     *)
(* seeded by NewManager and put back by the recomputation when cleared.    *)
TypeOK ==
    /\ loaded \in [Types -> Statuses \union {"Absent"}]
    /\ conds \in [Types -> Slot]
    /\ conds[Target] # Absent
    /\ tracking \in BOOLEAN
    /\ active \subseteq Types
    /\ fresh \subseteq Types
    /\ overridden \in BOOLEAN

(* Whatever sequence of marks, clears, resets and cleanups came before, the *)
(* target reflects the other conditions unless the last change to the list  *)
(* was a direct write of the target (SetCondition's recomputation cannot be *)
(* skipped, and skipping it when nothing changed loses nothing).            *)
TargetReflectsDependents == ~overridden => Reflects(conds[Target], conds)

(* A condition that still carries the transition time it was loaded with    *)
(* still has the status it was loaded with, however often it was rewritten  *)
(* (SetStatusCondition keeps the old time only if the status is the same).  *)
InheritedTimeMeansInheritedStatus ==
    \A t \in Types : conds[t] # Absent /\ t \notin fresh
                     => conds[t].status = loaded[t]

(* After CleanupStaleConditions the object is happy only if every dependent *)
(* was set since Reset, and each one still listed is healthy or             *)
(* informational: health left over from an earlier reconciliation does not  *)
(* count.                                                                   *)
HappyNeedsEveryDependent ==
    [][tracking /\ IsHappy(conds') /\ ~overridden' /\ CleanupStaleConditions
         => \A d \in Dependents :
              /\ d \in active
              /\ conds'[d] # Absent =>
                   conds'[d].severity = "Info" \/ IsHealthy(d, conds'[d])]_vars
=============================================================================
