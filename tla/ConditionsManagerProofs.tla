---------------------- MODULE ConditionsManagerProofs -----------------------
(***************************************************************************)
(* Proofs about the condition manager, for any set of types, any           *)
(* dependents and polarities, and any options.                             *)
(***************************************************************************)
EXTENDS ConditionsManager, ConditionsProofs

LEMMA MarkedIsCondition ==
    ASSUME NEW s \in Statuses, NEW o \in Options
    PROVE  /\ Marked(s, o) \in Condition
           /\ [Marked(s, o) EXCEPT !.gen = 0] \in Condition
BY OptionsAssumption, ValuesAssumption DEF Marked, Condition

(***************************************************************************)
(* The manager's state machine.                                            *)
(***************************************************************************)

\* What every way of changing the list keeps: the three invariants together
\* are inductive.
ManagerInv == TypeOK /\ TargetReflectsDependents /\ InheritedTimeMeansInheritedStatus

\* The list is well formed and its target present.
LEMMA InvFacts ==
    ASSUME ManagerInv
    PROVE  conds \in Lists /\ conds[Target] # Absent /\ active \in SUBSET Types
BY DEF ManagerInv, TypeOK, Lists

LEMMA StatusOfSlot ==
    ASSUME NEW c \in Slot
    PROVE  /\ c.status \in Statuses \union {"Absent"}
           /\ c = Absent <=> c.status = "Absent"
<1>1. CASE c \in Condition
  <2>1. c.status \in Statuses
    BY <1>1 DEF Condition
  <2> QED BY <1>1, <2>1, AbsentIsNoCondition DEF Statuses
<1>2. CASE c = Absent
  BY <1>2 DEF Absent
<1> QED BY <1>1, <1>2 DEF Slot

\* A list written as SetStatusCondition writes it keeps what inherited times
\* say, whatever the new list is.
LEMMA StampKeepsInheritance ==
    ASSUME ManagerInv, NEW new \in Lists, loaded' = loaded, conds' = new,
           Stamp(conds, new) \subseteq fresh'
    PROVE  InheritedTimeMeansInheritedStatus'
<1>1. SUFFICES ASSUME NEW t \in Types, new[t] # Absent, t \notin fresh'
               PROVE  new[t].status = loaded[t]
  BY DEF InheritedTimeMeansInheritedStatus
<1>2. t \notin fresh /\ new[t].status = conds[t].status
  BY <1>1 DEF Stamp
<1>3. conds[t] \in Slot /\ new[t] \in Slot
  BY InvFacts DEF Lists
<1>4. conds[t] # Absent
  BY <1>1, <1>2, <1>3, StatusOfSlot
<1>5. conds[t].status = loaded[t]
  BY <1>2, <1>4 DEF ManagerInv, InheritedTimeMeansInheritedStatus
<1> QED BY <1>2, <1>5

\* A write of a well formed list with its target, that leaves it derived
\* unless the step says it is overridden, keeps the invariant.
LEMMA WriteKeepsInv ==
    ASSUME ManagerInv, NEW new \in Lists, new[Target] # Absent,
           loaded' = loaded, conds' = new,
           Stamp(conds, new) \subseteq fresh', fresh' \subseteq Types,
           tracking' \in BOOLEAN, active' \subseteq Types, overridden' \in BOOLEAN,
           ~overridden' => Derived(new) \/ (new = conds /\ ~overridden)
    PROVE  ManagerInv'
<1>1. TypeOK'
  BY DEF ManagerInv, TypeOK, Lists
<1>2. TargetReflectsDependents'
  BY DEF ManagerInv, TargetReflectsDependents, Derived
<1>3. InheritedTimeMeansInheritedStatus'
  BY StampKeepsInheritance
<1> QED BY <1>1, <1>2, <1>3 DEF ManagerInv

LEMMA SetKeepsInv ==
    ASSUME ManagerInv, NEW t \in Types, NEW c \in Condition, Set(t, c)
    PROVE  ManagerInv'
<1>1. PICK new : new = SetCondition(conds, t, c)
  OBVIOUS
<1>2. /\ new \in Lists
      /\ new[Target] # Absent
      /\ conds[t] = c => new = conds
      /\ conds[t] # c /\ t # Target => Derived(new)
  BY <1>1, InvFacts, SetConditionResult
<1>3. /\ loaded' = loaded
      /\ conds' = new
      /\ fresh' = Stamp(conds, new)
      /\ tracking' = tracking
      /\ active' = IF tracking THEN active \union {t} ELSE active
      /\ overridden' = IF conds[t] = c THEN overridden ELSE t = Target
  BY <1>1 DEF Set, Write
<1>4. fresh' \subseteq Types /\ active' \subseteq Types
  BY <1>3, InvFacts DEF Stamp
<1>5. tracking' \in BOOLEAN /\ overridden' \in BOOLEAN
  BY <1>3 DEF ManagerInv, TypeOK
<1>6. ~overridden' => Derived(new) \/ (new = conds /\ ~overridden)
  BY <1>2, <1>3
<1> QED BY <1>2, <1>3, <1>4, <1>5, <1>6, WriteKeepsInv

LEMMA ClearKeepsInv ==
    ASSUME ManagerInv, NEW t \in Types, Clear(t)
    PROVE  ManagerInv'
<1>1. PICK new : new = ClearCondition(conds, t)
  OBVIOUS
<1>2. /\ new \in Lists
      /\ new[Target] # Absent
      /\ conds[t] = Absent => new = conds
      /\ conds[t] # Absent => Derived(new)
  BY <1>1, InvFacts, ClearConditionResult
<1>3. /\ loaded' = loaded
      /\ conds' = new
      /\ tracking' = tracking
      /\ active' = active
      /\ overridden' = IF conds[t] = Absent THEN overridden ELSE FALSE
      /\ fresh' = Stamp(conds, new) \union
                    (IF t = Target /\ conds[t] # Absent THEN {Target} ELSE {})
  BY <1>1 DEF Clear
<1>4. Stamp(conds, new) \subseteq fresh' /\ fresh' \subseteq Types
  BY <1>3, TypesAssumption DEF Stamp
<1>5. tracking' \in BOOLEAN /\ active' \subseteq Types /\ overridden' \in BOOLEAN
  BY <1>3 DEF ManagerInv, TypeOK
<1>6. ~overridden' => Derived(new) \/ (new = conds /\ ~overridden)
  BY <1>2, <1>3
<1> QED BY <1>2, <1>3, <1>4, <1>5, <1>6, WriteKeepsInv

LEMMA RecomputeKeepsInv ==
    ASSUME ManagerInv, RecomputeHappiness
    PROVE  ManagerInv'
<1>1. PICK new : new = Recompute(conds)
  OBVIOUS
<1>2. new \in Lists /\ Derived(new) /\ new[Target] # Absent
  BY <1>1, InvFacts, RecomputeDerives, AbsentIsNoCondition DEF Derived
<1>3. /\ loaded' = loaded
      /\ conds' = new
      /\ fresh' = Stamp(conds, new)
      /\ tracking' = tracking
      /\ active' = active
      /\ overridden' = FALSE
  BY <1>1 DEF RecomputeHappiness, Write
<1>4. fresh' \subseteq Types
  BY <1>3 DEF Stamp
<1>5. tracking' \in BOOLEAN /\ active' \subseteq Types
  BY <1>3 DEF ManagerInv, TypeOK
<1> QED BY <1>2, <1>3, <1>4, <1>5, WriteKeepsInv

LEMMA CleanupKeepsInv ==
    ASSUME ManagerInv, CleanupStaleConditions
    PROVE  ManagerInv'
<1>1. PICK new : new = IF tracking THEN CleanupStale(conds, active) ELSE conds
  OBVIOUS
<1>2. /\ new \in Lists
      /\ new[Target] # Absent
      /\ tracking /\ Swept(conds, active) # conds => Derived(new)
      /\ ~(tracking /\ Swept(conds, active) # conds) => new = conds
  BY <1>1, InvFacts, CleanupStaleResult
<1>3. /\ loaded' = loaded
      /\ conds' = new
      /\ fresh' = Stamp(conds, new)
      /\ tracking' = tracking
      /\ active' = active
      /\ overridden' = IF tracking /\ Swept(conds, active) # conds THEN FALSE ELSE overridden
  BY <1>1 DEF CleanupStaleConditions, Write
<1>4. fresh' \subseteq Types
  BY <1>3 DEF Stamp
<1>5. tracking' \in BOOLEAN /\ active' \subseteq Types /\ overridden' \in BOOLEAN
  BY <1>3 DEF ManagerInv, TypeOK
<1>6. ~overridden' => Derived(new) \/ (new = conds /\ ~overridden)
  BY <1>2, <1>3
<1> QED BY <1>2, <1>3, <1>4, <1>5, <1>6, WriteKeepsInv

\* A new manager over a list starts from the invariant, whatever the list.
LEMMA NewManagerInv ==
    ASSUME NEW cs \in Lists,
           loaded' = [t \in Types |-> cs[t].status],
           conds' = NewManager(cs),
           fresh' = {t \in Types : cs[t].status # NewManager(cs)[t].status},
           tracking' = FALSE,
           active' = {},
           overridden' = (\A t \in Dependents : cs[t] # Absent)
    PROVE  ManagerInv'
<1>1. PICK new : new = NewManager(cs)
  OBVIOUS
<1>2. /\ new \in Lists
      /\ new[Target] # Absent
      /\ (\E t \in Dependents : cs[t] = Absent) => Derived(new)
  BY <1>1, NewManagerResult
<1>3. loaded' \in [Types -> Statuses \union {"Absent"}]
  BY StatusOfSlot DEF Lists
<1>4. TypeOK'
  BY <1>1, <1>2, <1>3 DEF TypeOK, Lists
<1>5. TargetReflectsDependents'
  BY <1>1, <1>2 DEF TargetReflectsDependents, Derived
<1>6. InheritedTimeMeansInheritedStatus'
  BY <1>1 DEF InheritedTimeMeansInheritedStatus
<1> QED BY <1>4, <1>5, <1>6 DEF ManagerInv

(* The three invariants of the manager hold together in every reachable     *)
(* state: the inductive invariant behind the theorems below.                *)
THEOREM ManagerInvariant == Spec => []ManagerInv
<1>1. Init => ManagerInv
  <2> SUFFICES ASSUME Init PROVE ManagerInv
    OBVIOUS
  <2>1. PICK none : none = [t \in Types |-> Absent]
    OBVIOUS
  <2>2. none \in Lists /\ \A t \in Types : none[t] = Absent
    BY <2>1 DEF Lists, Slot
  <2>3. PICK new : new = NewManager(none)
    OBVIOUS
  <2>4. /\ new \in Lists
        /\ new[Target] # Absent
        /\ (\E t \in Dependents : none[t] = Absent) => Derived(new)
    BY <2>2, <2>3, NewManagerResult
  <2>5. conds = new
    BY <2>1, <2>3 DEF Init
  <2>6. TypeOK
    BY <2>4, <2>5 DEF Init, TypeOK, Lists
  <2>7. TargetReflectsDependents
    BY <2>2, <2>4, <2>5, TypesAssumption DEF Init, TargetReflectsDependents, Derived
  <2>8. InheritedTimeMeansInheritedStatus
    BY DEF Init, InheritedTimeMeansInheritedStatus
  <2> QED BY <2>6, <2>7, <2>8 DEF ManagerInv
<1>2. ManagerInv /\ [Next]_vars => ManagerInv'
  <2> SUFFICES ASSUME ManagerInv, [Next]_vars PROVE ManagerInv'
    OBVIOUS
  <2>1. CASE NextReconcile
    BY <2>1, InvFacts, NewManagerInv DEF NextReconcile
  <2>2. ASSUME NEW t \in Types, NEW s \in Statuses, NEW o \in Options, Mark(t, s, o)
        PROVE  ManagerInv'
    BY <2>2, MarkedIsCondition, SetKeepsInv DEF Mark
  <2>3. ASSUME NEW t \in Types, NEW o \in Options, MarkHealthy(t, o)
        PROVE  ManagerInv'
    <3>1. HealthyStatus(t) \in Statuses
      BY DEF HealthyStatus, Statuses
    <3> QED BY <2>2, <2>3, <3>1 DEF MarkHealthy
  <2>4. ASSUME NEW t \in Types, NEW o \in Options, MarkUnhealthy(t, o)
        PROVE  ManagerInv'
    <3>1. UnhealthyStatus(t) \in Statuses
      BY DEF UnhealthyStatus, Statuses
    <3> QED BY <2>2, <2>4, <3>1 DEF MarkUnhealthy
  <2>5. ASSUME NEW t \in Types, NEW s \in Statuses, NEW o \in Options, MarkFrom(t, s, o)
        PROVE  ManagerInv'
    BY <2>5, MarkedIsCondition, SetKeepsInv DEF MarkFrom
  <2>6. ASSUME NEW t \in Types, Clear(t)
        PROVE  ManagerInv'
    BY <2>6, ClearKeepsInv
  <2>7. CASE RecomputeHappiness
    BY <2>7, RecomputeKeepsInv
  <2>8. CASE Reset
    BY <2>8 DEF Reset, ManagerInv, TypeOK, TargetReflectsDependents,
                InheritedTimeMeansInheritedStatus
  <2>9. CASE CleanupStaleConditions
    BY <2>9, CleanupKeepsInv
  <2>10. CASE UNCHANGED vars
    BY <2>10 DEF vars, ManagerInv, TypeOK, TargetReflectsDependents,
                 InheritedTimeMeansInheritedStatus
  <2> QED BY <2>1, <2>2, <2>3, <2>4, <2>5, <2>6, <2>7, <2>8, <2>9, <2>10 DEF Next
<1> QED BY <1>1, <1>2, PTL DEF Spec

(* The manager's variables keep their types and the target is never missing *)
(* from the list, whatever sequence of calls is made.                       *)
THEOREM TypeCorrect == Spec => []TypeOK
BY ManagerInvariant, PTL DEF ManagerInv

(* Ready agrees with the conditions it is derived from after every call,    *)
(* unless it was itself the last thing written.                             *)
THEOREM TargetIsDerived == Spec => []TargetReflectsDependents
BY ManagerInvariant, PTL DEF ManagerInv

(* A condition that kept its transition time kept its status: what readers  *)
(* of LastTransitionTime rely on.                                           *)
THEOREM TransitionTimesAreHonest == Spec => []InheritedTimeMeansInheritedStatus
BY ManagerInvariant, PTL DEF ManagerInv

\* Outside the target, cleaning up leaves exactly what Swept leaves.
LEMMA CleanupLeavesSwept ==
    ASSUME NEW cs \in Lists, NEW A \in SUBSET Types
    PROVE  \A t \in Types \ {Target} : CleanupStale(cs, A)[t] = Swept(cs, A)[t]
<1>1. CASE Swept(cs, A) = cs
  BY <1>1 DEF CleanupStale
<1>2. CASE Swept(cs, A) # cs
  BY <1>2, SweptIsList, RecomputeDerives DEF CleanupStale
<1> QED BY <1>1, <1>2

\* A dependent reported as not set makes the target unhappy.
LEMMA NotSetIsUnhealthy ==
    ASSUME NEW d \in Dependents
    PROVE  /\ NotSetCondition(d) # Absent
           /\ NotSetCondition(d).severity # "Info"
           /\ NotSetCondition(d).status # HealthyStatus(d)
BY DEF NotSetCondition, Bare, Absent, UnhealthyStatus, HealthyStatus

(* No cleanup of stale conditions leaves an object happy on the strength of *)
(* a dependent that this reconciliation did not set.                        *)
THEOREM HappinessIsEarned == Spec => HappyNeedsEveryDependent
<1> DEFINE Earned == CleanupStaleConditions /\ tracking /\ ~overridden' /\ IsHappy(conds')
                       => \A d \in Dependents :
                            /\ d \in active
                            /\ conds'[d] # Absent =>
                                 conds'[d].severity = "Info" \/ IsHealthy(d, conds'[d])
<1>1. ManagerInv /\ ManagerInv' /\ [Next]_vars => Earned
  <2> SUFFICES ASSUME ManagerInv, ManagerInv', CleanupStaleConditions, tracking,
                      ~overridden', IsHappy(conds'), NEW d \in Dependents
               PROVE  /\ d \in active
                      /\ conds'[d] # Absent =>
                           conds'[d].severity = "Info" \/ IsHealthy(d, conds'[d])
    OBVIOUS
  <2>1. Reflects(conds'[Target], conds') /\ conds'[Target].status = "True"
    BY DEF ManagerInv, TargetReflectsDependents, IsHappy
  <2>2. d \in Types /\ d # Target
    BY TypesAssumption
  <2>3. ~(conds'[d] # Absent /\ conds'[d].severity # "Info"
            /\ conds'[d].status # HealthyStatus(d))
    BY <2>1, <2>2 DEF Reflects
  <2>4. d \in active
    <3>1. SUFFICES ASSUME d \notin active PROVE FALSE
      OBVIOUS
    <3>2. conds' = CleanupStale(conds, active)
      BY DEF CleanupStaleConditions, Write
    <3>3. conds'[d] = Swept(conds, active)[d]
      BY <2>2, <3>2, InvFacts, CleanupLeavesSwept
    <3>4. Swept(conds, active)[d] = NotSetCondition(d)
      BY <2>2, <3>1 DEF Swept
    <3> QED BY <2>3, <3>3, <3>4, NotSetIsUnhealthy
  <2> QED BY <2>3, <2>4 DEF IsHealthy
<1> QED BY <1>1, ManagerInvariant, PTL DEF HappyNeedsEveryDependent, Spec

=============================================================================
