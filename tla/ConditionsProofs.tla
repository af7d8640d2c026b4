-------------------------- MODULE ConditionsProofs --------------------------
(***************************************************************************)
(* What the operations on condition lists compute, for any set of types,   *)
(* any dependents and any polarities: the lemmas the proofs about the      *)
(* manager and about the reconciler rest on.                               *)
(***************************************************************************)
EXTENDS Conditions, WellFoundedInduction, TLAPS

(***************************************************************************)
(* The aggregator.                                                         *)
(***************************************************************************)

\* Any non-empty set of types has a first element in the order of
\* compareConditions, so the sorted scan of firstUnhealthyCondition finds one.
LEMMA FirstExists ==
    ASSUME NEW S, S \subseteq Types, S # {}
    PROVE  \E t \in S : \A u \in S : ~Before(u, t)
<1> DEFINE least(T) == \E x \in T : \A y \in T : ~(y < x)
<1>1. ASSUME NEW T, T \subseteq Nat, T # {} PROVE least(T)
  <2>1. \E x \in T : \A y \in T : ~(<<y, x>> \in OpToRel(<, Nat))
    BY <1>1, WFMin, NatLessThanWellFounded
  <2> QED BY <2>1, <1>1 DEF OpToRel
<1>2. \A t \in Types : Priority(t) \in 0 .. 2
  BY DEF Priority
<1> DEFINE P == {Priority(t) : t \in S}
<1>3. P \subseteq Nat /\ P # {}
  BY <1>2
<1>4. PICK p \in P : \A q \in P : ~(q < p)
  BY <1>1, <1>3
<1> DEFINE Top == {t \in S : Priority(t) = p}
           R == {Rank[t] : t \in Top}
<1>5. R \subseteq Nat /\ R # {}
  BY <1>4, RankAssumption
<1>6. PICK r \in R : \A q \in R : ~(q < r)
  BY <1>1, <1>5
<1>7. PICK t \in Top : Rank[t] = r
  OBVIOUS
<1>8. \A u \in S : ~Before(u, t)
  BY <1>2, <1>4, <1>6, <1>7, RankAssumption DEF Before
<1> QED BY <1>7, <1>8

LEMMA FirstOfIn ==
    ASSUME NEW S, S \subseteq Types, S # {}
    PROVE  FirstOf(S) \in S
BY FirstExists DEF FirstOf

LEMMA DerivedIsCondition ==
    ASSUME NEW st \in Statuses, NEW r \in Reasons
    PROVE  [status |-> st, reason |-> r, severity |-> "", gen |-> 0] \in Condition
BY ValuesAssumption DEF Condition, Severities

\* What the unhealthy set must look like for a target of a given status and
\* reason to reflect the list.
LEMMA ReflectsByCases ==
    ASSUME NEW cs, NEW st \in Statuses, NEW r,
           st = "True" => Unhealthy(cs) = {},
           st = "False" => \E t \in Unhealthy(cs) :
                              cs[t].status # "Unknown" /\ cs[t].reason = r,
           st = "Unknown" => /\ \E t \in Unhealthy(cs) : cs[t].reason = r
                             /\ \A t \in Unhealthy(cs) : cs[t].status = "Unknown"
    PROVE  Reflects([status |-> st, reason |-> r, severity |-> "", gen |-> 0], cs)
<1>1. Unhealthy(cs) = {t \in Types \ {Target} :
                  /\ cs[t] # Absent
                  /\ cs[t].severity # "Info"
                  /\ t \in Dependents \/ Dependents = {}
                  /\ cs[t].status # HealthyStatus(t)}
  BY DEF Unhealthy, Considered, ShouldConsider, IsHealthy
<1> DEFINE U == Unhealthy(cs)
<1> HIDE DEF U
<1>2. U = Unhealthy(cs)
  BY DEF U
<1>3. /\ st = "True" => U = {}
      /\ st = "False" => \E t \in U : cs[t].status # "Unknown" /\ cs[t].reason = r
      /\ st = "Unknown" => /\ \E t \in U : cs[t].reason = r
                           /\ \A t \in U : cs[t].status = "Unknown"
  BY <1>2
<1>4. /\ st = "True" <=> U = {}
      /\ st = "Unknown" => \A t \in U : cs[t].status = "Unknown"
      /\ st = "False" => \E t \in U : cs[t].status # "Unknown" /\ cs[t].reason = r
      /\ st = "Unknown" => \E t \in U : cs[t].reason = r
  BY <1>3 DEF Statuses
<1> QED BY <1>1, <1>2, <1>4 DEF Reflects

\* Aggregate yields a condition, and one that reflects the list.
LEMMA AggregateReflects ==
    ASSUME NEW cs \in [Types -> Slot]
    PROVE  Aggregate(cs) \in Condition /\ Reflects(Aggregate(cs), cs)
<1>1. Unhealthy(cs) \subseteq Types
  BY DEF Unhealthy, Considered
<1>2. \A t \in Unhealthy(cs) : cs[t].reason \in Reasons
  BY DEF Slot, Unhealthy, Considered, Condition
<1>3. CASE ExplicitUnhealthy(cs) # {}
  <2>1. PICK f : f = FirstOf(ExplicitUnhealthy(cs))
    OBVIOUS
  <2>2. f \in ExplicitUnhealthy(cs)
    BY <1>1, <1>3, <2>1, FirstOfIn DEF ExplicitUnhealthy
  <2>3. f \in Unhealthy(cs) /\ cs[f].status # "Unknown"
    BY <2>2 DEF ExplicitUnhealthy
  <2>4. Aggregate(cs) = [status |-> "False", reason |-> cs[f].reason, severity |-> "", gen |-> 0]
    BY <1>3, <2>1 DEF Aggregate, Bare
  <2>5. cs[f].reason \in Reasons
    BY <1>2, <2>3
  <2>6. Reflects([status |-> "False", reason |-> cs[f].reason, severity |-> "", gen |-> 0], cs)
    BY <2>3, ReflectsByCases DEF Statuses
  <2> QED BY <2>4, <2>5, <2>6, DerivedIsCondition DEF Statuses
<1>4. CASE ExplicitUnhealthy(cs) = {} /\ UnknownUnhealthy(cs) # {}
  <2>1. PICK f : f = FirstOf(UnknownUnhealthy(cs))
    OBVIOUS
  <2>2. f \in UnknownUnhealthy(cs)
    BY <1>1, <1>4, <2>1, FirstOfIn DEF UnknownUnhealthy
  <2>3. f \in Unhealthy(cs)
    BY <2>2 DEF UnknownUnhealthy
  <2>4. Aggregate(cs) = [status |-> "Unknown", reason |-> cs[f].reason, severity |-> "", gen |-> 0]
    BY <1>4, <2>1 DEF Aggregate, Bare
  <2>5. cs[f].reason \in Reasons
    BY <1>2, <2>3
  <2>6. \A t \in Unhealthy(cs) : cs[t].status = "Unknown"
    BY <1>4 DEF ExplicitUnhealthy
  <2>7. Reflects([status |-> "Unknown", reason |-> cs[f].reason, severity |-> "", gen |-> 0], cs)
    BY <2>3, <2>6, ReflectsByCases DEF Statuses
  <2> QED BY <2>4, <2>5, <2>7, DerivedIsCondition DEF Statuses
<1>5. CASE ExplicitUnhealthy(cs) = {} /\ UnknownUnhealthy(cs) = {}
  <2>1. Unhealthy(cs) = {}
    BY <1>5 DEF ExplicitUnhealthy, UnknownUnhealthy
  <2>2. Aggregate(cs) = [status |-> "True", reason |-> NoReason, severity |-> "", gen |-> 0]
    BY <1>5 DEF Aggregate, Bare
  <2>3. Reflects([status |-> "True", reason |-> NoReason, severity |-> "", gen |-> 0], cs)
    BY <2>1, ReflectsByCases DEF Statuses
  <2> QED BY <2>2, <2>3, ValuesAssumption, DerivedIsCondition DEF Statuses
<1> QED BY <1>3, <1>4, <1>5

(***************************************************************************)
(* The operations on the list.                                             *)
(***************************************************************************)

Lists == [Types -> Slot]

\* A list whose target is present and reflects the other conditions.
Derived(cs) == cs[Target] \in Condition /\ Reflects(cs[Target], cs)

LEMMA AbsentIsNoCondition == Absent \notin Condition
BY DEF Absent, Condition, Statuses

LEMMA BareIsCondition ==
    ASSUME NEW st \in Statuses PROVE Bare(st) \in Condition
BY ValuesAssumption, DerivedIsCondition DEF Bare

\* Reflects looks at the conditions other than the target only.
LEMMA ReflectsOthers ==
    ASSUME NEW a, NEW cs, NEW ds, \A t \in Types \ {Target} : cs[t] = ds[t],
           Reflects(a, cs)
    PROVE  Reflects(a, ds)
BY DEF Reflects

LEMMA RecomputeDerives ==
    ASSUME NEW cs \in Lists
    PROVE  /\ Recompute(cs) \in Lists
           /\ Derived(Recompute(cs))
           /\ \A t \in Types \ {Target} : Recompute(cs)[t] = cs[t]
<1>1. PICK a : a = Aggregate(cs)
  OBVIOUS
<1>2. a \in Condition /\ Reflects(a, cs)
  BY <1>1, AggregateReflects DEF Lists
<1>3. PICK ds : ds = [cs EXCEPT ![Target] = a]
  OBVIOUS
<1>4. ds = Recompute(cs)
  BY <1>1, <1>3 DEF Recompute, SetStatusCondition
<1>5. /\ ds \in Lists
      /\ ds[Target] = a
      /\ \A t \in Types \ {Target} : ds[t] = cs[t]
  BY <1>2, <1>3, TypesAssumption DEF Lists, Slot
<1>6. Reflects(a, ds)
  BY <1>2, <1>5, ReflectsOthers
<1> QED BY <1>2, <1>4, <1>5, <1>6 DEF Derived

LEMMA SetConditionResult ==
    ASSUME NEW cs \in Lists, cs[Target] # Absent, NEW t \in Types, NEW c \in Condition
    PROVE  /\ SetCondition(cs, t, c) \in Lists
           /\ SetCondition(cs, t, c)[Target] # Absent
           /\ cs[t] = c => SetCondition(cs, t, c) = cs
           /\ cs[t] # c /\ t # Target => Derived(SetCondition(cs, t, c))
<1>1. PICK ds : ds = [cs EXCEPT ![t] = c]
  OBVIOUS
<1>2. ds \in Lists /\ ds[t] = c
  BY <1>1 DEF Lists, Slot
<1>3. CASE cs[t] = c
  BY <1>3 DEF SetCondition
<1>4. CASE cs[t] # c /\ t = Target
  <2>1. SetCondition(cs, t, c) = ds
    BY <1>1, <1>4 DEF SetCondition, SetStatusCondition
  <2> QED BY <1>2, <1>4, <2>1, AbsentIsNoCondition
<1>5. CASE cs[t] # c /\ t # Target
  <2>1. SetCondition(cs, t, c) = Recompute(ds)
    BY <1>1, <1>5 DEF SetCondition, SetStatusCondition
  <2> QED BY <1>2, <1>5, <2>1, RecomputeDerives, AbsentIsNoCondition DEF Derived
<1> QED BY <1>3, <1>4, <1>5

LEMMA ClearConditionResult ==
    ASSUME NEW cs \in Lists, cs[Target] # Absent, NEW t \in Types
    PROVE  /\ ClearCondition(cs, t) \in Lists
           /\ ClearCondition(cs, t)[Target] # Absent
           /\ cs[t] = Absent => ClearCondition(cs, t) = cs
           /\ cs[t] # Absent => Derived(ClearCondition(cs, t))
<1>1. PICK ds : ds = [cs EXCEPT ![t] = Absent]
  OBVIOUS
<1>2. ds \in Lists
  BY <1>1 DEF Lists, Slot
<1>3. CASE cs[t] = Absent
  BY <1>3 DEF ClearCondition
<1>4. CASE cs[t] # Absent
  <2>1. ClearCondition(cs, t) = Recompute(ds)
    BY <1>1, <1>4 DEF ClearCondition
  <2> QED BY <1>2, <1>4, <2>1, RecomputeDerives, AbsentIsNoCondition DEF Derived
<1> QED BY <1>3, <1>4

LEMMA NewManagerResult ==
    ASSUME NEW cs \in Lists
    PROVE  /\ NewManager(cs) \in Lists
           /\ NewManager(cs)[Target] # Absent
           /\ (\E t \in Dependents : cs[t] = Absent) => Derived(NewManager(cs))
<1>1. PICK ds : ds = [t \in Types |->
                     IF cs[t] = Absent /\ t \in Dependents \union {Target}
                     THEN Bare("Unknown") ELSE cs[t]]
  OBVIOUS
<1>2. Bare("Unknown") \in Condition
  BY BareIsCondition DEF Statuses
<1>3. ds \in Lists /\ ds[Target] # Absent
  BY <1>1, <1>2, TypesAssumption, AbsentIsNoCondition DEF Lists, Slot
<1>4. CASE {t \in Dependents : cs[t] = Absent} = {}
  <2>1. NewManager(cs) = ds
    BY <1>1, <1>4 DEF NewManager
  <2> QED BY <1>3, <1>4, <2>1
<1>5. CASE {t \in Dependents : cs[t] = Absent} # {}
  <2>1. NewManager(cs) = Recompute(ds)
    BY <1>1, <1>5 DEF NewManager
  <2> QED BY <1>3, <2>1, RecomputeDerives, AbsentIsNoCondition DEF Derived
<1> QED BY <1>4, <1>5

LEMMA SweptIsList ==
    ASSUME NEW cs \in Lists, NEW A \in SUBSET Types
    PROVE  Swept(cs, A) \in Lists
<1>1. \A t \in Dependents : NotSetCondition(t) \in Condition
  BY ValuesAssumption, TypesAssumption
  DEF NotSetCondition, UnhealthyStatus, Bare, Condition, Statuses, Severities
<1> QED BY <1>1 DEF Swept, Lists, Slot

LEMMA CleanupStaleResult ==
    ASSUME NEW cs \in Lists, cs[Target] # Absent, NEW A \in SUBSET Types
    PROVE  /\ CleanupStale(cs, A) \in Lists
           /\ CleanupStale(cs, A)[Target] # Absent
           /\ Swept(cs, A) = cs => CleanupStale(cs, A) = cs
           /\ Swept(cs, A) # cs => Derived(CleanupStale(cs, A))
<1>1. CASE Swept(cs, A) = cs
  BY <1>1 DEF CleanupStale
<1>2. CASE Swept(cs, A) # cs
  <2>1. CleanupStale(cs, A) = Recompute(Swept(cs, A))
    BY <1>2 DEF CleanupStale
  <2> QED BY <1>2, <2>1, SweptIsList, RecomputeDerives, AbsentIsNoCondition DEF Derived
<1> QED BY <1>1, <1>2

\* Whether or not the target is there, the operations keep lists lists.
LEMMA OperationsKeepLists ==
    ASSUME NEW cs \in Lists
    PROVE  /\ \A t \in Types, c \in Condition : SetCondition(cs, t, c) \in Lists
           /\ \A A \in SUBSET Types : CleanupStale(cs, A) \in Lists
<1>1. ASSUME NEW t \in Types, NEW c \in Condition
      PROVE  SetCondition(cs, t, c) \in Lists
  <2>1. PICK ds : ds = [cs EXCEPT ![t] = c]
    OBVIOUS
  <2>2. ds \in Lists
    BY <2>1 DEF Lists, Slot
  <2>3. SetCondition(cs, t, c) = IF cs[t] = c THEN cs ELSE IF t = Target THEN ds ELSE Recompute(ds)
    BY <2>1 DEF SetCondition, SetStatusCondition
  <2> QED BY <2>2, <2>3, RecomputeDerives
<1>2. ASSUME NEW A \in SUBSET Types
      PROVE  CleanupStale(cs, A) \in Lists
  BY SweptIsList, RecomputeDerives DEF CleanupStale
<1> QED BY <1>1, <1>2
=============================================================================
