----------------------- MODULE StandaloneStatusProofs -----------------------
(***************************************************************************)
(* Proofs about the reconciler that does without the framework: for any    *)
(* condition types and dependents, any preconditions, any limits on        *)
(* retries, and any number of reconciliations and of other writes.         *)
(***************************************************************************)
EXTENDS StandaloneStatus, WellFoundedInduction, TLAPS

(***************************************************************************)
(* The root module's condition manager.                                    *)
(***************************************************************************)

LEMMA ClockBound == MaxClock \in Nat /\ 0 \in 0..MaxClock
<1>1. MaxClock \in Nat \ {0}
  BY StandaloneStatusAssumption, Zenon
<1> QED
  BY <1>1

LEMMA MissingIsSlot == Missing \in RootSlot
BY ClockBound DEF Missing, RootSlot, RootStatuses, AllReasons

LEMMA MarkedIsSlot ==
    ASSUME NEW s \in RootStatuses, NEW i \in BOOLEAN, NEW g \in Nat,
           NEW r \in AllReasons
    PROVE  /\ Marked(s, r, i, g) \in RootSlot
           /\ Marked(s, r, i, g).status = s
           /\ Marked(s, r, i, g).info = i
<1>2. Marked(s, r, i, g) \in RootSlot /\ Marked(s, r, i, g).status = s
  BY ClockBound DEF Marked, RootSlot
<1>3. Marked(s, r, i, g).info = i
  BY Zenon DEF Marked
<1> QED
  BY <1>2, <1>3

LEMMA DependentsAreTypes ==
    /\ Happy \in RootTypes
    /\ \A i \in DOMAIN RootDependents : RootDependents[i] \in RootTypes \ {Happy, ForeignType}
    /\ DOMAIN RootDependents \subseteq Nat
    /\ Range(RootDependents) \subseteq RootTypes \ {Happy, ForeignType}
<1>1. \A i \in DOMAIN RootDependents : RootDependents[i] \in RootTypes \ {Happy}
  BY RootConditionsAssumption
<1>2. DOMAIN RootDependents \subseteq Nat
  BY RootConditionsAssumption
<1>3. \A i \in DOMAIN RootDependents : RootDependents[i] \in Range(RootDependents)
  BY DEF Range
<1> QED
  BY <1>1, <1>2, <1>3, RootConditionsAssumption, StandaloneStatusAssumption DEF Range

\* Any set of numbers has a least one, any bounded one a greatest one.
LEMMA LeastExists ==
    ASSUME NEW S, S \subseteq Nat, S # {}
    PROVE  \E x \in S : \A y \in S : x <= y
<1>1. ASSUME NEW T, T \subseteq Nat, T # {}
      PROVE  \E x \in T : \A y \in T : ~(<<y, x>> \in OpToRel(<, Nat))
  BY <1>1, WFMin, NatLessThanWellFounded
<1>2. PICK x \in S : \A y \in S : ~(<<y, x>> \in OpToRel(<, Nat))
  BY <1>1
<1>3. \A y \in S : ~(y < x)
  BY <1>2 DEF OpToRel
<1> QED
  BY <1>3

LEMMA GreatestExists ==
    ASSUME NEW S, NEW m \in Nat, S \subseteq 0..m, S # {}
    PROVE  \E x \in S : \A y \in S : y <= x
<1> DEFINE T == {m - x : x \in S}
<1>0. \A x \in S : x \in Nat /\ m - x \in Nat
  OBVIOUS
<1>1. T \subseteq Nat /\ T # {}
  BY <1>0
<1>2. PICK z \in T : \A y \in T : z <= y
  BY <1>1, LeastExists
<1>3. PICK x \in S : z = m - x
  OBVIOUS
<1>4. ASSUME NEW y \in S PROVE y <= x
  <2>1. m - y \in T
    OBVIOUS
  <2> QED
    BY <1>0, <1>2, <1>3, <2>1
<1> QED
  BY <1>4

\* FindUnhappy finds one: the order is total, False first, the latest
\* transition next.
LEMMA FindUnhappyFinds ==
    ASSUME NEW cs \in RootLists, UnhappyDependents(cs) # {}
    PROVE  FindUnhappy(cs) \in UnhappyDependents(cs)
<1> DEFINE U == UnhappyDependents(cs)
           status(i) == cs[RootDependents[i]].status
           time(i) == cs[RootDependents[i]].time
           first == IF \E i \in U : status(i) = "False" THEN {i \in U : status(i) = "False"} ELSE U
<1>1. \A i \in U : status(i) \in {"False", "Unknown"} /\ i \in DOMAIN RootDependents
  BY DEF UnhappyDependents
<1>2. \A i \in U : time(i) \in 0..MaxClock /\ i \in Nat
  BY <1>1, DependentsAreTypes DEF RootLists, RootSlot
<1> HIDE DEF U, status, time
<1>3. first \subseteq U /\ first # {}
  BY DEF U
<1>4. \A i, j \in first : status(i) = status(j)
  BY <1>1
<1>5. \A i \in first, j \in U : j \notin first => status(i) = "False" /\ status(j) = "Unknown"
  BY <1>1
<1> HIDE DEF first
<1> DEFINE times == {time(i) : i \in first}
<1>6. times \subseteq 0..MaxClock /\ times # {}
  BY <1>2, <1>3
<1>7. PICK latest \in times : \A t \in times : t <= latest
  BY <1>6, GreatestExists, ClockBound
<1> DEFINE tied == {i \in first : time(i) = latest}
<1>8. tied \subseteq Nat /\ tied # {}
  BY <1>2, <1>3, <1>7
<1>9. PICK i \in tied : \A j \in tied : i <= j
  BY <1>8, LeastExists
<1>10. ASSUME NEW j \in U \ {i}
       PROVE  UnhappyBefore(cs, i, j)
  <2>1. i \in first /\ i \in Nat /\ j \in Nat /\ time(i) = latest
    BY <1>2, <1>3, <1>9
  <2>2. \/ status(i) = "False" /\ status(j) = "Unknown"
        \/ status(i) = status(j) /\ time(i) > time(j)
        \/ status(i) = status(j) /\ time(i) = time(j) /\ i < j
    <3>1. CASE j \notin first
      BY <1>5, <2>1, <3>1
    <3>2. CASE j \in first /\ j \notin tied
      <4>1. time(j) \in times /\ time(j) # latest /\ time(j) \in Nat /\ latest \in Nat
        BY <1>2, <1>6, <3>2
      <4> QED
        BY <1>4, <1>7, <2>1, <3>2, <4>1
    <3>3. CASE j \in tied
      BY <1>4, <1>9, <2>1, <3>3
    <3> QED
      BY <3>1, <3>2, <3>3
  <2> QED
    BY <2>2 DEF UnhappyBefore, status, time
<1>11. \E k \in UnhappyDependents(cs) :
         \A j \in UnhappyDependents(cs) \ {k} : UnhappyBefore(cs, k, j)
  BY <1>3, <1>9, <1>10 DEF U
<1> QED
  BY <1>11 DEF FindUnhappy

\* SetStatusCondition: content and status are those of the new condition.
LEMMA UpsertResult ==
    ASSUME NEW cs \in RootLists, NEW t \in RootTypes, NEW c \in RootSlot,
           NEW now \in 0..MaxClock
    PROVE  /\ Upsert(cs, t, c, now) \in RootLists
           /\ Upsert(cs, t, c, now)[t].status = c.status
           /\ Upsert(cs, t, c, now)[t].info = c.info
           /\ \A u \in RootTypes \ {t} : Upsert(cs, t, c, now)[u] = cs[u]
<1>1. cs[t] \in RootSlot
  BY DEF RootLists
<1>2. CASE Content(cs[t]) = Content(c)
  <2>1. Upsert(cs, t, c, now) = cs
    BY <1>2 DEF Upsert
  <2>2. \A d \in RootSlot : Content(d).status = d.status /\ Content(d).info = d.info
    BY DEF Content, RootSlot
  <2>3. cs[t].status = c.status /\ cs[t].info = c.info
    BY <1>1, <1>2, <2>2
  <2> QED
    BY <2>1, <2>3
<1>3. CASE Content(cs[t]) # Content(c)
  <2> DEFINE time == IF cs[t].status = c.status THEN cs[t].time ELSE now
             new == [c EXCEPT !.time = time]
  <2>1. time \in 0..MaxClock
    BY <1>1 DEF RootSlot
  <2> HIDE DEF time
  <2>2. new \in RootSlot /\ new.status = c.status /\ new.info = c.info
    BY <2>1 DEF RootSlot
  <2>3. Upsert(cs, t, c, now) = [cs EXCEPT ![t] = new]
    BY <1>3 DEF Upsert, time
  <2> HIDE DEF new
  <2>4. [cs EXCEPT ![t] = new][t] = new
    BY DEF RootLists
  <2> QED
    BY <2>2, <2>3, <2>4 DEF RootLists
<1> QED
  BY <1>2, <1>3

\* The dependents alone decide who is unhappy, and they and the happy
\* condition who is visible.
LEMMA VisibleByOwn ==
    ASSUME NEW cs, NEW ds, \A t \in Range(RootDependents) : cs[t] = ds[t]
    PROVE  /\ UnhappyDependents(cs) = UnhappyDependents(ds)
           /\ cs[Happy] = ds[Happy] /\ Visible(cs) => Visible(ds)
<1>1. \A i \in DOMAIN RootDependents : cs[RootDependents[i]] = ds[RootDependents[i]]
  BY DEF Range
<1>2. UnhappyDependents(cs) = UnhappyDependents(ds)
  BY <1>1 DEF UnhappyDependents
<1> QED
  BY <1>2 DEF Visible

\* Whatever was there, after RecomputeHappiness the list is visible.
LEMMA RecomputeResult ==
    ASSUME NEW cs \in RootLists, NEW t, NEW now \in 0..MaxClock
    PROVE  /\ RecomputeRootHappiness(cs, t, now) \in RootLists
           /\ Visible(RecomputeRootHappiness(cs, t, now))
           /\ \A u \in RootTypes \ {Happy} : RecomputeRootHappiness(cs, t, now)[u] = cs[u]
<1> DEFINE r == RecomputeRootHappiness(cs, t, now)
<1>1. CASE UnhappyDependents(cs) # {}
  <2> DEFINE i == FindUnhappy(cs)
             c == cs[RootDependents[i]]
             h == Marked(c.status, c.reason, FALSE, 0)
  <2>1. i \in UnhappyDependents(cs)
    BY <1>1, FindUnhappyFinds
  <2>2. c.status \in {"False", "Unknown"} /\ i \in DOMAIN RootDependents
    BY <2>1 DEF UnhappyDependents
  <2>3. c \in RootSlot
    BY <2>2, DependentsAreTypes DEF RootLists
  <2>4. c.reason \in AllReasons
    BY <2>3 DEF RootSlot
  <2>5. h \in RootSlot /\ h.status = c.status
    <3>1. c.status \in RootStatuses
      BY <2>2 DEF RootStatuses
    <3> HIDE DEF c
    <3> QED
      BY <2>4, <3>1, MarkedIsSlot
  <2>6. r = Upsert(cs, Happy, h, now)
    BY <1>1 DEF RecomputeRootHappiness
  <2> HIDE DEF h, c, i, r
  <2>7. r \in RootLists /\ r[Happy].status = c.status /\ \A u \in RootTypes \ {Happy} : r[u] = cs[u]
    BY <2>5, <2>6, UpsertResult, DependentsAreTypes
  <2>8. Visible(r)
    BY <2>2, <2>7 DEF Visible
  <2> QED
    BY <2>7, <2>8 DEF r
<1>2. CASE UnhappyDependents(cs) = {}
  <2> DEFINE h == Marked("True", "AllDependentsHealthy", FALSE, 0)
  <2>1. h \in RootSlot
    BY MarkedIsSlot DEF RootStatuses, AllReasons
  <2>2. r \in {cs, Upsert(cs, Happy, h, now)}
    BY <1>2 DEF RecomputeRootHappiness
  <2> HIDE DEF h, r
  <2>3. r \in RootLists /\ \A u \in RootTypes \ {Happy} : r[u] = cs[u]
    BY <2>1, <2>2, UpsertResult, DependentsAreTypes
  <2>4. UnhappyDependents(r) = {}
    BY <1>2, <2>3, VisibleByOwn, DependentsAreTypes
  <2> QED
    BY <2>3, <2>4 DEF r, Visible
<1> QED
  BY <1>1, <1>2

\* Manager.SetCondition: a visible list stays visible, the condition is set
\* and no other but the happy one changes.
LEMMA SetRootResult ==
    ASSUME NEW cs \in RootLists, Visible(cs), NEW t \in RootTypes, NEW c \in RootSlot,
           NEW now \in 0..MaxClock
    PROVE  LET r == SetRootCondition(cs, t, c, now)
           IN  /\ r \in RootLists
               /\ Visible(r)
               /\ \A u \in RootTypes \ {t, Happy} : r[u] = cs[u]
               /\ t # Happy => r[t].status = c.status /\ r[t].info = c.info
<1> DEFINE u == Upsert(cs, t, c, now)
<1>1. /\ u \in RootLists /\ u[t].status = c.status /\ u[t].info = c.info
      /\ \A v \in RootTypes \ {t} : u[v] = cs[v]
  BY UpsertResult
<1>2. CASE u = cs
  BY <1>1, <1>2 DEF SetRootCondition
<1>3. CASE u # cs
  <2>1. SetRootCondition(cs, t, c, now) = RecomputeRootHappiness(u, t, now)
    BY <1>3 DEF SetRootCondition
  <2> HIDE DEF u
  <2> QED
    BY <1>1, <2>1, RecomputeResult
<1> QED
  BY <1>2, <1>3

LEMMA ClearRootResult ==
    ASSUME NEW cs \in RootLists, Visible(cs), NEW t \in RootTypes, NEW now \in 0..MaxClock
    PROVE  LET r == ClearRootCondition(cs, t, now)
           IN  /\ r \in RootLists
               /\ Visible(r)
               /\ \A u \in RootTypes \ {t, Happy} : r[u] = cs[u]
<1> DEFINE d == [cs EXCEPT ![t] = Missing]
<1>1. d \in RootLists /\ \A u \in RootTypes \ {t} : d[u] = cs[u]
  BY MissingIsSlot DEF RootLists
<1>2. ClearRootCondition(cs, t, now) \in {cs, RecomputeRootHappiness(d, t, now)}
  BY DEF ClearRootCondition
<1> HIDE DEF d
<1> QED
  BY <1>1, <1>2, RecomputeResult

LEMMA MarkFromResult ==
    ASSUME NEW cs \in RootLists, Visible(cs), NEW t \in RootTypes, NEW source \in RootSlot,
           NEW now \in 0..MaxClock
    PROVE  LET r == MarkRootFrom(cs, t, source, now)
           IN  /\ r \in RootLists
               /\ Visible(r)
               /\ \A u \in RootTypes \ {t, Happy} : r[u] = cs[u]
<1> DEFINE b == [source EXCEPT !.gen = 0]
           c == [b EXCEPT !.time = 0]
<1>0. b \in RootSlot
  BY DEF RootSlot
<1>1. c \in RootSlot
  <2> HIDE DEF b
  <2> QED
    BY <1>0, ClockBound DEF RootSlot
<1>2. MarkRootFrom(cs, t, source, now) \in {cs, SetRootCondition(cs, t, c, now)}
  BY DEF MarkRootFrom
<1> HIDE DEF c
<1> QED
  BY <1>1, <1>2, SetRootResult

LEMMA ResetResult ==
    /\ ResetRoot \in RootLists /\ Visible(ResetRoot)
    /\ \A t \in RootTypes : ResetRoot[t] = Missing
BY MissingIsSlot, DependentsAreTypes DEF ResetRoot, RootLists, Visible, Missing

\* NewManager: missing dependents are seeded with the health of the happy
\* condition, so they do not contradict it.
LEMMA NewRootResult ==
    ASSUME NEW cs \in RootLists, Visible(cs), NEW now \in 0..MaxClock
    PROVE  LET r == NewRootManager(cs, now)
           IN  /\ r \in RootLists
               /\ Visible(r)
               /\ r[ForeignType] = cs[ForeignType]
<1> DEFINE h == IF cs[Happy] = Missing THEN Marked("Unknown", "", FALSE, 0) ELSE cs[Happy]
           seed == IF h.status = "True" THEN "True" ELSE "Unknown"
           timed == [h EXCEPT !.time = now]
           seeded == [Marked(seed, "", FALSE, 0) EXCEPT !.time = now]
           r == NewRootManager(cs, now)
<1>1. Marked("Unknown", "", FALSE, 0) \in RootSlot /\ Marked("Unknown", "", FALSE, 0).status = "Unknown"
  BY MarkedIsSlot DEF RootStatuses, AllReasons
<1>2. h \in RootSlot
  BY <1>1, DependentsAreTypes DEF RootLists
<1>3. timed \in RootSlot /\ timed.status = h.status
  BY <1>2 DEF RootSlot
<1>4. Marked(seed, "", FALSE, 0) \in RootSlot /\ Marked(seed, "", FALSE, 0).status = seed
  <2>1. seed \in RootStatuses
    BY DEF RootStatuses
  <2> HIDE DEF seed
  <2> QED
    BY <2>1, MarkedIsSlot DEF AllReasons
<1>5. seeded \in RootSlot /\ seeded.status = seed
  BY <1>4 DEF RootSlot
<1>6. r = [t \in RootTypes |->
            IF cs[t] # Missing THEN cs[t]
            ELSE IF t = Happy THEN timed
            ELSE IF t \in Range(RootDependents) THEN seeded ELSE Missing]
  BY DEF NewRootManager
<1>7. cs[Happy] = Missing => h.status = "Unknown"
  BY <1>1
<1>8. cs[Happy] # Missing => h = cs[Happy]
  OBVIOUS
<1>9. h.status = "True" => seed = "True"
  OBVIOUS
<1> HIDE DEF h, seed, timed, seeded, r
<1>10. r \in RootLists
  BY <1>3, <1>5, <1>6, MissingIsSlot DEF RootLists
<1>11. r[ForeignType] = cs[ForeignType]
  BY <1>6, StandaloneStatusAssumption
<1>12. Visible(r)
  <2> SUFFICES ASSUME r[Happy].status = "True"
               PROVE  UnhappyDependents(r) = {}
    BY DEF Visible
  <2>1. cs[Happy].status = "True" /\ h.status = "True"
    BY <1>3, <1>6, <1>7, <1>8, DependentsAreTypes
  <2>2. UnhappyDependents(cs) = {}
    BY <2>1 DEF Visible
  <2>3. ASSUME NEW i \in DOMAIN RootDependents
        PROVE  \/ r[RootDependents[i]] = cs[RootDependents[i]]
               \/ r[RootDependents[i]].status = "True"
    BY <1>5, <1>6, <1>9, <2>1, DependentsAreTypes DEF Range
  <2> QED
    BY <2>2, <2>3 DEF UnhappyDependents
<1> QED
  BY <1>10, <1>11, <1>12 DEF r

\* What writeConditions marks for an aggregate.
LEMMA WrittenResult ==
    ASSUME NEW t, NEW g \in Nat
    PROVE  LET agg == AggregateOf(pcs, t, cluster)
               c == Written(agg, g)
           IN  /\ c \in RootSlot
               /\ (\E p \in pcs : p.type = t /\ Verdict(p, cluster) # "True" /\ ~p.info)
                     => c.status \in {"False", "Unknown"} /\ ~c.info
               /\ agg.stop <=> \E p \in pcs : p.type = t /\ Verdict(p, cluster) # "True" /\ p.stop
<1> DEFINE failing == {p \in pcs : p.type = t /\ Verdict(p, cluster) # "True"}
           agg == AggregateOf(pcs, t, cluster)
           c == Written(agg, g)
           info == \A p \in failing : p.info
           stop == \E p \in failing : p.stop
           status == IF \E p \in failing : Verdict(p, cluster) = "False" THEN "False"
                     ELSE IF failing # {} THEN "Unknown" ELSE "True"
<1>1. agg = [status |-> status, info |-> info, stop |-> stop]
  BY Zenon DEF AggregateOf
<1>2. status \in RootStatuses /\ (failing # {} => status \in {"False", "Unknown"})
  BY DEF RootStatuses
<1>3. info \in BOOLEAN
  BY Zenon
<1> HIDE DEF failing, info, stop, status, agg
<1>4. agg.status = status /\ agg.info = info /\ agg.stop = stop
  BY <1>1
<1>5. CASE status = "True"
  <2>1. c = Marked("True", "", FALSE, g)
    BY <1>4, <1>5 DEF Written
  <2>2. c \in RootSlot
    <3>1. "True" \in RootStatuses /\ "" \in AllReasons /\ FALSE \in BOOLEAN
      BY DEF RootStatuses, AllReasons
    <3>2. Marked("True", "", FALSE, g) \in RootSlot
      BY <3>1, MarkedIsSlot, Zenon
    <3> QED BY <2>1, <3>2, Zenon
  <2>3. failing = {}
    BY <1>2, <1>5
  <2> QED
    BY <1>4, <2>2, <2>3, Zenon DEF failing, stop, agg
<1>6. CASE status # "True"
  <2>1. c = Marked(status, "PreConditionFailed", info, g)
    BY <1>4, <1>6 DEF Written
  <2>2. c \in RootSlot /\ c.status = status /\ c.info = info
    <3>1. "PreConditionFailed" \in AllReasons
      BY DEF AllReasons
    <3> DEFINE m == Marked(status, "PreConditionFailed", info, g)
    <3>2. m \in RootSlot /\ m.status = status /\ m.info = info
      BY <1>2, <1>3, <3>1, MarkedIsSlot
    <3> HIDE DEF c, m
    <3>3. c = m
      BY <2>1 DEF m
    <3> QED
      BY <3>2, <3>3, Zenon
  <2>3. (\E p \in failing : ~p.info) => c.status \in {"False", "Unknown"} /\ ~c.info
    BY <1>2, <2>2, Zenon DEF info
  <2> QED
    BY <1>4, <2>2, <2>3, Zenon DEF failing, stop, agg
<1> QED
  BY <1>5, <1>6

-----------------------------------------------------------------------------
(***************************************************************************)
(* Types, and what is visible.                                             *)
(***************************************************************************)

Objects == [rv : Nat, gen : Nat, conds : RootLists]

StatusTypeOK ==
    /\ stored \in Objects /\ cached \in Objects /\ obj \in Objects
    /\ computed \in RootLists
    /\ phase \in {"idle", "mark", "write", "put", "reread", "done"}
    /\ pcs \in Checks \union {{}}
    /\ pending \subseteq RootTypes \ {ForeignType}
    /\ stopped \in BOOLEAN
    /\ attempt \in Nat /\ retries \in Int /\ contention \in Int
    /\ clock \in 0..MaxClock

\* Every copy is visible: what is stored next comes from one of them.
AllVisible ==
    /\ Visible(stored.conds) /\ Visible(cached.conds)
    /\ Visible(obj.conds) /\ Visible(computed)

VisibleInv == StatusTypeOK /\ AllVisible

LEMMA ObjectFields ==
    ASSUME NEW o \in Objects
    PROVE  /\ o.rv \in Nat /\ o.gen \in Nat /\ o.conds \in RootLists
           /\ \A t \in RootTypes : o.conds[t] \in RootSlot
BY DEF Objects, RootLists

\* The updates the actions make.
LEMMA NewConditions ==
    ASSUME NEW o \in Objects, NEW cs \in RootLists
    PROVE  LET r == [o EXCEPT !.conds = cs]
           IN  r \in Objects /\ r.conds = cs /\ r.rv = o.rv /\ r.gen = o.gen
BY DEF Objects

LEMMA NewGeneration ==
    ASSUME NEW o \in Objects
    PROVE  LET r == [o EXCEPT !.gen = @ + 1, !.rv = @ + 1]
           IN  r \in Objects /\ r.conds = o.conds /\ r.rv = o.rv + 1
<1> DEFINE a == [o EXCEPT !.gen = o.gen + 1]
           b == [a EXCEPT !.rv = a.rv + 1]
<1>1. a \in Objects /\ a.conds = o.conds /\ a.rv = o.rv
  BY DEF Objects
<1>2. b \in Objects /\ b.conds = o.conds /\ b.rv = o.rv + 1
  <2> HIDE DEF a
  <2> QED
    BY <1>1 DEF Objects
<1> QED
  BY <1>2, Zenon

LEMMA NewVersion ==
    ASSUME NEW o \in Objects, NEW cs \in RootLists
    PROVE  LET r == [o EXCEPT !.rv = @ + 1, !.conds = cs]
           IN  r \in Objects /\ r.conds = cs /\ r.rv = o.rv + 1
<1> DEFINE a == [o EXCEPT !.rv = o.rv + 1]
           b == [a EXCEPT !.conds = cs]
<1>1. a \in Objects /\ a.rv = o.rv + 1
  BY DEF Objects
<1>2. b \in Objects /\ b.conds = cs /\ b.rv = o.rv + 1
  <2> HIDE DEF a
  <2> QED
    BY <1>1 DEF Objects
<1> QED
  BY <1>2, Zenon

LEMMA MutatedResult ==
    ASSUME NEW o \in Objects, computed' \in RootLists
    PROVE  LET r == Mutated(o)
           IN  /\ r \in Objects /\ r.rv = o.rv
               /\ Visible(o.conds) /\ Visible(computed') => Visible(r.conds)
               /\ r.conds[ForeignType] = o.conds[ForeignType]
               /\ Mutation = "own" => \A t \in Own : r.conds[t] = computed'[t]
<1>1. CASE Mutation = "alias"
  BY <1>1 DEF Mutated
<1>2. CASE Mutation # "alias"
  <2> DEFINE cs == [t \in RootTypes |-> IF t \in Own THEN computed'[t] ELSE o.conds[t]]
  <2>1. Mutated(o) = [o EXCEPT !.conds = cs]
    BY <1>2 DEF Mutated
  <2>2. cs \in RootLists
    BY ObjectFields DEF RootLists
  <2>3. Own \subseteq RootTypes /\ ForeignType \in RootTypes \ Own
    BY DependentsAreTypes, StandaloneStatusAssumption DEF Own
  <2>4. cs[ForeignType] = o.conds[ForeignType] /\ \A t \in Own : cs[t] = computed'[t]
    BY <2>3
  <2> HIDE DEF cs
  <2>5. Visible(computed') => Visible(cs)
    BY <2>4, VisibleByOwn DEF Own
  <2> QED
    BY <2>1, <2>2, <2>4, <2>5, NewConditions
<1> QED
  BY <1>1, <1>2

LEMMA TickIsBounded == StatusTypeOK /\ Tick => clock' \in 0..MaxClock
BY ClockBound DEF StatusTypeOK, Tick

\* Only the API server's copies change.
LEMMA ServerKeepsVisible ==
    ASSUME VisibleInv, UpdateSpec \/ ForeignWrite \/ Sync
    PROVE  VisibleInv'
<1> USE DEF VisibleInv, AllVisible
<1>1. CASE UpdateSpec
  <2>1. stored' \in Objects /\ stored'.conds = stored.conds
    BY <1>1, NewGeneration DEF UpdateSpec, StatusTypeOK
  <2> QED
    BY <1>1, <2>1 DEF UpdateSpec, StatusTypeOK, checking, updating
<1>2. CASE ForeignWrite
  <2>1. PICK s \in {"True", "False"} :
          LET conds == Upsert(stored.conds, ForeignType, Marked(s, "", FALSE, 0), clock)
          IN  stored' = [stored EXCEPT !.rv = @ + 1, !.conds = conds]
    BY <1>2, Zenon DEF ForeignWrite
  <2> DEFINE c == Marked(s, "", FALSE, 0)
             conds == Upsert(stored.conds, ForeignType, c, clock)
  <2>2. c \in RootSlot
    BY MarkedIsSlot DEF RootStatuses, AllReasons
  <2>3. ForeignType \in RootTypes \ Own
    BY StandaloneStatusAssumption DEF Own
  <2> HIDE DEF c
  <2>4. conds \in RootLists /\ \A t \in RootTypes \ {ForeignType} : conds[t] = stored.conds[t]
    BY <2>2, <2>3, UpsertResult, ObjectFields DEF StatusTypeOK
  <2>5. stored' = [stored EXCEPT !.rv = @ + 1, !.conds = conds]
    BY <2>1 DEF c
  <2> HIDE DEF conds
  <2>6. Visible(conds)
    <3>1. stored.conds[Happy] = conds[Happy] /\ \A t \in Range(RootDependents) : stored.conds[t] = conds[t]
      BY <2>3, <2>4, DependentsAreTypes DEF Own
    <3> QED
      BY <3>1, VisibleByOwn
  <2>7. stored' \in Objects /\ stored'.conds = conds
    BY <2>4, <2>5, NewVersion DEF StatusTypeOK
  <2>8. /\ contention' = contention + 1
        /\ UNCHANGED <<cached, obj, phase, checking, updating, clock>>
    BY <1>2, Zenon DEF ForeignWrite
  <2> QED
    BY <2>6, <2>7, <2>8 DEF StatusTypeOK, checking, updating
<1>3. CASE Sync
  BY <1>3 DEF Sync, StatusTypeOK, checking, updating
<1> QED
  BY <1>1, <1>2, <1>3

LEMMA StartKeepsVisible ==
    ASSUME VisibleInv, Start
    PROVE  VisibleInv'
<1> USE DEF VisibleInv, AllVisible
<1> DEFINE conds == NewRootManager(cached.conds, clock')
<1>1. clock' \in 0..MaxClock
  BY TickIsBounded DEF Start
<1>2. conds \in RootLists /\ Visible(conds)
  BY <1>1, NewRootResult, ObjectFields DEF StatusTypeOK
<1>3. obj' = [cached EXCEPT !.conds = conds]
  BY DEF Start
<1> HIDE DEF conds
<1>4. obj' \in Objects /\ obj'.conds = conds
  BY <1>2, <1>3, NewConditions DEF StatusTypeOK
<1>5. contention' \in Int
  BY ObjectFields DEF Start, StatusTypeOK
<1> QED
  BY <1>1, <1>2, <1>4, <1>5 DEF Start, StatusTypeOK, checking

\* One call of the manager, whatever it makes of the list.
LEMMA ManageKeepsVisible ==
    ASSUME VisibleInv, NEW cs \in RootLists, Visible(cs), Manage(cs), clock' \in 0..MaxClock
    PROVE  VisibleInv'
<1> USE DEF VisibleInv, AllVisible
<1>1. obj' \in Objects /\ obj'.conds = cs
  BY NewConditions DEF Manage, StatusTypeOK
<1> QED
  BY <1>1 DEF Manage, StatusTypeOK, checking, updating

\* The lists the calls leave; none touches the other actor's condition,
\* except Reset.
LEMMA ManagerCalls ==
    ASSUME VisibleInv, Mark \/ MarkFrom \/ Clear \/ Reset
    PROVE  \E cs \in RootLists :
               /\ Visible(cs) /\ Manage(cs) /\ clock' \in 0..MaxClock
               /\ \/ cs[ForeignType] = obj.conds[ForeignType] /\ wasReset' = wasReset
                  \/ cs[ForeignType] = Missing /\ wasReset'
<1> USE DEF VisibleInv, AllVisible
<1>1. Own \subseteq RootTypes /\ Happy \in Own /\ ForeignType \in RootTypes \ Own
  BY DependentsAreTypes, StandaloneStatusAssumption DEF Own
<1>2. obj.conds \in RootLists /\ obj.gen \in Nat /\ obj.conds[ForeignType] \in RootSlot
  BY <1>1, ObjectFields DEF StatusTypeOK
<1>3. CASE Mark
  <2>1. PICK t \in Own, s \in RootStatuses, r \in RootReasons, i \in BOOLEAN :
          Manage(SetRootCondition(obj.conds, t, Marked(s, r, i, obj.gen), clock'))
    BY <1>3 DEF Mark
  <2>2. Marked(s, r, i, obj.gen) \in RootSlot
    BY <1>2, MarkedIsSlot DEF AllReasons
  <2>3. clock' \in 0..MaxClock
    BY <1>3, TickIsBounded DEF Mark
  <2> QED
    BY <1>1, <1>2, <1>3, <2>1, <2>2, <2>3, SetRootResult DEF Mark
<1>4. CASE MarkFrom
  <2>1. PICK t \in Range(RootDependents) :
          Manage(MarkRootFrom(obj.conds, t, obj.conds[ForeignType], clock'))
    BY <1>4 DEF MarkFrom
  <2>2. clock' \in 0..MaxClock /\ t \in Own
    BY <1>4, TickIsBounded DEF MarkFrom, Own
  <2> QED
    BY <1>1, <1>2, <1>4, <2>1, <2>2, MarkFromResult DEF MarkFrom
<1>5. CASE Clear
  <2>1. PICK t \in Own : Manage(ClearRootCondition(obj.conds, t, clock'))
    BY <1>5 DEF Clear
  <2>2. clock' \in 0..MaxClock
    BY <1>5, TickIsBounded DEF Clear
  <2> QED
    BY <1>1, <1>2, <1>5, <2>1, <2>2, ClearRootResult DEF Clear
<1>6. CASE Reset
  BY <1>1, <1>6, ResetResult DEF Reset, StatusTypeOK
<1> QED
  BY <1>3, <1>4, <1>5, <1>6

LEMMA RunAllKeepsVisible ==
    ASSUME VisibleInv, RunAll
    PROVE  VisibleInv'
<1> USE DEF VisibleInv, AllVisible
<1>1. pcs' \in Checks /\ pending' \subseteq RootTypes \ {ForeignType}
  BY ChecksAssumption DEF RunAll
<1> QED
  BY <1>1 DEF RunAll, StatusTypeOK, updating, server

\* What a turn of writeConditions does to the list.
LEMMA WriteConditionResult ==
    ASSUME VisibleInv, WriteCondition
    PROVE  \E t \in pending :
             LET agg == AggregateOf(pcs, t, cluster)
                 c == Written(agg, obj.gen)
             IN  /\ obj' \in Objects /\ obj'.rv = obj.rv
                 /\ Visible(obj'.conds)
                 /\ \A u \in RootTypes \ {t, Happy} : obj'.conds[u] = obj.conds[u]
                 /\ t # Happy => obj'.conds[t].status = c.status /\ obj'.conds[t].info = c.info
                 /\ pending' = pending \ {t}
                 /\ stopped' = (stopped \/ agg.stop)
<1> USE DEF VisibleInv, AllVisible
<1>1. PICK t \in pending :
        LET agg == AggregateOf(pcs, t, cluster)
        IN  /\ obj' = [obj EXCEPT !.conds =
                         SetRootCondition(@, t, Written(agg, obj.gen), clock')]
            /\ pending' = pending \ {t}
            /\ stopped' = (stopped \/ agg.stop)
  BY Zenon DEF WriteCondition
<1> DEFINE agg == AggregateOf(pcs, t, cluster)
           c == Written(agg, obj.gen)
           cs == SetRootCondition(obj.conds, t, c, clock')
<1>2. t \in RootTypes /\ obj.conds \in RootLists /\ obj.gen \in Nat /\ clock' \in 0..MaxClock
  BY TickIsBounded, ObjectFields DEF StatusTypeOK, WriteCondition
<1>3. c \in RootSlot
  BY <1>2, WrittenResult
<1>4. obj' = [obj EXCEPT !.conds = cs] /\ pending' = pending \ {t} /\ stopped' = (stopped \/ agg.stop)
  BY <1>1, Zenon
<1> HIDE DEF c, agg
<1>5. /\ cs \in RootLists /\ Visible(cs)
      /\ \A u \in RootTypes \ {t, Happy} : cs[u] = obj.conds[u]
      /\ t # Happy => cs[t].status = c.status /\ cs[t].info = c.info
  BY <1>2, <1>3, SetRootResult
<1> HIDE DEF cs
<1>6. obj' \in Objects /\ obj'.conds = cs /\ obj'.rv = obj.rv
  BY <1>4, <1>5, NewConditions DEF StatusTypeOK
<1> QED
  BY <1>4, <1>5, <1>6, Zenon DEF c, agg

LEMMA WriteConditionKeepsVisible ==
    ASSUME VisibleInv, WriteCondition
    PROVE  VisibleInv'
<1>1. /\ obj' \in Objects /\ Visible(obj'.conds) /\ pending' \subseteq pending
      /\ stopped' \in BOOLEAN
  BY WriteConditionResult, Zenon
<1>2. clock' \in 0..MaxClock
  BY TickIsBounded DEF VisibleInv, WriteCondition
<1> QED
  BY <1>1, <1>2 DEF WriteCondition, VisibleInv, AllVisible, StatusTypeOK, updating, server

\* What StartUpdate and Reread make of the copy.
LEMMA MutateResult ==
    ASSUME VisibleInv, StartUpdate \/ Reread
    PROVE  \E o \in {obj, cached, stored} :
             /\ computed' \in RootLists /\ Visible(computed')
             /\ obj' \in Objects /\ obj'.rv = o.rv /\ Visible(obj'.conds)
             /\ obj'.conds[ForeignType] = o.conds[ForeignType]
             /\ phase' = "put" /\ Mutation = "own" => \A t \in Own : obj'.conds[t] = computed'[t]
             /\ StartUpdate => o = obj
             /\ Reread /\ ~StartUpdate => o = IF client = "cached" THEN cached ELSE stored
<1> USE DEF VisibleInv, AllVisible
<1>1. CASE StartUpdate
  <2>1. computed' = obj.conds /\ computed' \in RootLists
    BY <1>1, ObjectFields DEF StartUpdate, StatusTypeOK
  <2>2. \/ obj' = obj /\ phase' = "done"
        \/ obj' = Mutated(obj)
    BY <1>1 DEF StartUpdate, Finish
  <2> QED
    BY <1>1, <2>1, <2>2, MutatedResult DEF StatusTypeOK
<1>2. CASE Reread /\ ~StartUpdate
  <2> DEFINE o == IF client = "cached" THEN cached ELSE stored
  <2>1. computed' = computed /\ obj' = Mutated(o) /\ computed' \in RootLists
    BY <1>2 DEF Reread, StatusTypeOK
  <2>2. o \in Objects /\ o \in {cached, stored} /\ Visible(o.conds)
    BY DEF StatusTypeOK
  <2> HIDE DEF o
  <2>3. /\ obj' \in Objects /\ obj'.rv = o.rv /\ Visible(obj'.conds)
        /\ obj'.conds[ForeignType] = o.conds[ForeignType]
        /\ Mutation = "own" => \A t \in Own : obj'.conds[t] = computed'[t]
    BY <2>1, <2>2, MutatedResult
  <2> QED
    BY <1>2, <2>1, <2>2, <2>3 DEF o
<1> QED
  BY <1>1, <1>2

LEMMA UpdateKeepsVisible ==
    ASSUME VisibleInv, StartUpdate \/ Put \/ Conflict \/ PutFails \/ Reread \/ RereadFails
    PROVE  VisibleInv'
<1> USE DEF VisibleInv, AllVisible
<1>1. CASE StartUpdate
  <2>1. /\ computed' \in RootLists /\ Visible(computed')
        /\ obj' \in Objects /\ Visible(obj'.conds)
    BY <1>1, MutateResult
  <2>2. retries' \in Int /\ phase' \in {"put", "done"} /\ attempt' = 0
    BY <1>1, StandaloneStatusAssumption DEF StartUpdate, Finish
  <2> QED
    BY <1>1, <2>1, <2>2 DEF StartUpdate, StatusTypeOK, server
<1>2. CASE Reread
  <2>1. /\ computed' \in RootLists /\ Visible(computed')
        /\ obj' \in Objects /\ Visible(obj'.conds)
    BY <1>2, MutateResult
  <2> QED
    BY <1>2, <2>1 DEF Reread, StatusTypeOK, server, updating
<1>3. CASE Put
  <2>1. stored' \in Objects /\ stored'.conds = obj.conds
    BY <1>3, NewVersion, ObjectFields DEF Put, StatusTypeOK
  <2> QED
    BY <1>3, <2>1 DEF Put, Finish, StatusTypeOK, checking
<1>4. CASE Conflict
  BY <1>4 DEF Conflict, Finish, StatusTypeOK, checking, server
<1>5. CASE PutFails \/ RereadFails
  BY <1>5 DEF PutFails, RereadFails, Finish, StatusTypeOK, checking, server
<1> QED
  BY <1>1, <1>2, <1>3, <1>4, <1>5

LEMMA StutterKeepsVisible ==
    ASSUME VisibleInv, UNCHANGED vars
    PROVE  VisibleInv'
BY DEF VisibleInv, AllVisible, StatusTypeOK, vars

LEMMA VisibleInitially == Init => VisibleInv
<1> SUFFICES ASSUME Init PROVE VisibleInv
  OBVIOUS
<1>1. stored \in Objects /\ stored.conds \in Inherited
  <2>1. stored \in [rv : {1}, gen : {1}, conds : Inherited]
    BY Zenon DEF Init
  <2> QED
    BY <2>1, InheritedAssumption DEF Objects
<1>2. clock \in 0..MaxClock
  <2>1. MaxClock \in Nat \ {0}
    BY StandaloneStatusAssumption, Zenon
  <2>2. clock = 1
    BY Zenon DEF Init
  <2> QED
    BY <2>1, <2>2
<1>3. Visible(stored.conds)
  BY <1>1, InheritedAssumption
<1>4. /\ cached = stored /\ obj = stored /\ computed = ResetRoot
      /\ phase = "idle" /\ pcs = {} /\ pending = {} /\ stopped = FALSE
      /\ attempt = 0 /\ retries = 0 /\ contention = 0
  BY Zenon DEF Init
<1>5. AllVisible
  BY <1>3, <1>4, ResetResult, Zenon DEF AllVisible
<1>6. pcs \in Checks \union {{}}
  BY <1>4, Zenon
<1>7. /\ cached \in Objects /\ obj \in Objects /\ computed \in RootLists
      /\ phase \in {"idle", "mark", "write", "put", "reread", "done"}
      /\ pending \subseteq RootTypes \ {ForeignType} /\ stopped \in BOOLEAN
  BY <1>1, <1>4, ResetResult, Zenon
<1>8. attempt \in Nat /\ retries \in Int /\ contention \in Int
  BY <1>4
<1>9. StatusTypeOK
  BY <1>1, <1>2, <1>6, <1>7, <1>8, Zenon DEF StatusTypeOK
<1> QED
  BY <1>5, <1>9 DEF VisibleInv

LEMMA NextKeepsVisible == VisibleInv /\ [Next]_vars => VisibleInv'
BY ServerKeepsVisible, StartKeepsVisible, ManagerCalls, ManageKeepsVisible, RunAllKeepsVisible,
   WriteConditionKeepsVisible, UpdateKeepsVisible, StutterKeepsVisible DEF Next

\* For any dependents, preconditions and interleavings: neither what is
\* stored nor what the reconciler holds is ever happy while a dependent is
\* known to be unhealthy (conditions.go:178).
THEOREM UnhappyIsAlwaysVisible == Spec => []UnhappyIsVisible
<1>1. VisibleInv => UnhappyIsVisible
  BY DEF VisibleInv, AllVisible, UnhappyIsVisible
<1> QED
  BY <1>1, VisibleInitially, NextKeepsVisible, PTL DEF Spec

-----------------------------------------------------------------------------
(***************************************************************************)
(* The preconditions: while the results are being written, what has been   *)
(* written so far says what the checks with those types found.             *)
(***************************************************************************)

Fails(p) == Verdict(p, cluster) # "True"
Recorded(p) == obj.conds[p.type].status \in {"False", "Unknown"} /\ ~obj.conds[p.type].info

WrittenSoFar ==
    phase = "write" =>
        /\ stopped <=> \E p \in pcs : p.type \notin pending /\ p.stop /\ Fails(p)
        /\ \A p \in pcs :
            p.type \notin pending /\ Fails(p) /\ ~p.info /\ p.type \in Range(RootDependents)
                => Recorded(p)

WrittenInv == VisibleInv /\ WrittenSoFar

LEMMA WriteConditionRecords ==
    ASSUME WrittenInv, WriteCondition
    PROVE  WrittenSoFar'
<1> USE DEF WrittenInv
<1>1. PICK t \in pending :
             LET agg == AggregateOf(pcs, t, cluster)
                 c == Written(agg, obj.gen)
             IN  /\ \A u \in RootTypes \ {t, Happy} : obj'.conds[u] = obj.conds[u]
                 /\ t # Happy => obj'.conds[t].status = c.status /\ obj'.conds[t].info = c.info
                 /\ pending' = pending \ {t}
                 /\ stopped' = (stopped \/ agg.stop)
  BY WriteConditionResult, Zenon
<1> DEFINE agg == AggregateOf(pcs, t, cluster)
           c == Written(agg, obj.gen)
<1>2. /\ (\E p \in pcs : p.type = t /\ Fails(p) /\ ~p.info)
           => c.status \in {"False", "Unknown"} /\ ~c.info
      /\ agg.stop <=> \E p \in pcs : p.type = t /\ Fails(p) /\ p.stop
  <2>1. obj.gen \in Nat
    BY ObjectFields DEF VisibleInv, StatusTypeOK
  <2> QED
    BY <2>1, WrittenResult, Zenon DEF Fails
<1>3. /\ \A u \in RootTypes \ {t, Happy} : obj'.conds[u] = obj.conds[u]
      /\ t # Happy => obj'.conds[t].status = c.status /\ obj'.conds[t].info = c.info
      /\ pending' = pending \ {t}
      /\ stopped' = (stopped \/ agg.stop)
  BY <1>1, Zenon
<1> HIDE DEF agg, c
<1>4. phase = "write" /\ pcs' = pcs /\ cluster' = cluster
  BY DEF WriteCondition
<1>5. \A p \in pcs : (Fails(p))' <=> Fails(p)
  BY <1>4 DEF Fails
<1>6. \A p : p.type \notin pending' <=> p.type \notin pending \/ p.type = t
  BY <1>3, Zenon
<1>7. stopped' <=> \E p \in pcs' : p.type \notin pending' /\ p.stop /\ (Fails(p))'
  <2>1. stopped <=> \E p \in pcs : p.type \notin pending /\ p.stop /\ Fails(p)
    BY <1>4, Zenon DEF WrittenSoFar
  <2> QED
    BY <1>2, <1>3, <1>4, <1>5, <1>6, <2>1, Zenon
<1>8. ASSUME NEW p \in pcs', p.type \notin pending', (Fails(p))', ~p.info,
             p.type \in Range(RootDependents)
      PROVE  Recorded(p)'
  <2>1. p.type \in RootTypes \ {Happy} /\ Fails(p) /\ p \in pcs
    BY <1>4, <1>5, <1>8, DependentsAreTypes
  <2>2. CASE p.type = t
    <3>1. c.status \in {"False", "Unknown"} /\ ~c.info
      BY <1>2, <1>8, <2>1, <2>2, Zenon
    <3>2. obj'.conds[p.type].status = c.status /\ obj'.conds[p.type].info = c.info
      BY <1>3, <2>1, <2>2, Zenon
    <3> QED
      BY <3>1, <3>2, Zenon DEF Recorded
  <2>3. CASE p.type # t
    <3>1. obj'.conds[p.type] = obj.conds[p.type]
      BY <1>3, <2>1, <2>3, Zenon
    <3>2. Recorded(p)
      BY <1>4, <1>6, <1>8, <2>1, <2>3, Zenon DEF WrittenSoFar
    <3> QED
      BY <3>1, <3>2, Zenon DEF Recorded
  <2> QED
    BY <2>2, <2>3
<1> QED
  BY <1>7, <1>8, Zenon DEF WrittenSoFar

LEMMA NextKeepsWritten == WrittenInv /\ [Next]_vars => WrittenInv'
<1> SUFFICES ASSUME WrittenInv, [Next]_vars PROVE WrittenSoFar'
  BY NextKeepsVisible DEF WrittenInv
<1>1. CASE WriteCondition
  BY <1>1, WriteConditionRecords
<1>2. CASE RunAll
  <2>1. stopped' = FALSE /\ pending' = {p.type : p \in pcs'}
    BY <1>2 DEF RunAll
  <2> QED
    BY <2>1, Zenon DEF WrittenSoFar
<1>3. CASE Start \/ Mark \/ MarkFrom \/ Clear \/ Reset
  <2>1. phase' = "mark"
    BY <1>3 DEF Start, Mark, MarkFrom, Clear, Reset, Manage
  <2> QED
    BY <2>1 DEF WrittenSoFar
<1>4. CASE StartUpdate \/ Put \/ Conflict \/ PutFails \/ Reread \/ RereadFails
  <2>1. phase' # "write"
    BY <1>4 DEF StartUpdate, Put, Conflict, PutFails, Reread, RereadFails, Finish
  <2> QED
    BY <2>1 DEF WrittenSoFar
<1>5. CASE UpdateSpec \/ ForeignWrite \/ Sync \/ UNCHANGED vars
  <2>1. UNCHANGED <<obj, phase, checking>>
    BY <1>5 DEF UpdateSpec, ForeignWrite, Sync, vars, checking
  <2> QED
    BY <2>1, Zenon DEF WrittenInv, WrittenSoFar, Fails, Recorded, checking
<1> QED
  BY <1>1, <1>2, <1>3, <1>4, <1>5 DEF Next

\* For any preconditions and any order of the map of results: RunAll asks to
\* stop exactly when a check with StopReconciliation did not pass, and a
\* failed check of Error severity on a dependent keeps the object from being
\* happy (precondition.go:260).
THEOREM StopIsAlwaysReported == Spec => []StopIsReported
<1>1. Init => WrittenInv
  BY VisibleInitially DEF WrittenInv, WrittenSoFar, Init
<1>2. WrittenInv => StopIsReported
  <2> SUFFICES ASSUME WrittenInv, phase = "write", pending = {} PROVE StopIsReported
    BY DEF StopIsReported
  <2>1. stopped <=> \E p \in pcs : p.stop /\ Verdict(p, cluster) # "True"
    BY Zenon DEF WrittenInv, WrittenSoFar, Fails
  <2>2. ASSUME NEW p \in pcs, Verdict(p, cluster) # "True", ~p.info, p.type \in Range(RootDependents)
        PROVE  obj.conds[Happy].status # "True"
    <3>1. Recorded(p)
      BY <2>2, Zenon DEF WrittenInv, WrittenSoFar, Fails
    <3>2. PICK i \in DOMAIN RootDependents : p.type = RootDependents[i]
      BY <2>2 DEF Range
    <3>3. i \in UnhappyDependents(obj.conds)
      BY <3>1, <3>2, Zenon DEF UnhappyDependents, Recorded
    <3> QED
      BY <3>3 DEF WrittenInv, VisibleInv, AllVisible, Visible
  <2> QED
    BY <2>1, <2>2, Zenon DEF StopIsReported
<1> QED
  BY <1>1, <1>2, NextKeepsWritten, PTL DEF Spec

-----------------------------------------------------------------------------
(***************************************************************************)
(* The other actor's condition.  A copy that is as new as the stored       *)
(* object has the other actor's condition as it is stored, unless a Reset  *)
(* took it; a copy that is older is refused.                               *)
(***************************************************************************)

Agrees(o) ==
    /\ o.rv <= stored.rv
    /\ o.rv = stored.rv =>
        \/ o.conds[ForeignType] = stored.conds[ForeignType]
        \/ wasReset /\ o.conds[ForeignType] = Missing

CopiesLag == Agrees(cached) /\ Agrees(obj)

ForeignInv == VisibleInv /\ CopiesLag /\ ForeignSurvives

LEMMA ForeignIsOther == ForeignType \in RootTypes \ Own
BY StandaloneStatusAssumption, Zenon DEF Own

LEMMA ForeignConditions ==
    ASSUME VisibleInv, ForeignWrite
    PROVE  \E conds \in RootLists : stored' = [stored EXCEPT !.rv = @ + 1, !.conds = conds]
<1>1. PICK s \in {"True", "False"} :
        stored' = [stored EXCEPT !.rv = @ + 1,
                     !.conds = Upsert(stored.conds, ForeignType, Marked(s, "", FALSE, 0), clock)]
  BY Zenon DEF ForeignWrite
<1> DEFINE c == Marked(s, "", FALSE, 0)
<1>2. c \in RootSlot
  BY MarkedIsSlot DEF RootStatuses, AllReasons
<1> HIDE DEF c
<1>3. Upsert(stored.conds, ForeignType, c, clock) \in RootLists
  BY <1>2, ForeignIsOther, UpsertResult, ObjectFields DEF VisibleInv, StatusTypeOK
<1> QED
  BY <1>1, <1>3 DEF c

LEMMA ServerKeepsForeign ==
    ASSUME ForeignInv, UpdateSpec \/ ForeignWrite \/ Put
    PROVE  (CopiesLag /\ ForeignSurvives)'
<1> USE DEF ForeignInv, VisibleInv, StatusTypeOK
<1>0. /\ stored \in Objects /\ obj \in Objects /\ cached \in Objects
      /\ stored.rv \in Nat /\ obj.rv \in Nat /\ cached.rv \in Nat
  BY ObjectFields
<1>1. CASE UpdateSpec
  <2>1. stored'.conds = stored.conds /\ stored'.rv = stored.rv + 1
    BY <1>1, NewGeneration DEF UpdateSpec
  <2>2. cached' = cached /\ obj' = obj /\ wasReset' = wasReset /\ lastForeign' = lastForeign
    BY <1>1 DEF UpdateSpec
  <2> QED
    BY <1>0, <2>1, <2>2 DEF CopiesLag, Agrees, ForeignSurvives
<1>2. CASE ForeignWrite
  <2>1. PICK s \in {"True", "False"} :
          LET conds == Upsert(stored.conds, ForeignType, Marked(s, "", FALSE, 0), clock)
          IN  /\ stored' = [stored EXCEPT !.rv = @ + 1, !.conds = conds]
              /\ lastForeign' = conds[ForeignType]
    BY <1>2, Zenon DEF ForeignWrite
  <2> DEFINE c == Marked(s, "", FALSE, 0)
             conds == Upsert(stored.conds, ForeignType, c, clock)
  <2>2. c \in RootSlot
    BY MarkedIsSlot DEF RootStatuses, AllReasons
  <2>3. conds \in RootLists
    BY <1>0, <2>2, ForeignIsOther, UpsertResult, ObjectFields
  <2>4. stored' = [stored EXCEPT !.rv = @ + 1, !.conds = conds] /\ lastForeign' = conds[ForeignType]
    BY <2>1
  <2> HIDE DEF conds
  <2>5. stored'.conds = conds /\ stored'.rv = stored.rv + 1
    BY <1>0, <2>3, <2>4, NewVersion
  <2>6. cached' = cached /\ obj' = obj
    BY <1>2, Zenon DEF ForeignWrite
  <2> QED
    BY <1>0, <2>4, <2>5, <2>6 DEF CopiesLag, Agrees, ForeignSurvives
<1>3. CASE Put
  <2>1. stored'.conds = obj.conds /\ stored'.rv = stored.rv + 1
    BY <1>0, <1>3, NewVersion, ObjectFields DEF Put
  <2>2. /\ cached' = cached /\ obj' = stored' /\ wasReset' = wasReset
        /\ lastForeign' = lastForeign /\ obj.rv = stored.rv
    BY <1>3 DEF Put
  <2>3. ForeignSurvives'
    BY <2>1, <2>2 DEF CopiesLag, Agrees, ForeignSurvives
  <2> QED
    BY <1>0, <2>1, <2>2, <2>3 DEF CopiesLag, Agrees
<1> QED
  BY <1>1, <1>2, <1>3

\* The other steps leave what is stored alone: the copies follow it.
LEMMA CopiesKeepForeign ==
    ASSUME ForeignInv, [Next]_vars, ~UpdateSpec, ~ForeignWrite, ~Put
    PROVE  (CopiesLag /\ ForeignSurvives)'
<1> USE DEF ForeignInv
<1>0. obj \in Objects /\ cached \in Objects /\ stored \in Objects
  BY DEF VisibleInv, StatusTypeOK
<1>1. UNCHANGED <<stored, lastForeign>> /\ wasReset' \in {wasReset, TRUE}
  BY DEF Next, Sync, Start, Mark, MarkFrom, Clear, Reset, Manage, RunAll, WriteCondition,
         StartUpdate, Conflict, PutFails, Reread, RereadFails, server, vars
<1>2. ForeignSurvives'
  BY <1>1 DEF ForeignSurvives
<1>3. CASE Sync
  BY <1>0, <1>1, <1>2, <1>3, ObjectFields DEF Sync, CopiesLag, Agrees
<1>4. ASSUME cached' = cached,
             NEW o \in {obj, cached, stored}, obj'.rv = o.rv,
             \/ obj'.conds[ForeignType] = o.conds[ForeignType]
             \/ obj'.conds[ForeignType] = Missing /\ wasReset'
      PROVE  CopiesLag'
  <2>1. wasReset => wasReset'
    BY <1>1
  <2>2. o.rv <= stored.rv
    BY <1>0, <1>4, ObjectFields DEF CopiesLag, Agrees
  <2>3. o.rv = stored.rv =>
          \/ o.conds[ForeignType] = stored.conds[ForeignType]
          \/ wasReset /\ o.conds[ForeignType] = Missing
    BY <1>4 DEF CopiesLag, Agrees
  <2>4. Agrees(obj)'
    BY <1>1, <1>4, <2>1, <2>2, <2>3, Zenon DEF Agrees
  <2>5. Agrees(cached)'
    BY <1>1, <1>4, <2>1, Zenon DEF CopiesLag, Agrees
  <2> QED
    BY <2>4, <2>5 DEF CopiesLag
<1>5. CASE Start
  <2> DEFINE cs == NewRootManager(cached.conds, clock')
  <2>1. cs \in RootLists /\ cs[ForeignType] = cached.conds[ForeignType]
    BY <1>0, <1>5, NewRootResult, ObjectFields, TickIsBounded DEF Start, VisibleInv, AllVisible
  <2>2. obj' = [cached EXCEPT !.conds = cs] /\ cached' = cached
    BY <1>5 DEF Start
  <2> HIDE DEF cs
  <2>3. obj'.conds = cs /\ obj'.rv = cached.rv
    BY <1>0, <2>1, <2>2, NewConditions
  <2> QED
    BY <1>2, <1>4, <2>1, <2>2, <2>3
<1>6. CASE Mark \/ MarkFrom \/ Clear \/ Reset
  <2>1. PICK cs \in RootLists :
          /\ Manage(cs)
          /\ \/ cs[ForeignType] = obj.conds[ForeignType]
             \/ cs[ForeignType] = Missing /\ wasReset'
    BY <1>6, ManagerCalls
  <2>2. obj'.conds = cs /\ obj'.rv = obj.rv /\ cached' = cached
    BY <1>0, <2>1, NewConditions DEF Manage
  <2> QED
    BY <1>2, <1>4, <2>1, <2>2
<1>7. CASE WriteCondition
  <2>1. PICK t \in pending :
          obj'.rv = obj.rv /\ \A u \in RootTypes \ {t, Happy} : obj'.conds[u] = obj.conds[u]
    BY <1>7, WriteConditionResult, Zenon
  <2>2. ForeignType \in RootTypes \ {t, Happy}
    BY ForeignIsOther DEF VisibleInv, StatusTypeOK, Own
  <2>3. cached' = cached
    BY <1>7 DEF WriteCondition, server
  <2> QED
    BY <1>2, <1>4, <2>1, <2>2, <2>3
<1>8. CASE StartUpdate \/ Reread
  <2>1. PICK o \in {obj, cached, stored} :
          obj'.rv = o.rv /\ obj'.conds[ForeignType] = o.conds[ForeignType]
    BY <1>8, MutateResult, Zenon
  <2>2. cached' = cached
    BY <1>8 DEF StartUpdate, Reread, server
  <2> QED
    BY <1>2, <1>4, <2>1, <2>2
<1>9. CASE RunAll \/ Conflict \/ PutFails \/ RereadFails \/ UNCHANGED vars
  <2>1. cached' = cached /\ obj' = obj
    BY <1>9 DEF RunAll, Conflict, PutFails, RereadFails, server, vars
  <2> QED
    BY <1>2, <1>4, <2>1
<1> QED
  BY <1>3, <1>5, <1>6, <1>7, <1>8, <1>9, <1>2 DEF Next

LEMMA ForeignInitially == Init => ForeignInv
<1> SUFFICES ASSUME Init PROVE CopiesLag /\ ForeignSurvives
  BY VisibleInitially DEF ForeignInv
<1>1. cached = stored /\ obj = stored /\ lastForeign = stored.conds[ForeignType]
  BY Zenon DEF Init
<1>2. stored.rv \in Nat
  BY VisibleInitially, ObjectFields DEF VisibleInv, StatusTypeOK
<1> QED
  BY <1>1, <1>2 DEF CopiesLag, Agrees, ForeignSurvives

LEMMA NextKeepsForeign == ForeignInv /\ [Next]_vars => ForeignInv'
BY ServerKeepsForeign, CopiesKeepForeign, NextKeepsVisible DEF ForeignInv

\* For any interleaving of reconciliations, of the other actor and of the
\* informer: the other actor's condition is always the one it wrote last,
\* unless a Reset took it (update.go:71).
THEOREM ForeignAlwaysSurvives == Spec => []ForeignSurvives
<1>1. ForeignInv => ForeignSurvives
  BY DEF ForeignInv
<1> QED
  BY <1>1, ForeignInitially, NextKeepsForeign, PTL DEF Spec

-----------------------------------------------------------------------------
(***************************************************************************)
(* status.Update, given a mutateFn that sets the computed conditions.      *)
(***************************************************************************)

PutsComputed == phase = "put" => \A t \in Own : obj.conds[t] = computed[t]

StoredInv == VisibleInv /\ PutsComputed /\ SuccessIsStored

LEMMA NextKeepsStored ==
    ASSUME StoredInv, [Next]_vars, Mutation = "own"
    PROVE  StoredInv'
<1> USE DEF StoredInv
<1>0. VisibleInv'
  BY NextKeepsVisible
<1>1. stored \in Objects /\ obj \in Objects /\ obj.conds \in RootLists
  BY ObjectFields DEF VisibleInv, StatusTypeOK
<1>2. CASE UpdateSpec
  <2>1. stored'.conds = stored.conds
    BY <1>1, <1>2, NewGeneration DEF UpdateSpec
  <2>2. UNCHANGED <<obj, phase, computed, outcome>>
    BY <1>2 DEF UpdateSpec, checking, updating
  <2> QED
    BY <1>0, <2>1, <2>2 DEF PutsComputed, SuccessIsStored
<1>3. CASE ForeignWrite
  <2>1. PICK s \in {"True", "False"} :
          LET conds == Upsert(stored.conds, ForeignType, Marked(s, "", FALSE, 0), clock)
          IN  stored' = [stored EXCEPT !.rv = @ + 1, !.conds = conds]
    BY <1>3, Zenon DEF ForeignWrite
  <2> DEFINE c == Marked(s, "", FALSE, 0)
             conds == Upsert(stored.conds, ForeignType, c, clock)
  <2>2. c \in RootSlot
    BY MarkedIsSlot DEF RootStatuses, AllReasons
  <2> HIDE DEF c
  <2>3. conds \in RootLists /\ \A t \in RootTypes \ {ForeignType} : conds[t] = stored.conds[t]
    BY <1>1, <2>2, ForeignIsOther, UpsertResult, ObjectFields DEF VisibleInv, StatusTypeOK
  <2>4. stored' = [stored EXCEPT !.rv = @ + 1, !.conds = conds]
    BY <2>1 DEF c
  <2> HIDE DEF conds
  <2>5. stored'.conds = conds
    BY <1>1, <2>3, <2>4, NewVersion
  <2>6. UNCHANGED <<obj, phase, computed, outcome>>
    BY <1>3, Zenon DEF ForeignWrite, checking, updating
  <2>7. Own \subseteq RootTypes \ {ForeignType}
    BY ForeignIsOther, DependentsAreTypes DEF Own
  <2> QED
    BY <1>0, <2>3, <2>5, <2>6, <2>7 DEF PutsComputed, SuccessIsStored
<1>4. CASE Put
  <2>1. stored'.conds = obj.conds
    BY <1>1, <1>4, NewVersion DEF Put
  <2>2. phase = "put" /\ phase' = "done" /\ computed' = computed
    BY <1>4 DEF Put, Finish, checking
  <2> QED
    BY <1>0, <2>1, <2>2 DEF PutsComputed, SuccessIsStored
<1>5. CASE StartUpdate \/ Reread
  <2>1. phase' = "put" => \A t \in Own : obj'.conds[t] = computed'[t]
    BY <1>5, MutateResult
  <2>2. phase' = "done" => outcome' = "exhausted"
    BY <1>5 DEF StartUpdate, Reread, Finish
  <2> QED
    BY <1>0, <2>1, <2>2 DEF PutsComputed, SuccessIsStored
<1>6. CASE Conflict \/ PutFails \/ RereadFails
  <2>1. phase' # "put" /\ (phase' = "done" => outcome' # "ok")
    BY <1>6 DEF Conflict, PutFails, RereadFails, Finish
  <2> QED
    BY <1>0, <2>1 DEF PutsComputed, SuccessIsStored
<1>7. CASE Start \/ Mark \/ MarkFrom \/ Clear \/ Reset \/ RunAll \/ WriteCondition
  <2>1. phase' \in {"mark", "write"}
    BY <1>7 DEF Start, Mark, MarkFrom, Clear, Reset, Manage, RunAll, WriteCondition
  <2> QED
    BY <1>0, <2>1 DEF PutsComputed, SuccessIsStored
<1>8. CASE Sync \/ UNCHANGED vars
  <2>1. UNCHANGED <<stored, obj, phase, computed, outcome>>
    BY <1>8 DEF Sync, checking, updating, vars
  <2> QED
    BY <1>0, <2>1 DEF PutsComputed, SuccessIsStored
<1> QED
  BY <1>2, <1>3, <1>4, <1>5, <1>6, <1>7, <1>8 DEF Next

\* A mutateFn that sets what was computed: an Update that returned nil has
\* stored just that, however many conflicts and re-reads, stale ones too,
\* came before (update.go:42).
THEOREM SuccessIsAlwaysStored == (Mutation = "own") => (Spec => []SuccessIsStored)
<1> SUFFICES ASSUME Mutation = "own" PROVE Spec => []SuccessIsStored
  OBVIOUS
<1>1. Init => StoredInv
  BY VisibleInitially DEF StoredInv, PutsComputed, SuccessIsStored, Init
<1>2. StoredInv /\ [Next]_vars => StoredInv'
  BY NextKeepsStored
<1>3. StoredInv => SuccessIsStored
  BY DEF StoredInv
<1> QED
  BY <1>1, <1>2, <1>3, PTL DEF Spec

-----------------------------------------------------------------------------
(***************************************************************************)
(* The retry budget.  What the copies are behind has been written since    *)
(* the reconciler read its first one; and with a client that reads from    *)
(* the API server every attempt so far was overtaken by a write of its own.*)
(***************************************************************************)

Running == phase \in {"mark", "write", "put", "reread"}

LagIsContention ==
    Running => /\ contention >= stored.rv - cached.rv
               /\ contention >= stored.rv - obj.rv

AttemptsContended ==
    client = "direct" =>
        /\ phase = "put" => contention >= attempt + (stored.rv - obj.rv)
        /\ phase = "reread" => contention >= attempt

ExhaustedIsDone == phase # "done" => outcome # "exhausted"

ContendedInv ==
    /\ ForeignInv
    /\ LagIsContention /\ AttemptsContended /\ ExhaustedIsDone /\ ExhaustedMeansContention

LEMMA Versions ==
    ASSUME ContendedInv
    PROVE  /\ contention \in Int /\ attempt \in Nat /\ retries \in Int
           /\ stored \in Objects /\ cached \in Objects /\ obj \in Objects
           /\ stored.rv \in Nat /\ cached.rv \in Nat /\ obj.rv \in Nat
           /\ cached.rv <= stored.rv /\ obj.rv <= stored.rv
BY ObjectFields DEF ContendedInv, ForeignInv, CopiesLag, Agrees, VisibleInv, StatusTypeOK

LEMMA NextKeepsContended ==
    ASSUME ContendedInv, [Next]_vars, ForeignInv'
    PROVE  ContendedInv'
<1> SUFFICES (LagIsContention /\ AttemptsContended /\ ExhaustedIsDone /\ ExhaustedMeansContention)'
  BY DEF ContendedInv
<1> USE DEF LagIsContention, AttemptsContended, ExhaustedIsDone, ExhaustedMeansContention, Running
<1>0. LagIsContention /\ AttemptsContended /\ ExhaustedIsDone /\ ExhaustedMeansContention
  BY DEF ContendedInv
<1>1. /\ contention \in Int /\ attempt \in Nat /\ retries \in Int
      /\ stored.rv \in Nat /\ cached.rv \in Nat /\ obj.rv \in Nat
      /\ cached.rv <= stored.rv /\ obj.rv <= stored.rv
  BY Versions
<1>2. CASE UpdateSpec \/ ForeignWrite
  <2>1. stored'.rv = stored.rv + 1
    <3>1. CASE UpdateSpec
      BY <3>1, Versions, NewGeneration DEF UpdateSpec
    <3>2. CASE ForeignWrite
      <4>1. PICK conds \in RootLists : stored' = [stored EXCEPT !.rv = @ + 1, !.conds = conds]
        BY <3>2, ForeignConditions DEF ContendedInv, ForeignInv
      <4> QED
        BY <4>1, Versions, NewVersion
    <3> QED
      BY <1>2, <3>1, <3>2
  <2>2. /\ contention' = contention + 1
        /\ UNCHANGED <<cached, obj, phase, attempt, retries, client, outcome>>
    BY <1>2, Zenon DEF UpdateSpec, ForeignWrite, checking, updating
  <2> QED
    BY <1>0, <1>1, <2>1, <2>2
<1>3. CASE Start
  <2>1. /\ phase' = "mark" /\ outcome' = "none" /\ contention' = stored.rv - cached.rv
        /\ stored' = stored /\ cached' = cached
    BY <1>3 DEF Start
  <2>2. obj'.rv = cached.rv
    <3> DEFINE cs == NewRootManager(cached.conds, clock')
    <3>1. cs \in RootLists
      BY <1>3, NewRootResult, Versions, ObjectFields, TickIsBounded
      DEF Start, ContendedInv, ForeignInv, VisibleInv, AllVisible
    <3>2. obj' = [cached EXCEPT !.conds = cs]
      BY <1>3 DEF Start
    <3> HIDE DEF cs
    <3> QED
      BY <3>1, <3>2, Versions, NewConditions
  <2> QED
    BY <1>1, <2>1, <2>2
<1>4. CASE Mark \/ MarkFrom \/ Clear \/ Reset \/ RunAll \/ WriteCondition
  <2>1. /\ phase \in {"mark", "write"} /\ phase' \in {"mark", "write"} /\ outcome' = outcome
        /\ UNCHANGED <<stored, cached, contention>>
    BY <1>4 DEF Mark, MarkFrom, Clear, Reset, Manage, RunAll, WriteCondition, updating, server
  <2>2. obj'.rv = obj.rv
    <3>1. CASE Mark \/ MarkFrom \/ Clear \/ Reset
      <4>1. PICK cs \in RootLists : Manage(cs)
        BY <3>1, ManagerCalls DEF ContendedInv, ForeignInv
      <4> QED
        BY <4>1, Versions, NewConditions DEF Manage
    <3>2. CASE RunAll
      BY <3>2 DEF RunAll
    <3>3. CASE WriteCondition
      BY <3>3, WriteConditionResult, Zenon DEF ContendedInv, ForeignInv
    <3> QED
      BY <1>4, <3>1, <3>2, <3>3
  <2> QED
    BY <1>0, <1>1, <2>1, <2>2
<1>5. CASE StartUpdate
  <2>1. /\ attempt' = 0 /\ phase = "write" /\ UNCHANGED <<stored, cached, contention>>
        /\ \/ retries' < 0 /\ phase' = "done"
           \/ phase' = "put" /\ outcome' = outcome
    BY <1>5 DEF StartUpdate, Finish, server
  <2>2. retries' \in Int
    BY <1>5, StandaloneStatusAssumption DEF StartUpdate
  <2>3. obj'.rv = obj.rv
    BY <1>5, MutateResult DEF ContendedInv, ForeignInv
  <2>4. CASE retries' < 0 /\ phase' = "done"
    BY <2>2, <2>4
  <2>5. CASE phase' = "put" /\ outcome' = outcome
    <3>1. contention >= stored.rv - cached.rv /\ contention >= stored.rv - obj.rv
      BY <1>0, <2>1
    <3>2. outcome # "exhausted"
      BY <1>0, <2>1
    <3> QED
      BY <1>1, <2>1, <2>3, <2>5, <3>1, <3>2
  <2> QED
    BY <2>1, <2>4, <2>5
<1>6. CASE Conflict
  <2>1. /\ phase = "put" /\ obj.rv # stored.rv /\ attempt' = attempt + 1
        /\ \/ attempt' > retries /\ phase' = "done"
           \/ phase' = "reread" /\ outcome' = outcome
        /\ UNCHANGED <<stored, cached, obj, contention, retries, client>>
    BY <1>6 DEF Conflict, Finish, server
  <2>2. stored.rv - obj.rv >= 1
    BY <1>1, <2>1
  <2>3. contention >= 1 /\ (client = "direct" => contention >= attempt + 1)
    BY <1>0, <1>1, <2>1, <2>2
  <2> QED
    BY <1>0, <1>1, <2>1, <2>3
<1>7. CASE Put \/ PutFails \/ RereadFails
  <2>1. phase' = "done" /\ outcome' \in {"ok", "error"}
    BY <1>7 DEF Put, PutFails, RereadFails, Finish
  <2> QED
    BY <2>1
<1>8. CASE Reread
  <2>1. obj'.rv = IF client = "cached" THEN cached.rv ELSE stored.rv
    <3> DEFINE o == IF client = "cached" THEN cached ELSE stored
    <3>1. computed' \in RootLists /\ obj' = Mutated(o) /\ o \in Objects
      BY <1>8, Versions DEF Reread, ContendedInv, ForeignInv, VisibleInv, StatusTypeOK
    <3> HIDE DEF o
    <3>2. obj'.rv = o.rv
      BY <3>1, MutatedResult
    <3> QED
      BY <3>2 DEF o
  <2>2. /\ phase = "reread" /\ phase' = "put"
        /\ UNCHANGED <<stored, cached, attempt, retries, client, outcome, contention>>
    BY <1>8 DEF Reread, server, updating
  <2> QED
    BY <1>0, <1>1, <2>1, <2>2
<1>9. CASE Sync
  <2>1. cached' = stored /\ UNCHANGED <<stored, obj, phase, attempt, retries, client, outcome, contention>>
    BY <1>9 DEF Sync, checking, updating
  <2>2. Running => contention >= 0
    BY <1>0, <1>1
  <2> QED
    BY <1>0, <1>1, <2>1, <2>2
<1>10. CASE UNCHANGED vars
  <2>1. UNCHANGED <<stored, cached, obj, phase, attempt, retries, client, outcome, contention>>
    BY <1>10 DEF vars
  <2> QED
    BY <1>0, <2>1
<1> QED
  BY <1>2, <1>3, <1>4, <1>5, <1>6, <1>7, <1>8, <1>9, <1>10 DEF Next

\* Any clients, any limits on retries: an Update that gives up was overtaken
\* by one write more than it had retries, or, where its client reads a cache
\* that need not have followed, by at least one (update.go:15).
THEOREM ExhaustedAlwaysMeansContention == Spec => []ExhaustedMeansContention
<1>1. Init => ForeignInv
  BY ForeignInitially
<1>2. Init => ContendedInv
  BY <1>1 DEF ContendedInv, LagIsContention, AttemptsContended, ExhaustedIsDone, Running,
              ExhaustedMeansContention, Init
<1>3. ContendedInv /\ [Next]_vars => ContendedInv'
  BY NextKeepsForeign, NextKeepsContended DEF ContendedInv
<1>4. ContendedInv => ExhaustedMeansContention
  BY DEF ContendedInv
<1> QED
  BY <1>2, <1>3, <1>4, PTL DEF Spec
=============================================================================
