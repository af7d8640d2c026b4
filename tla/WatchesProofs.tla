--------------------------- MODULE WatchesProofs ----------------------------
(***************************************************************************)
(* Proofs about the registration of watches, for any number of workers and *)
(* instances, any kinds, and any number of failures, restarts and          *)
(* deletions.                                                              *)
(***************************************************************************)
EXTENDS Watches, FiniteSetTheorems, TLAPS

Places == {"idle", "deploy", "dynamic", "dynamicRegister", "dynamicStore", "own", "register"}
Names == Instances \union {NoOne}

\* A worker at a registration is inside the list it goes through.
WatchesTypeOK ==
    /\ queue \subseteq Names
    /\ at \in [Workers -> Places]
    /\ inst \in [Workers -> Names]
    /\ next \in [Workers -> Nat \ {0}]
    /\ \A w \in Workers :
        /\ at[w] \in {"dynamicRegister", "dynamicStore"} => next[w] <= Len(DynamicWatches)
        /\ at[w] = "register" => next[w] <= Len(Rendered)
    /\ watched \subseteq Targets
    /\ dynWatched \subseteq DynamicKinds
    /\ watches \in [Targets \union DynamicKinds -> [count : Nat, to : Names]]

\* The workers at a place of the dynamic watch action with kind k.
Doing(k, place) == {w \in Workers : at[w] = place /\ DynamicWatches[next[w]] = k}

\* Owners is the set of workers that have registered kind k as a dynamic
\* watch since the process started.  None is about to do so again: those that
\* have not stored it yet are at the store, and once one has stored it nobody
\* gets past the check any more.
RegisteredBy(k, owners) ==
    /\ watches[k].count = Cardinality(owners) + (IF k \in watched THEN 1 ELSE 0)
    /\ Doing(k, "dynamicStore") \subseteq owners
    /\ owners \intersect Doing(k, "dynamicRegister") = {}
    /\ k \in dynWatched => owners # {}
    /\ k \notin dynWatched => owners \subseteq Doing(k, "dynamicStore")
    /\ k \notin DynamicKinds => owners = {}

Accounted == \A k \in Targets \union DynamicKinds : \E owners \in SUBSET Workers : RegisteredBy(k, owners)

WatchesInv == WatchesTypeOK /\ Accounted

-----------------------------------------------------------------------------

LEMMA KindsAreKnown ==
    /\ CRD \in Targets /\ Late \in Targets /\ OwnedKinds \subseteq Targets
    /\ \A n \in Nat \ {0} : n <= Len(Rendered) => Rendered[n] \in Targets
    /\ \A n \in Nat \ {0} : n <= Len(DynamicWatches) => DynamicWatches[n] \in DynamicKinds
<1>1. Kinds \subseteq Targets
  BY DEF Kinds
<1>2. \A n \in Nat \ {0} : n <= Len(Rendered) => Rendered[n] \in Targets
  BY WatchesAssumption
<1>3. \A n \in Nat \ {0} : n <= Len(DynamicWatches) => DynamicWatches[n] \in DynamicKinds
  BY WatchesAssumption
<1>4. 1 \in DOMAIN Rendered
  <2>1. Late \in Targets
    BY <1>1, WatchesAssumption
  <2>2. PICK n \in DOMAIN Rendered : Late = Rendered[n]
    BY <2>1 DEF Targets
  <2>3. DOMAIN Rendered = 1..Len(Rendered) /\ Len(Rendered) \in Nat
    BY WatchesAssumption
  <2> QED
    BY <2>2, <2>3
<1> QED
  BY <1>1, <1>2, <1>3, <1>4, WatchesAssumption DEF Targets

\* A process that starts has what the builder owns, once each.
LEMMA StartIsAccounted ==
    ASSUME at' = [w \in Workers |-> "idle"], next' = [w \in Workers |-> 1],
           inst' = [w \in Workers |-> NoOne], queue' = Instances,
           watched' = OwnedKinds, dynWatched' = {}, watches' = StartWatches
    PROVE  WatchesInv'
<1>1. WatchesTypeOK'
  BY KindsAreKnown DEF WatchesTypeOK, Places, Names, StartWatches
<1>2. ASSUME NEW k \in Targets \union DynamicKinds PROVE RegisteredBy(k, {})'
  <2>1. watches'[k].count = IF k \in OwnedKinds THEN 1 ELSE 0
    BY DEF StartWatches
  <2>2. Doing(k, "dynamicStore")' = {}
    BY DEF Doing
  <2> QED
    BY <2>1, <2>2, FS_EmptySet DEF RegisteredBy
<1> QED
  BY <1>1, <1>2 DEF WatchesInv, Accounted

LEMMA InitIsAccounted == WatchesInit => WatchesInv
<1> SUFFICES ASSUME WatchesInit PROVE WatchesInv
  OBVIOUS
<1>1. WatchesTypeOK
  BY KindsAreKnown DEF WatchesInit, WatchesTypeOK, Places, Names, StartWatches
<1>2. ASSUME NEW k \in Targets \union DynamicKinds PROVE RegisteredBy(k, {})
  <2>1. watches[k].count = IF k \in OwnedKinds THEN 1 ELSE 0
    BY DEF StartWatches, WatchesInit
  <2>2. Doing(k, "dynamicStore") = {}
    BY DEF Doing, WatchesInit
  <2> QED
    BY <2>1, <2>2, FS_EmptySet DEF RegisteredBy, WatchesInit
<1> QED
  BY <1>1, <1>2 DEF WatchesInv, Accounted

\* Steps that leave the maps alone, and nobody past the check.
LEMMA QuietKeepsAccounted ==
    ASSUME Accounted, UNCHANGED maps,
           \A k \in Targets \union DynamicKinds :
               /\ Doing(k, "dynamicStore")' = Doing(k, "dynamicStore")
               /\ Doing(k, "dynamicRegister")' \subseteq Doing(k, "dynamicRegister")
    PROVE  Accounted'
BY DEF Accounted, RegisteredBy, maps

\* A worker that goes from and to places outside of the dynamic registration
\* is such a step, whether or not it leaves its registration undone.
LEMMA MoveIsQuiet ==
    ASSUME WatchesInv, NEW w \in Workers, NEW place \in Places, NEW n \in Nat \ {0},
           at[w] # "dynamicStore", place \notin {"dynamicRegister", "dynamicStore"},
           Go(w, place, n), UNCHANGED maps
    PROVE  Accounted'
<1>1. ASSUME NEW k
      PROVE  /\ Doing(k, "dynamicStore")' = Doing(k, "dynamicStore")
             /\ Doing(k, "dynamicRegister")' \subseteq Doing(k, "dynamicRegister")
  BY DEF Doing, Go, WatchesInv, WatchesTypeOK
<1> QED
  BY <1>1, QuietKeepsAccounted DEF WatchesInv

LEMMA RegisteredCounts ==
    ASSUME WatchesTypeOK, NEW k \in Targets \union DynamicKinds, NEW i \in Names,
           watches' = Registered(k, i)
    PROVE  /\ watches' \in [Targets \union DynamicKinds -> [count : Nat, to : Names]]
           /\ watches'[k].count = watches[k].count + 1
           /\ \A j \in Targets \union DynamicKinds : j # k => watches'[j] = watches[j]
<1> DEFINE new == [count |-> watches[k].count + 1,
                   to |-> IF watches[k].count = 0 THEN i ELSE watches[k].to]
<1>1. watches' = [watches EXCEPT ![k] = new]
  BY DEF Registered
<1>2. new \in [count : Nat, to : Names]
  BY DEF WatchesTypeOK
<1> HIDE DEF new
<1>3. watches'[k] = new
  BY <1>1 DEF WatchesTypeOK
<1>4. new.count = watches[k].count + 1
  BY DEF new
<1> QED
  BY <1>1, <1>2, <1>3, <1>4 DEF WatchesTypeOK

-----------------------------------------------------------------------------
(***************************************************************************)
(* The cluster, and the steps of a worker that register nothing.           *)
(***************************************************************************)

LEMMA NotifiedAreNames ==
    ASSUME WatchesTypeOK, NEW k \in Targets, NEW i \in Names
    PROVE  Notified(k, i) \subseteq Names
BY DEF Notified, WatchesTypeOK

LEMMA ClusterKeepsInv ==
    ASSUME WatchesInv,
           \/ Establish \/ DeleteDefinition
           \/ \E k \in Kinds, i \in Instances : DeleteChild(k, i)
    PROVE  WatchesInv'
<1>1. UNCHANGED <<worker, maps>>
  BY Zenon DEF Establish, DeleteDefinition, DeleteChild
<1>2. queue' \subseteq Names
  <2>1. \A k \in Targets, i \in Names : Notified(k, i) \subseteq Names
    BY NotifiedAreNames DEF WatchesInv
  <2>2. CASE Establish
    BY <2>1, <2>2, KindsAreKnown DEF Establish, WatchesInv, WatchesTypeOK, Names
  <2>3. CASE DeleteDefinition
    <3> DEFINE there == {j \in Instances : child[Late, j] = "there"}
               lost == {Notified(Late, i) : i \in there}
    <3>0. there \subseteq Instances
      BY Zenon
    <3>2. Notified(CRD, NoOne) \subseteq Names
      BY <2>1, KindsAreKnown DEF Names
    <3>3. queue' = queue \union Notified(CRD, NoOne) \union UNION lost
      BY <2>3, Zenon DEF DeleteDefinition
    <3> HIDE DEF there
    <3>1. UNION lost \subseteq Names
      BY <2>1, <3>0, KindsAreKnown DEF Names
    <3> HIDE DEF lost
    <3> QED
      BY <3>1, <3>2, <3>3 DEF WatchesInv, WatchesTypeOK
  <2>4. CASE \E k \in Kinds, i \in Instances : DeleteChild(k, i)
    <3>1. PICK k \in Kinds, i \in Instances : DeleteChild(k, i)
      BY <2>4
    <3>2. queue' = queue \union Notified(k, i)
      BY <3>1, Zenon DEF DeleteChild
    <3>3. k \in Targets /\ i \in Names
      BY DEF Kinds, Names
    <3> QED
      BY <2>1, <3>2, <3>3 DEF WatchesInv, WatchesTypeOK
  <2> QED
    BY <2>2, <2>3, <2>4
<1>3. WatchesTypeOK'
  BY <1>1, <1>2 DEF WatchesInv, WatchesTypeOK, worker, maps
<1>4. Accounted'
  BY <1>1, QuietKeepsAccounted DEF WatchesInv, Doing, worker
<1> QED
  BY <1>3, <1>4 DEF WatchesInv

LEMMA RestartKeepsInv == Restarted => WatchesInv'
BY StartIsAccounted DEF Restarted

LEMMA FailKeepsInv ==
    ASSUME WatchesInv, NEW w \in Workers, at[w] # "dynamicStore", Fail(w), UNCHANGED maps
    PROVE  WatchesInv'
<1>1. WatchesTypeOK'
  BY DEF Fail, Go, WatchesInv, WatchesTypeOK, Places, Names, maps
<1>2. Accounted'
  BY MoveIsQuiet DEF Fail, Places
<1> QED
  BY <1>1, <1>2 DEF WatchesInv

\* Dequeue, Deploy, Own, OwnCheck and EndReconcile.
LEMMA QuietStepKeepsInv ==
    ASSUME WatchesInv, NEW w \in Workers,
           Dequeue(w) \/ Deploy(w) \/ Own(w) \/ OwnCheck(w) \/ EndReconcile(w)
    PROVE  WatchesInv'
<1>1. PICK place \in Places, n \in Nat \ {0} :
        /\ Go(w, place, n)
        /\ place \notin {"dynamicRegister", "dynamicStore"}
        /\ place = "register" => n <= Len(Rendered)
  <2>1. next[w] \in Nat \ {0} /\ next[w] + 1 \in Nat \ {0}
    BY DEF WatchesInv, WatchesTypeOK
  <2>2. CASE Dequeue(w)
    BY <2>2 DEF Dequeue, Places
  <2>3. CASE Deploy(w)
    BY <2>3 DEF Deploy, Places
  <2>4. CASE Own(w)
    BY <2>4 DEF Own, Places
  <2>5. CASE OwnCheck(w)
    BY <2>1, <2>5 DEF OwnCheck, Places
  <2>6. CASE EndReconcile(w)
    BY <2>6 DEF EndReconcile, Places
  <2> QED
    BY <2>2, <2>3, <2>4, <2>5, <2>6
<1>2. UNCHANGED maps /\ at[w] # "dynamicStore"
  BY DEF Dequeue, Deploy, Own, OwnCheck, EndReconcile
<1>3. queue' \subseteq Names /\ inst' \in [Workers -> Names]
  BY DEF Dequeue, Deploy, Own, OwnCheck, EndReconcile, WatchesInv, WatchesTypeOK, Names
<1>4. WatchesTypeOK'
  BY <1>1, <1>2, <1>3 DEF Go, WatchesInv, WatchesTypeOK, maps
<1>5. Accounted'
  BY <1>1, <1>2, MoveIsQuiet
<1> QED
  BY <1>4, <1>5 DEF WatchesInv

-----------------------------------------------------------------------------
(***************************************************************************)
(* The steps that register.                                                *)
(***************************************************************************)

\* A worker that passes the check has not registered the kind: nobody has
\* stored it, so whoever has registered it is at the store.
LEMMA DynamicCheckKeepsInv ==
    ASSUME WatchesInv, NEW w \in Workers, DynamicCheck(w)
    PROVE  WatchesInv'
<1> DEFINE k0 == DynamicWatches[next[w]]
<1>1. UNCHANGED <<queue, inst, maps>> /\ at[w] = "dynamic" /\ next[w] <= Len(DynamicWatches)
  BY DEF DynamicCheck
<1>2. next[w] \in Nat \ {0} /\ next[w] + 1 \in Nat \ {0}
  BY DEF WatchesInv, WatchesTypeOK
<1>3. CASE Go(w, "dynamic", next[w] + 1)
  <2>1. Accounted'
    BY <1>1, <1>2, <1>3, MoveIsQuiet DEF Places
  <2>2. WatchesTypeOK'
    BY <1>1, <1>2, <1>3 DEF Go, WatchesInv, WatchesTypeOK, Places, maps
  <2> QED
    BY <2>1, <2>2 DEF WatchesInv
<1>4. CASE Go(w, "dynamicRegister", next[w]) /\ k0 \notin dynWatched
  <2>1. WatchesTypeOK'
    BY <1>1, <1>2, <1>4 DEF Go, WatchesInv, WatchesTypeOK, Places, maps
  <2>2. ASSUME NEW k
        PROVE  /\ Doing(k, "dynamicStore")' = Doing(k, "dynamicStore")
               /\ Doing(k, "dynamicRegister")' \subseteq
                    Doing(k, "dynamicRegister") \union (IF k = k0 THEN {w} ELSE {})
               /\ w \notin Doing(k, "dynamicStore")
    BY <1>1, <1>4 DEF Doing, Go, WatchesInv, WatchesTypeOK
  <2>3. ASSUME NEW k \in Targets \union DynamicKinds, NEW owners \in SUBSET Workers,
               RegisteredBy(k, owners)
        PROVE  RegisteredBy(k, owners)'
    BY <1>1, <1>4, <2>2, <2>3 DEF RegisteredBy, maps
  <2> QED
    BY <2>1, <2>3 DEF WatchesInv, Accounted
<1> QED
  BY <1>3, <1>4 DEF DynamicCheck

LEMMA DynamicRegisterKeepsInv ==
    ASSUME WatchesInv, NEW w \in Workers, DynamicRegister(w)
    PROVE  WatchesInv'
<1> DEFINE k0 == DynamicWatches[next[w]]
<1>1. /\ UNCHANGED <<queue, inst, watched, dynWatched>> /\ at[w] = "dynamicRegister"
      /\ watches' = Registered(k0, inst[w]) /\ Go(w, "dynamicStore", next[w])
  BY DEF DynamicRegister
<1>2. k0 \in DynamicKinds /\ inst[w] \in Names /\ next[w] \in Nat \ {0}
  BY <1>1, KindsAreKnown DEF WatchesInv, WatchesTypeOK
<1> HIDE DEF k0
<1>3. /\ watches' \in [Targets \union DynamicKinds -> [count : Nat, to : Names]]
      /\ watches'[k0].count = watches[k0].count + 1
      /\ \A k \in Targets \union DynamicKinds : k # k0 => watches'[k] = watches[k]
  <2>1. k0 \in Targets \union DynamicKinds
    BY <1>2
  <2> QED
    BY <1>1, <1>2, <2>1, RegisteredCounts DEF WatchesInv
<1>4. WatchesTypeOK'
  BY <1>1, <1>2, <1>3 DEF Go, WatchesInv, WatchesTypeOK, Places
<1>5. ASSUME NEW k
      PROVE  /\ Doing(k, "dynamicStore")' =
                    Doing(k, "dynamicStore") \union (IF k = k0 THEN {w} ELSE {})
             /\ Doing(k, "dynamicRegister")' \subseteq Doing(k, "dynamicRegister") \ {w}
  BY <1>1 DEF Doing, Go, WatchesInv, WatchesTypeOK, k0
<1>6. w \in Doing(k0, "dynamicRegister")
  BY <1>1 DEF Doing, k0
<1>7. ASSUME NEW k \in Targets \union DynamicKinds, NEW owners \in SUBSET Workers,
             RegisteredBy(k, owners)
      PROVE  \E now \in SUBSET Workers : RegisteredBy(k, now)'
  <2>1. CASE k # k0
    <3>1. RegisteredBy(k, owners)'
      BY <1>1, <1>3, <1>5, <1>7, <2>1 DEF RegisteredBy
    <3> QED
      BY <3>1
  <2>2. CASE k = k0
    <3>1. w \notin owners
      BY <1>6, <1>7, <2>2 DEF RegisteredBy
    <3>2. IsFiniteSet(owners)
      BY FS_Subset, WatchesAssumption
    <3>3. Cardinality(owners \union {w}) = Cardinality(owners) + 1 /\ Cardinality(owners) \in Nat
      BY <3>1, <3>2, FS_AddElement, FS_CardinalityType
    <3>4. RegisteredBy(k, owners \union {w})'
      BY <1>1, <1>2, <1>3, <1>5, <1>7, <2>2, <3>3 DEF RegisteredBy, WatchesInv, WatchesTypeOK
    <3> QED
      BY <3>4
  <2> QED
    BY <2>1, <2>2
<1> QED
  BY <1>4, <1>7 DEF WatchesInv, Accounted

LEMMA DynamicStoreKeepsInv ==
    ASSUME WatchesInv, NEW w \in Workers, DynamicStore(w)
    PROVE  WatchesInv'
<1> DEFINE k0 == DynamicWatches[next[w]]
<1>1. /\ UNCHANGED <<queue, inst, watched, watches>> /\ at[w] = "dynamicStore"
      /\ dynWatched' = dynWatched \union {k0} /\ Go(w, "dynamic", next[w] + 1)
  BY DEF DynamicStore
<1>2. k0 \in DynamicKinds /\ next[w] + 1 \in Nat \ {0}
  BY <1>1, KindsAreKnown DEF WatchesInv, WatchesTypeOK
<1> HIDE DEF k0
<1>3. WatchesTypeOK'
  BY <1>1, <1>2 DEF Go, WatchesInv, WatchesTypeOK, Places
<1>4. ASSUME NEW k
      PROVE  /\ Doing(k, "dynamicStore")' \subseteq Doing(k, "dynamicStore")
             /\ k # k0 => Doing(k, "dynamicStore")' = Doing(k, "dynamicStore")
             /\ Doing(k, "dynamicRegister")' \subseteq Doing(k, "dynamicRegister")
  BY <1>1 DEF Doing, Go, WatchesInv, WatchesTypeOK, k0
<1>5. w \in Doing(k0, "dynamicStore")
  BY <1>1 DEF Doing, k0
<1>6. ASSUME NEW k \in Targets \union DynamicKinds, NEW owners \in SUBSET Workers,
             RegisteredBy(k, owners)
      PROVE  RegisteredBy(k, owners)'
  BY <1>1, <1>4, <1>5, <1>6 DEF RegisteredBy
<1> QED
  BY <1>3, <1>6 DEF WatchesInv, Accounted

\* The check under the mutex.
LEMMA RegisterKeepsInv ==
    ASSUME WatchesInv, NEW w \in Workers, Register(w)
    PROVE  WatchesInv'
<1> DEFINE k0 == Rendered[next[w]]
<1>1. at[w] = "register" /\ Go(w, "own", next[w] + 1) /\ UNCHANGED <<inst, dynWatched>>
  BY DEF Register
<1>2. k0 \in Targets /\ inst[w] \in Names /\ next[w] + 1 \in Nat \ {0}
  BY <1>1, KindsAreKnown DEF WatchesInv, WatchesTypeOK
<1>3. CASE UNCHANGED <<queue, watched, watches>>
  <2>1. WatchesTypeOK'
    BY <1>1, <1>2, <1>3 DEF Go, WatchesInv, WatchesTypeOK, Places
  <2>2. Accounted'
    BY <1>1, <1>2, <1>3, MoveIsQuiet DEF maps, Places
  <2> QED
    BY <2>1, <2>2 DEF WatchesInv
<1>4. CASE /\ k0 \notin watched /\ watched' = watched \union {k0}
           /\ watches' = Registered(k0, inst[w]) /\ queue' = Delivered(k0, inst[w])
  <2> HIDE DEF k0
  <2>1. /\ watches' \in [Targets \union DynamicKinds -> [count : Nat, to : Names]]
        /\ watches'[k0].count = watches[k0].count + 1
        /\ \A k \in Targets \union DynamicKinds : k # k0 => watches'[k] = watches[k]
    <3>1. k0 \in Targets \union DynamicKinds
      BY <1>2
    <3> QED
      BY <1>2, <1>4, <3>1, RegisteredCounts DEF WatchesInv
  <2>2. queue' \subseteq Names
    BY <1>2, <1>4 DEF Delivered, WatchesInv, WatchesTypeOK
  <2>3. WatchesTypeOK'
    BY <1>1, <1>2, <1>4, <2>1, <2>2 DEF Go, WatchesInv, WatchesTypeOK, Places
  <2>4. ASSUME NEW k, NEW place \in {"dynamicRegister", "dynamicStore"}
        PROVE  Doing(k, place)' = Doing(k, place)
    BY <1>1 DEF Doing, Go, WatchesInv, WatchesTypeOK
  <2>5. ASSUME NEW k \in Targets \union DynamicKinds, NEW owners \in SUBSET Workers,
               RegisteredBy(k, owners)
        PROVE  RegisteredBy(k, owners)'
    <3>1. Cardinality(owners) \in Nat
      BY FS_Subset, FS_CardinalityType, WatchesAssumption
    <3> QED
      BY <1>1, <1>4, <2>1, <2>4, <2>5, <3>1 DEF RegisteredBy
  <2> QED
    BY <2>3, <2>5 DEF WatchesInv, Accounted
<1> QED
  BY <1>3, <1>4 DEF Register

-----------------------------------------------------------------------------

LEMMA AccountedRegistersOnce == WatchesInv => RegistersOnce
<1> SUFFICES ASSUME WatchesInv PROVE RegistersOnce
  OBVIOUS
<1>1. ASSUME NEW k \in Targets \union DynamicKinds
      PROVE  /\ watches[k].count <= (IF k \in Targets THEN 1 ELSE 0)
                                       + (IF k \in DynamicKinds THEN Cardinality(Workers) ELSE 0)
             /\ k \in watched \union dynWatched => watches[k].count > 0
  <2>1. PICK owners \in SUBSET Workers : RegisteredBy(k, owners)
    BY DEF WatchesInv, Accounted
  <2>2. /\ IsFiniteSet(owners) /\ Cardinality(owners) \in Nat
        /\ Cardinality(Workers) \in Nat /\ Cardinality(owners) <= Cardinality(Workers)
    BY FS_Subset, FS_CardinalityType, WatchesAssumption
  <2>3. owners = {} => Cardinality(owners) = 0
    BY FS_EmptySet
  <2>4. owners # {} => Cardinality(owners) > 0
    BY <2>2, FS_EmptySet
  <2>5. k \in watched => k \in Targets
    BY DEF WatchesInv, WatchesTypeOK
  <2> QED
    BY <2>1, <2>2, <2>3, <2>4, <2>5 DEF RegisteredBy
<1> QED
  BY <1>1 DEF RegistersOnce, WatchesInv, WatchesTypeOK

\* With any number of workers, and whatever fails or restarts: the ownership
\* action registers a kind once, the dynamic watch action at most once per
\* worker, and what their maps hold is registered
\* (action_dynamic_ownership.go:132, reconciler_actions.go:31).
THEOREM WatchesAreRegisteredOnce == WatchesSpec => []RegistersOnce
<1>1. WatchesInv /\ [WatchesNext]_watchVars => WatchesInv'
  <2> SUFFICES ASSUME WatchesInv, [WatchesNext]_watchVars
               PROVE  WatchesInv'
    OBVIOUS
  <2>1. CASE \/ Establish \/ DeleteDefinition
             \/ \E k \in Kinds, i \in Instances : DeleteChild(k, i)
    BY <2>1, ClusterKeepsInv
  <2>2. CASE Restarted
    BY <2>2, RestartKeepsInv
  <2>3. ASSUME NEW w \in Workers, WatchStep(w)
        PROVE  WatchesInv'
    BY <2>3, QuietStepKeepsInv, DynamicCheckKeepsInv, DynamicRegisterKeepsInv,
       DynamicStoreKeepsInv, RegisterKeepsInv DEF WatchStep
  <2>4. ASSUME NEW w \in Workers, MapRace(w)
        PROVE  WatchesInv'
    BY <2>4, RestartKeepsInv DEF MapRace
  <2>5. ASSUME NEW w \in Workers, DynamicRegisterFails(w) \/ RegisterFails(w)
        PROVE  WatchesInv'
    BY <2>5, FailKeepsInv DEF DynamicRegisterFails, RegisterFails
  <2>6. CASE UNCHANGED watchVars
    <3>1. UNCHANGED <<queue, at, inst, next, watched, dynWatched, watches>>
      BY <2>6 DEF watchVars, worker, maps
    <3>2. WatchesTypeOK'
      BY <3>1 DEF WatchesInv, WatchesTypeOK
    <3>3. Accounted'
      BY <3>1, QuietKeepsAccounted DEF WatchesInv, Doing, maps
    <3> QED
      BY <3>2, <3>3 DEF WatchesInv
  <2> QED
    BY <2>1, <2>2, <2>3, <2>4, <2>5, <2>6 DEF WatchesNext
<1> QED
  BY InitIsAccounted, <1>1, AccountedRegistersOnce, PTL DEF WatchesSpec
=============================================================================
