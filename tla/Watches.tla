------------------------------ MODULE Watches -------------------------------
(***************************************************************************)
(* The watches a framework controller registers while it runs: the ones    *)
(* given to the builder as dynamic (reconciler_actions.go), and one for    *)
(* every kind it deploys (dynamicownership).  Both actions run at the end  *)
(* of the pipeline, after deploy, in every worker; the first keeps what it *)
(* has registered in a plain map, the second in one it checks twice, the   *)
(* second time under a mutex.                                              *)
(*                                                                         *)
(* A kind stands for a watchKey: what is rendered of it is owned, or all   *)
(* of it is rendered to be created only.  Every instance is rendered into  *)
(* the same definition and one child of each kind of Rendered, in the      *)
(* order of SortByApplyOrder.  Late is the kind of that definition.  What  *)
(* a user deletes is noticed through a watch of its kind, if there is one  *)
(* by then.                                                                *)
(***************************************************************************)
EXTENDS Integers, FiniteSets, Sequences

CONSTANTS
    Workers,     \* concurrent reconciliations
    Instances,   \* names of the reconciled objects
    Rendered,    \* CRD and the kinds of the children, in apply order
    CreateOnlyKinds, \* kinds rendered with the managed annotation "false"
    OwnedKinds,      \* kinds given to the builder's Owns
    ExcludedKinds,   \* kinds excluded from dynamic ownership
    Late,        \* the kind that the rendered definition defines
    DynamicWatches,  \* kinds watched once their dynamic predicates hold
    MaxDeletes,  \* bound: objects users delete
    MaxFailures, \* bound: failing calls and restarts
    NoOne        \* no instance

CRD == "CRD"
Targets == {Rendered[n] : n \in DOMAIN Rendered}
Kinds == Targets \ {CRD}
DynamicKinds == {DynamicWatches[n] : n \in DOMAIN DynamicWatches}

ASSUME WatchesAssumption ==
    /\ NoOne \notin Instances /\ Late \in Kinds /\ Rendered[1] = CRD
    /\ CreateOnlyKinds \union OwnedKinds \union ExcludedKinds \subseteq Kinds
    /\ OwnedKinds \intersect CreateOnlyKinds = {}
    /\ Rendered \in Seq(Targets) /\ DynamicWatches \in Seq(DynamicKinds)
    /\ IsFiniteSet(Workers) /\ MaxFailures \in Nat /\ MaxDeletes \in Nat

VARIABLES
    queue,      \* instances to reconcile
    at,         \* where each worker is
    inst,       \* its instance
    next,       \* the index of the resource or watch it sees to
    watched,    \* the ownership action's map, watchedCRDs included
    dynWatched, \* the dynamic watch action's map
    watches,    \* registered: how often, and with which instance
    crd,        \* the definition: none, there, established or missed
    child,      \* of each kind and instance: none, there, gone or missed
    deletes, failures

worker == <<at, inst, next>>
maps == <<watched, dynWatched, watches>>
cluster == <<crd, child, deletes>>
watchVars == <<queue, worker, maps, cluster, failures>>

\* Build: what the builder owns is watched from the start, and put into the
\* map of the ownership action with WithPreRegistered.
StartWatches ==
    [k \in Targets \union DynamicKinds |->
        [count |-> IF k \in OwnedKinds THEN 1 ELSE 0, to |-> NoOne]]

WatchesInit ==
    /\ queue = Instances
    /\ at = [w \in Workers |-> "idle"] /\ inst = [w \in Workers |-> NoOne]
    /\ next = [w \in Workers |-> 1]
    /\ watched = OwnedKinds /\ dynWatched = {} /\ watches = StartWatches
    /\ crd = "none" /\ child = [k \in Kinds, i \in Instances |-> "none"]
    /\ deletes = 0 /\ failures = 0

Go(w, place, n) ==
    /\ at' = [at EXCEPT ![w] = place]
    /\ next' = [next EXCEPT ![w] = n]

\* A call fails: the reconciliation ends and the instance is queued again.
Fail(w) ==
    /\ failures < MaxFailures /\ failures' = failures + 1
    /\ queue' = queue \union {inst[w]}
    /\ inst' = [inst EXCEPT ![w] = NoOne]
    /\ Go(w, "idle", 1)

-----------------------------------------------------------------------------
(***************************************************************************)
(* The cluster.                                                            *)
(***************************************************************************)

\* The event handlers Action.run chooses: the event of an owned kind goes to
\* the owner, any other to the instance the watch was registered with.
Notified(k, i) ==
    IF watches[k].count = 0 THEN {}
    ELSE IF k \in CreateOnlyKinds \union {CRD} THEN {watches[k].to} ELSE {i}

Establish ==
    /\ crd = "there" /\ crd' = "established"
    /\ queue' = queue \union Notified(CRD, NoOne)
    /\ UNCHANGED <<worker, maps, child, deletes, failures>>

\* Deleted: the children of ks.
Deleted(ks, i) ==
    [k \in Kinds, j \in Instances |->
        IF k \in ks /\ i \in {j, NoOne} /\ child[k, j] = "there"
        THEN IF watches[k].count > 0 THEN "gone" ELSE "missed"
        ELSE child[k, j]]

DeleteChild(k, i) ==
    /\ deletes < MaxDeletes /\ deletes' = deletes + 1
    /\ child[k, i] = "there" /\ child' = Deleted({k}, i)
    /\ queue' = queue \union Notified(k, i)
    /\ UNCHANGED <<worker, maps, crd, failures>>

\* With a definition go the objects it defines.
DeleteDefinition ==
    /\ deletes < MaxDeletes /\ deletes' = deletes + 1
    /\ crd = "established"
    /\ crd' = IF watches[CRD].count = 0 THEN "missed" ELSE "none"
    /\ child' = Deleted({Late}, NoOne)
    /\ queue' = queue \union Notified(CRD, NoOne)
                  \union UNION {Notified(Late, i) : i \in {j \in Instances : child[Late, j] = "there"}}
    /\ UNCHANGED <<worker, maps, failures>>

\* The process ends and starts again, with every instance in the queue.
Restarted ==
    /\ failures < MaxFailures /\ failures' = failures + 1
    /\ queue' = Instances
    /\ at' = [w \in Workers |-> "idle"] /\ inst' = [w \in Workers |-> NoOne]
    /\ next' = [w \in Workers |-> 1]
    /\ watched' = OwnedKinds /\ dynWatched' = {} /\ watches' = StartWatches
    /\ UNCHANGED cluster

-----------------------------------------------------------------------------
(***************************************************************************)
(* The workers.                                                            *)
(***************************************************************************)

Dequeue(w) ==
    /\ at[w] = "idle"
    /\ \E i \in queue :
        /\ i \notin {inst[v] : v \in Workers}
        /\ inst' = [inst EXCEPT ![w] = i]
        /\ queue' = queue \ {i}
    /\ Go(w, "deploy", 1)
    /\ UNCHANGED <<maps, cluster, failures>>

\* Mutant: that the lookup fails is logged, the reconciliation ends without
\* an error and the instance is not queued again.
DeployGivesUp(w) ==
    /\ at[w] = "deploy"
    /\ crd' = IF crd \in {"none", "missed"} THEN "there" ELSE crd
    /\ child' = [k \in Kinds, i \in Instances |->
                    IF i = inst[w] /\ (k # Late \/ crd = "established") THEN "there"
                    ELSE child[k, i]]
    /\ IF crd = "established"
       THEN Go(w, "dynamic", 1) /\ UNCHANGED <<queue, inst>>
       ELSE /\ inst' = [inst EXCEPT ![w] = NoOne]
            /\ Go(w, "idle", 1) /\ UNCHANGED queue
    /\ UNCHANGED <<maps, deletes, failures>>

\* The actions before the two of this module; deploy cannot look up an
\* object of a kind that is not served, and ends the reconciliation.
Deploy(w) ==
    /\ at[w] = "deploy"
    /\ crd' = IF crd \in {"none", "missed"} THEN "there" ELSE crd
    /\ child' = [k \in Kinds, i \in Instances |->
                    IF i = inst[w] /\ (k # Late \/ crd = "established") THEN "there"
                    ELSE child[k, i]]
    /\ IF crd = "established"
       THEN Go(w, "dynamic", 1) /\ UNCHANGED <<queue, inst>>
       ELSE /\ queue' = queue \union {inst[w]}
            /\ inst' = [inst EXCEPT ![w] = NoOne]
            /\ Go(w, "idle", 1)
    /\ UNCHANGED <<maps, deletes, failures>>

Registered(k, i) ==
    [watches EXCEPT ![k] = [count |-> @.count + 1, to |-> IF @.count = 0 THEN i ELSE @.to]]

\* dynamicWatchAction.run: the map is read, the predicates are asked.
DynamicCheck(w) ==
    /\ at[w] = "dynamic" /\ next[w] <= Len(DynamicWatches)
    /\ \E holds \in BOOLEAN :
        IF DynamicWatches[next[w]] \in dynWatched \/ ~holds
        THEN Go(w, "dynamic", next[w] + 1)
        ELSE Go(w, "dynamicRegister", next[w])
    /\ UNCHANGED <<queue, inst, maps, cluster, failures>>

DynamicRegister(w) ==
    /\ at[w] = "dynamicRegister"
    /\ watches' = Registered(DynamicWatches[next[w]], inst[w])
    /\ Go(w, "dynamicStore", next[w])
    /\ UNCHANGED <<queue, inst, watched, dynWatched, cluster, failures>>

DynamicRegisterFails(w) ==
    /\ at[w] = "dynamicRegister" /\ Fail(w)
    /\ UNCHANGED <<maps, cluster>>

DynamicStore(w) ==
    /\ at[w] = "dynamicStore"
    /\ dynWatched' = dynWatched \union {DynamicWatches[next[w]]}
    /\ Go(w, "dynamic", next[w] + 1)
    /\ UNCHANGED <<queue, inst, watched, watches, cluster, failures>>

\* Another worker reads or writes the map meanwhile: the runtime may end the
\* process ("concurrent map read and map write").
MapRace(w) ==
    /\ at[w] = "dynamicStore"
    /\ \E v \in Workers \ {w} : at[v] \in {"dynamic", "dynamicStore"}
    /\ Restarted

\* The ownership action begins.
Own(w) ==
    /\ at[w] = "dynamic" /\ next[w] > Len(DynamicWatches)
    /\ Go(w, "own", 1)
    /\ UNCHANGED <<queue, inst, maps, cluster, failures>>

\* Action.run, one resource: kinds that are excluded are passed over, then
\* the check without the mutex, and whether the API is there; if not, the
\* kind is left for another time.  A definition is checked under the mutex
\* only.
OwnCheck(w) ==
    /\ at[w] = "own" /\ next[w] <= Len(Rendered)
    /\ LET k == Rendered[next[w]]
       IN  IF \/ k \in ExcludedKinds
              \/ k # CRD /\ k \in watched
              \/ k = Late /\ crd # "established"
           THEN Go(w, "own", next[w] + 1)
           ELSE Go(w, "register", next[w])
    /\ UNCHANGED <<queue, inst, maps, cluster, failures>>

\* A new watch first delivers what exists: of the definition an event for
\* the instance it is registered with; those of children lead nowhere new.
Delivered(k, i) == IF k = CRD /\ crd # "missed" THEN queue \union {i} ELSE queue

\* Mutant: the check is not repeated.
RegisterUnchecked(w) ==
    /\ at[w] = "register"
    /\ LET k == Rendered[next[w]]
       IN  /\ watches' = Registered(k, inst[w])
           /\ queue' = Delivered(k, inst[w])
           /\ watched' = watched \union {k}
    /\ Go(w, "own", next[w] + 1)
    /\ UNCHANGED <<inst, dynWatched, cluster, failures>>

\* registerWatchIfNeeded and registerCRDWatchIfNeeded, under the mutex.
Register(w) ==
    /\ at[w] = "register"
    /\ LET k == Rendered[next[w]]
       IN  IF k \in watched THEN UNCHANGED <<queue, watched, watches>>
           ELSE /\ watches' = Registered(k, inst[w])
                /\ queue' = Delivered(k, inst[w])
                /\ watched' = watched \union {k}
    /\ Go(w, "own", next[w] + 1)
    /\ UNCHANGED <<inst, dynWatched, cluster, failures>>

\* The watch cannot be registered, or whether the API is available cannot
\* be determined: the map stays as it is.
RegisterFails(w) ==
    /\ at[w] = "register" /\ Rendered[next[w]] \notin watched
    /\ Fail(w)
    /\ UNCHANGED <<maps, cluster>>

EndReconcile(w) ==
    /\ at[w] = "own" /\ next[w] > Len(Rendered)
    /\ inst' = [inst EXCEPT ![w] = NoOne]
    /\ Go(w, "idle", 1)
    /\ UNCHANGED <<queue, maps, cluster, failures>>

WatchStep(w) ==
    \/ Dequeue(w) \/ Deploy(w) \/ DynamicCheck(w) \/ DynamicRegister(w) \/ DynamicStore(w)
    \/ Own(w) \/ OwnCheck(w) \/ Register(w) \/ EndReconcile(w)

WatchesNext ==
    \/ Establish \/ DeleteDefinition \/ Restarted
    \/ \E k \in Kinds, i \in Instances : DeleteChild(k, i)
    \/ \E w \in Workers :
        WatchStep(w) \/ MapRace(w) \/ DynamicRegisterFails(w) \/ RegisterFails(w)

WatchesSpec == WatchesInit /\ [][WatchesNext]_watchVars

-----------------------------------------------------------------------------

\* However workers interleave, the ownership action registers a kind once;
\* the dynamic watch action, whose map has no lock, at most once per worker
\* (action_dynamic_ownership.go:132, reconciler_actions.go:31).  And what is
\* in the maps is registered: a registration that fails leaves no entry that
\* would keep the next reconciliation from trying again.
RegistersOnce ==
    /\ \A k \in Targets \union DynamicKinds :
          watches[k].count <= (IF k \in Targets THEN 1 ELSE 0)
                                + (IF k \in DynamicKinds THEN Cardinality(Workers) ELSE 0)
    /\ \A k \in watched \union dynWatched : watches[k].count > 0

\* Every kind that is deployed has a watch, or its definition was deleted
\* before it was watched.
AllWatched == crd = "missed" \/ Kinds \ ExcludedKinds \subseteq watched

\* No child of an owned kind is away whose deletion was noticed.
NoneGone ==
    \/ crd = "missed"
    \/ \A k \in Kinds \ (CreateOnlyKinds \union ExcludedKinds), i \in Instances :
            child[k, i] # "gone"
=============================================================================
