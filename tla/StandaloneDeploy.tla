-------------------------- MODULE StandaloneDeploy --------------------------
(***************************************************************************)
(* The root module's Deployer and Collector in a reconciler without the    *)
(* framework (docs/module-operator-scenarios.md, option B): every pass     *)
(* reads the instance, deploys what it renders, stopping at the first      *)
(* error, and then collects.  Users edit children and the instance, delete *)
(* both, and the process restarts, with the same release or the next.      *)
(*                                                                         *)
(* Every call of the API server is a step of its own; what a Get returned  *)
(* may be old when the apply that follows is sent.  A child is of a type   *)
(* of its own.  Its manifest sets all its fields; tuned says whether users *)
(* have changed the ones a merge strategy preserves, drift the others.     *)
(***************************************************************************)
EXTENDS RootResources, FiniteSetsExt, Sequences

CONSTANTS
    Kids,        \* children; numbers, in the order of WithApplyOrder
    CRDs,        \* the ones that are CustomResourceDefinitions
    Excluded,    \* the ones excluded from ownership
    CreateOnly,  \* the ones rendered with the managed annotation "false"
    Merged,      \* the ones whose kind has a merge strategy
    Rendered,    \* what is rendered for each generation
    Legacy,      \* children there from the start, owned by a legacy kind
    ReleaseInfo, \* the releases of the operator, one after the other
    OnlyOwned,   \* WithOnlyCollectOwned
    Caching,     \* WithCache
    Mode,        \* WithMode
    UserEdits,   \* what users do to children
    Touched,     \* bound: the children they do it to
    MaxGen, MaxUID, MaxEdits, MaxFaults  \* bounds

ASSUME StandaloneDeployAssumption ==
    /\ Kids \subseteq Nat \ {0} /\ IsFiniteSet(Kids)
    /\ \A S \in {CRDs, Excluded, CreateOnly, Merged, Legacy, Touched} : S \subseteq Kids
    /\ {MaxGen, MaxUID} \subseteq Nat \ {0} /\ {MaxEdits, MaxFaults} \subseteq Nat
    /\ Rendered \in [1 .. MaxGen -> SUBSET Kids] /\ 1 \in DOMAIN ReleaseInfo
    /\ {OnlyOwned, Caching} \subseteq BOOLEAN /\ Mode \in {"ssa", "patch"}
    /\ UserEdits \subseteq {"drift", "tune", "release", "manage", "corrupt"}

VARIABLES
    inst,     \* the instance: uid and generation
    release,  \* which release is running
    live,     \* the children in the API server
    cache,    \* fingerprints of the deploy cache
    dirty,    \* something has happened since the last pass began
    pc, owner, todo, cur, skipped, \* the pass: its instance, children left,
                                   \* the copy of one, those deploy skipped
    edits, faults

vars == <<inst, release, live, cache, dirty, pc, owner, todo, cur, skipped, edits, faults>>
pass == <<pc, owner, todo, cur, skipped>>

NoKid == [exists |-> FALSE, rv |-> 0, deleting |-> FALSE, managed |-> "", refs |-> {},
          partOf |-> "", stamp |-> NoStamp, tuned |-> FALSE, drift |-> FALSE]
LegacyOwner == 0  \* the UID of an owner of a legacy kind
UIDs == 1 .. MaxUID

Init ==
    /\ inst = [uid |-> 1, gen |-> 1] /\ release = 1
    /\ live = [k \in Kids |-> IF k \in Legacy
                  THEN [NoKid EXCEPT !.exists = TRUE, !.rv = 1, !.refs = {LegacyOwner}]
                  ELSE NoKid]
    /\ cache = {} /\ dirty = TRUE
    /\ pc = "idle" /\ owner = inst /\ todo = {} /\ cur = NoKid /\ skipped = {}
    /\ edits = 0 /\ faults = 0

-----------------------------------------------------------------------------
(***************************************************************************)
(* The API server and its users; the watches turn changes into passes.     *)
(***************************************************************************)

\* A write; one that changes nothing keeps the resource version.
Write(k, o) ==
    live' = IF [o EXCEPT !.rv = live[k].rv] = live[k] THEN live
            ELSE [live EXCEPT ![k] = [o EXCEPT !.rv = live[k].rv + 1]]

\* Versions go on when a name is used again.
Erase(k) == Write(k, [NoKid EXCEPT !.rv = live[k].rv])

Delete(k) == Erase(k) \/ Write(k, [live[k] EXCEPT !.deleting = TRUE])

EditInstance ==
    /\ edits < MaxEdits /\ edits' = edits + 1
    /\ dirty' = TRUE
    /\ \/ inst.gen < MaxGen /\ inst' = [inst EXCEPT !.gen = @ + 1]
       \/ inst.uid < MaxUID /\ inst' = [uid |-> inst.uid + 1, gen |-> 1]
    /\ UNCHANGED <<release, live, cache, pass, faults>>

Edited(o, edit) ==
    CASE edit = "drift"   -> [o EXCEPT !.drift = TRUE]
      [] edit = "tune"    -> [o EXCEPT !.tuned = TRUE]
      [] edit = "release" -> [o EXCEPT !.managed = "false"]
      [] edit = "manage"  -> [o EXCEPT !.managed = "true"]
      [] edit = "corrupt" -> [o EXCEPT !.stamp.gen = -1]

EditKid(k) ==
    /\ edits < MaxEdits /\ edits' = edits + 1
    /\ live[k].exists /\ k \in Touched
    /\ \/ \E e \in UserEdits : Edited(live[k], e) # live[k] /\ Write(k, Edited(live[k], e))
       \/ ~live[k].deleting /\ Delete(k)
    /\ dirty' = TRUE
    /\ UNCHANGED <<inst, release, cache, pass, faults>>

\* The cluster's own collector: the owner is gone, or a deletion completes.
Vanish(k) ==
    /\ live[k].exists
    /\ live[k].deleting \/ (live[k].refs # {} /\ live[k].refs \subseteq UIDs \ {inst.uid})
    /\ Erase(k)
    /\ dirty' = TRUE
    /\ UNCHANGED <<inst, release, cache, pass, edits, faults>>

\* The process stops and starts, perhaps as the next release.
Restart ==
    /\ faults < MaxFaults /\ faults' = faults + 1
    /\ release' \in {release, release + 1} \intersect DOMAIN ReleaseInfo
    /\ cache' = {} /\ dirty' = TRUE /\ pc' = "idle"
    /\ UNCHANGED <<inst, live, owner, todo, cur, skipped, edits>>

\* An entry of the cache reaches its time to live.
Expire ==
    /\ cache # {} /\ pc = "idle" /\ dirty
    /\ cache' = {}
    /\ UNCHANGED <<inst, release, live, dirty, pass, edits, faults>>

-----------------------------------------------------------------------------
(***************************************************************************)
(* Deployer.Deploy.                                                        *)
(***************************************************************************)

Begin ==
    /\ pc = "idle" /\ dirty
    /\ dirty' = FALSE
    /\ owner' = inst
    /\ todo' = Rendered[inst.gen]
    /\ skipped' = {} /\ cur' = NoKid
    /\ pc' = "deploy"
    /\ UNCHANGED <<inst, release, live, cache, edits, faults>>

\* The stamped manifest; CustomResourceDefinitions are not stamped.
Stamp(k) == IF k \in CRDs THEN NoStamp ELSE StampFor(owner, ReleaseInfo[release])

\* Mutant: the fingerprint leaves out the manifest.
FingerprintOfLive(k, o) == <<k, o.rv>>

\* computeCacheKey: the live version and a hash of the stamped manifest.
Fingerprint(k, o) == <<k, o.rv, Stamp(k)>>

\* Cache.Has, Cache.Delete and Cache.Add.
CacheHas(k, o) == o.exists /\ Fingerprint(k, o) \in cache
CacheWithout(k, o) == cache \ {Fingerprint(k, o)}
CacheWith(k, o) == IF Caching THEN cache \union {Fingerprint(k, o)} ELSE cache

\* shouldSkip, before it asks the cache, and deployOne: a child that users
\* have released is skipped, and one that is being deleted.
LeftAlone(o) == o.exists /\ (o.managed = "false" \/ o.deleting)

\* deployOne up to the apply.
Lookup ==
    /\ pc = "deploy" /\ todo # {}
    /\ LET k == Min(todo)
           skip == LeftAlone(live[k])
       IN  /\ cur' = live[k]
           /\ cache' = IF live[k].deleting /\ live[k].managed # "false"
                       THEN CacheWithout(k, live[k]) ELSE cache
           /\ skipped' = IF skip THEN skipped \union {k} ELSE skipped
           /\ IF skip \/ CacheHas(k, live[k]) THEN todo' = todo \ {k} /\ UNCHANGED pc
              ELSE todo' = todo /\ pc' = "apply"
    /\ UNCHANGED <<inst, release, live, dirty, owner, edits, faults>>

Owns(k) == k \notin CRDs \union Excluded \union CreateOnly

\* Mutant: no reference is taken for a legacy one.
DisownNothing ==
    /\ pc = "apply"
    /\ LET k == Min(todo)
       IN  /\ Owns(k) /\ cur.exists /\ LegacyOwner \in cur.refs
           /\ live[k].exists /\ cur.rv = live[k].rv
           /\ Write(k, live[k])
           /\ cur' = live'[k]
    /\ dirty' = TRUE
    /\ UNCHANGED <<inst, release, cache, pc, owner, todo, skipped, edits, faults>>

\* removeLegacyOwnerRefs: an Update with the version that was read.
Disown ==
    /\ pc = "apply"
    /\ LET k == Min(todo)
       IN  /\ Owns(k) /\ cur.exists /\ LegacyOwner \in cur.refs
           /\ live[k].exists /\ cur.rv = live[k].rv
           /\ Write(k, [live[k] EXCEPT !.refs = @ \ {LegacyOwner}])
           /\ cur' = live'[k]
    /\ dirty' = TRUE
    /\ UNCHANGED <<inst, release, cache, pc, owner, todo, skipped, edits, faults>>

\* Mutant: the merge strategy is not run.
MergeForgotten(k) == FALSE

\* runMergeStrategy: whether what is applied carries the users' tuning, as
\* the copy that was read has it; not if that says it is managed.
Tuning(k) == k \in Merged /\ cur.managed # "true" /\ cur.tuned

\* What a forced apply makes of the live object o.
Applied(k, o) ==
    [o EXCEPT !.exists = TRUE, !.stamp = Stamp(k), !.drift = FALSE,
              !.tuned = Tuning(k),
              !.partOf = IF k \in CRDs THEN "platform" ELSE "me",
              !.refs = IF Owns(k) THEN (@ \ UIDs) \union {owner.uid} ELSE @]

\* applyResource and applyWithMode, and cacheResult.  A create-only child is
\* created without owner, or left alone; in patch mode a child that was not
\* found is created, and must not be there.
Apply ==
    /\ pc = "apply"
    /\ LET k == Min(todo)
       IN  /\ Owns(k) => ~(cur.exists /\ LegacyOwner \in cur.refs)
           /\ LegacyOwner \notin live[k].refs \/ ~Owns(k)
           /\ Mode = "patch" /\ ~cur.exists /\ k \notin CreateOnly => ~live[k].exists
           /\ IF k \in CreateOnly /\ live[k].exists THEN UNCHANGED live
              ELSE Write(k, Applied(k, live[k]))
           /\ cache' = IF k \in CreateOnly /\ live[k].exists THEN cache
                       ELSE CacheWith(k, live'[k])
           /\ todo' = todo \ {k}
    /\ dirty' = (dirty \/ live' # live)
    /\ pc' = "deploy"
    /\ UNCHANGED <<inst, release, owner, cur, skipped, edits, faults>>

\* A NotFound for a CustomResourceDefinition is ignored.
ApplyCRDNotFound ==
    /\ pc = "apply" /\ Min(todo) \in CRDs
    /\ faults < MaxFaults /\ faults' = faults + 1
    /\ todo' = todo \ {Min(todo)}
    /\ pc' = "deploy"
    /\ UNCHANGED <<inst, release, live, cache, dirty, owner, cur, skipped, edits>>

\* Mutant: the error is not returned.
AbortForgets == pc' = "idle" /\ UNCHANGED dirty

\* A call fails, for a conflict or a rejected apply or because the server
\* does: the pass ends with an error and is repeated.
Abort == pc' = "idle" /\ dirty' = TRUE

Rejected(k) ==
    \/ Owns(k) /\ cur.exists /\ LegacyOwner \in cur.refs
         /\ ~(live[k].exists /\ cur.rv = live[k].rv)
    \/ Owns(k) /\ LegacyOwner \in live[k].refs /\ LegacyOwner \notin cur.refs
    \/ Mode = "patch" /\ ~cur.exists /\ live[k].exists /\ k \notin CreateOnly

Fail ==
    /\ \/ pc = "apply" /\ Rejected(Min(todo)) /\ UNCHANGED faults
       \/ pc # "idle" /\ faults < MaxFaults /\ faults' = faults + 1
    /\ Abort
    /\ UNCHANGED <<inst, release, live, cache, owner, todo, cur, skipped, edits>>

EndDeploy ==
    /\ pc = "deploy" /\ todo = {}
    /\ pc' = "list" /\ todo' = Kids
    /\ UNCHANGED <<inst, release, live, cache, dirty, owner, cur, skipped, edits, faults>>

-----------------------------------------------------------------------------
(***************************************************************************)
(* Collector.Run: one type after the other is listed and collected.        *)
(***************************************************************************)

\* listResources, by the label deploy has set; types that are not removable
\* are not listed.
Listed(k) == k \notin CRDs /\ live[k].exists /\ live[k].partOf = "me"

\* collectType and the loop of deleteResources: what the list says decides.
List ==
    /\ pc = "list" /\ todo # {}
    /\ LET k == Min(todo)
           verdict == IF ~Listed(k) THEN "keep"
                      ELSE IsObjectDeletable(live[k], live[k].refs \intersect UIDs # {},
                                             OnlyOwned, owner, ReleaseInfo[release])
       IN  /\ cur' = live[k]
           /\ CASE verdict = "error" -> Abort /\ UNCHANGED todo
                [] verdict = "delete" /\ ~live[k].deleting ->
                     pc' = "delete" /\ UNCHANGED <<todo, dirty>>
                [] OTHER -> todo' = todo \ {k} /\ UNCHANGED <<pc, dirty>>
    /\ UNCHANGED <<inst, release, live, cache, owner, skipped, edits, faults>>

\* Collector.delete: by name, whatever the object has become.
Collect ==
    /\ pc = "delete"
    /\ LET k == Min(todo)
       IN  /\ IF live[k].exists THEN Delete(k) /\ dirty' = TRUE ELSE UNCHANGED <<live, dirty>>
           /\ todo' = todo \ {k}
    /\ pc' = "list"
    /\ UNCHANGED <<inst, release, cache, owner, cur, skipped, edits, faults>>

EndPass ==
    /\ pc = "list" /\ todo = {}
    /\ pc' = "idle"
    /\ UNCHANGED <<inst, release, live, cache, dirty, owner, todo, cur, skipped, edits, faults>>

Worker == Begin \/ Lookup \/ Disown \/ Apply \/ EndDeploy \/ List \/ Collect \/ EndPass

Next ==
    \/ EditInstance \/ Restart \/ Expire \/ Fail \/ ApplyCRDNotFound
    \/ \E k \in Kids : EditKid(k) \/ Vanish(k)
    \/ Worker

Spec ==
    /\ Init /\ [][Next]_vars
    /\ WF_vars(Worker \/ (Fail /\ UNCHANGED faults))
    /\ \A k \in Kids : WF_vars(Vanish(k))

-----------------------------------------------------------------------------

\* The collector deletes nothing the pass has rendered, unless deploy has
\* skipped it: what deploy leaves alone it has stamped, in this pass or in
\* one the cache remembers (predicates.go:33, cache.go:141).
SparesTheRendered ==
    [][pc = "delete" /\ live' # live
         => Min(todo) \notin Rendered[owner.gen] \ skipped]_vars

\* A merge strategy loses what users have tuned only if they did so after
\* the live object was read, or the object says it is managed (deploy.go:671).
TuningIsLostOnlyInRaces ==
    [][\A k \in Merged \intersect Kids :
          /\ live[k].tuned /\ live[k].exists
          /\ live'[k].exists /\ ~live'[k].tuned
          => live[k].managed = "true" \/ cur.rv # live[k].rv]_vars

\* With nothing left to do, what is rendered is as rendered and owned by the
\* instance alone, and nothing owned is left that is not rendered: after
\* failures in the middle of a pass, upgrades and new instances.  Not of
\* CustomResourceDefinitions: deploy ignores a NotFound (deploy.go:407).
Settled ==
    pc = "idle" /\ ~dirty =>
        \A k \in Kids \ (CreateOnly \union CRDs) :
            LET o == live[k]
            IN  \/ o.exists /\ (o.managed = "false" \/ o.deleting)
                \/ IF k \in Rendered[inst.gen]
                   THEN /\ o.exists /\ ~o.drift
                        /\ Owns(k) => /\ o.refs = {inst.uid}
                                      /\ o.stamp = StampFor(inst, ReleaseInfo[release])
                   ELSE o.exists => o.refs \intersect UIDs = {}

\* Once users and faults leave it alone, the controller comes to rest: it
\* does not deploy what it collects and collect what it deploys.
ComesToRest == <>[](pc = "idle" /\ ~dirty)
=============================================================================
