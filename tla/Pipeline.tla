------------------------------ MODULE Pipeline ------------------------------
(***************************************************************************)
(* The resources one platform object is turned into: the render, deploy    *)
(* and gc actions of framework/controller/actions, as the reconciler runs  *)
(* them one after the other, reconciliation after reconciliation.          *)
(*                                                                         *)
(* Deploy reads the children from the informer's view of them, which lags  *)
(* behind, and writes to the API server; gc lists and deletes there.  Two  *)
(* caches live across reconciliations: the render cache (ResourceCacher),  *)
(* whose hits make gc skip its pass, and the deploy cache, whose hits make *)
(* deploy skip a child.  Users edit, mark and delete children meanwhile.   *)
(*                                                                         *)
(* A child's content is whether it has drifted from its manifest; the five *)
(* lifecycle annotations are one stamp, the generation of the instance     *)
(* they were written for, 0 if any is missing.  Each child is of a kind of *)
(* its own, none of them a CustomResourceDefinition, and deploy works in   *)
(* its default mode, server-side apply.                                    *)
(***************************************************************************)
EXTENDS Naturals, FiniteSetsExt

CONSTANTS
    Names,           \* children; numbers, in the order of SortByApplyOrder
    Desired,         \* the children rendered for each generation
    CreateOnly,      \* children rendered with the managed annotation "false"
    Owned,           \* children whose kind the controller owns (shouldOwn)
    OnlyOwned,       \* WithOnlyCollectOwned of the gc action
    RenderCaching,   \* the render actions have a caching key
    DeployCaching,   \* WithCache of the deploy action
    ContinueOnError, \* WithContinueOnError of the deploy action
    Adopted,         \* children there from the start, owned by another kind
    Edits,           \* what users do to children
    MaxGen,          \* bound: generations of the instance
    MaxEdits,        \* bound: writes of users
    MaxFaults        \* bound: failures of API calls and of the process

ASSUME PipelineAssumption ==
    /\ Names \subseteq Nat \ {0}
    /\ Desired \in [1 .. MaxGen -> SUBSET Names]
    /\ CreateOnly \subseteq Names /\ Owned \subseteq Names /\ Adopted \subseteq Names
    /\ {OnlyOwned, RenderCaching, DeployCaching, ContinueOnError} \subseteq BOOLEAN
    /\ Edits \subseteq {"drift", "release", "manage", "unstamp", "delete"}
    /\ MaxGen \in Nat \ {0} /\ MaxEdits \in Nat /\ MaxFaults \in Nat

VARIABLES
    gen,       \* generation of the instance in the API server
    inst,      \* generation of the informer's copy of the instance
    live,      \* the children in the API server, and those that were there
    view,      \* the informer's copies of them
    queued,    \* the instance's key waits in the work queue
    pc,        \* where the worker is
    rgen,      \* generation of the worker's copy of the instance
    generated, \* rr.Generated
    todo,      \* children still to deploy, or collectable ones still to delete
    cur,       \* the worker's copy of the child it is deploying
    failed,    \* some child failed, with ContinueOnError
    rkey,      \* the render cache's key: the generation, 0 if empty
    dcache,    \* the deploy cache's keys: name, resource version, content
    edits, faults

vars == <<gen, inst, live, view, queued, pc, rgen, generated, todo, cur,
          failed, rkey, dcache, edits, faults>>
worker == <<pc, rgen, generated, todo, cur, failed>>
caches == <<rkey, dcache>>

NoChild == [exists |-> FALSE, rv |-> 0, stamp |-> 0, drift |-> FALSE,
            managed |-> "", partOf |-> FALSE, owners |-> {}, deleting |-> FALSE]

\* The child n becomes c in the API server; a write that changes nothing
\* leaves its resource version alone.
Store(n, c) ==
    live' = IF [c EXCEPT !.rv = live[n].rv] = live[n] THEN live
            ELSE [live EXCEPT ![n] = [c EXCEPT !.rv = live[n].rv + 1]]

\* A child that is gone: a watch still tells whose it was.
Gone(c) == [NoChild EXCEPT !.owners = c.owners]

\* What a Get returns.
Found(c) == IF c.exists THEN c ELSE NoChild

Fault == faults < MaxFaults /\ faults' = faults + 1

-----------------------------------------------------------------------------
(***************************************************************************)
(* Users, the API server and the informers.                                *)
(***************************************************************************)

UpdateInstance ==
    /\ gen < MaxGen
    /\ gen' = gen + 1
    /\ UNCHANGED <<inst, live, view, queued, worker, caches, edits, faults>>

\* Users change a field the manifest sets, set or remove the managed
\* annotation, or remove a lifecycle annotation.
UserVersion(c, edit) ==
    CASE edit = "drift"   -> [c EXCEPT !.drift = TRUE]
      [] edit = "release" -> [c EXCEPT !.managed = "false"]
      [] edit = "manage"  -> [c EXCEPT !.managed = ""]
      [] edit = "unstamp" -> [c EXCEPT !.stamp = 0]

UserEdit(n) ==
    /\ live[n].exists /\ edits < MaxEdits
    /\ \E edit \in Edits \ {"delete"} :
          /\ UserVersion(live[n], edit) # live[n]
          /\ Store(n, UserVersion(live[n], edit))
    /\ edits' = edits + 1
    /\ UNCHANGED <<gen, inst, view, queued, worker, caches, faults>>

\* A deleted child goes at once, or waits for its dependents first.
Remove(n) ==
    \/ Store(n, Gone(live[n]))
    \/ Store(n, [live[n] EXCEPT !.deleting = TRUE])

UserDelete(n) ==
    /\ "delete" \in Edits
    /\ live[n].exists /\ ~live[n].deleting /\ edits < MaxEdits
    /\ Remove(n)
    /\ edits' = edits + 1
    /\ UNCHANGED <<gen, inst, view, queued, worker, caches, faults>>

Vanish(n) ==
    /\ live[n].deleting
    /\ Store(n, Gone(live[n]))
    /\ UNCHANGED <<gen, inst, view, queued, worker, caches, edits, faults>>

\* Mutant: deletions are filtered out.
NoticedNoDeletes(old, new) ==
    /\ new.exists
    /\ [old EXCEPT !.rv = new.rv, !.owners = new.owners] # new

\* DefaultPredicate: a change of the owners alone is not an event.
Noticed(old, new) ==
    \/ new.rv # old.rv + 1
    \/ [old EXCEPT !.rv = new.rv, !.owners = new.owners] # new

\* The watch on an owned kind delivers the pending versions, and enqueues the
\* controller-owner of the old or the new one.
SyncChild(n) ==
    /\ view[n] # live[n]
    /\ view' = [view EXCEPT ![n] = live[n]]
    /\ queued' = \/ queued
                 \/ /\ n \in Owned
                    /\ Noticed(view[n], live[n])
                    /\ "us" \in view[n].owners \union live[n].owners
    /\ UNCHANGED <<gen, inst, live, worker, caches, edits, faults>>

SyncInstance ==
    /\ inst # gen
    /\ inst' = gen
    /\ queued' = TRUE
    /\ UNCHANGED <<gen, live, view, worker, caches, edits, faults>>

\* The deploy cache is a TTL store.
Expire(k) ==
    /\ k \in dcache
    /\ dcache' = dcache \ {k}
    /\ UNCHANGED <<gen, inst, live, view, queued, worker, rkey, edits, faults>>

Idle ==
    /\ pc' = "idle" /\ rgen' = 0 /\ generated' = FALSE /\ todo' = {}
    /\ cur' = NoChild /\ failed' = FALSE

Crash ==
    /\ Fault
    /\ Idle
    /\ rkey' = 0 /\ dcache' = {}
    /\ inst' = gen /\ view' = live /\ queued' = TRUE
    /\ UNCHANGED <<gen, live, edits>>

-----------------------------------------------------------------------------
(***************************************************************************)
(* The pipeline.                                                           *)
(***************************************************************************)

\* The pipeline ends; an error puts the key back into the queue.
Return(err) == Idle /\ queued' = (queued \/ err)

\* The reconciliation starts; the renderer runs unless the cached resources
\* were rendered for the same key.  An error leaves the cache as it was.
Render ==
    /\ pc = "idle" /\ queued
    /\ \/ /\ queued' = FALSE
          /\ rgen' = inst
          /\ generated' = ~(RenderCaching /\ rkey = inst)
          /\ rkey' = IF RenderCaching THEN inst ELSE 0
          /\ todo' = Desired[inst]
          /\ pc' = "lookup"
          /\ UNCHANGED <<cur, failed, faults>>
       \/ /\ Fault
          /\ UNCHANGED <<queued, worker, rkey>>
    /\ UNCHANGED <<gen, inst, live, view, dcache, edits>>

\* The child is done with; on to the next.
NextChild(err) ==
    /\ todo' = todo \ {Min(todo)}
    /\ failed' = (failed \/ err)
    /\ cur' = NoChild
    /\ pc' = "lookup"
    /\ UNCHANGED <<queued, rgen, generated>>

\* An error in looking up or deploying one child.
ChildError == IF ContinueOnError THEN NextChild(TRUE) ELSE Return(TRUE)

\* The next child is looked up in the informer's view.
Lookup ==
    /\ pc = "lookup" /\ todo # {}
    /\ LET c == Found(view[Min(todo)]) IN
       \/ /\ cur' = c
          /\ pc' = IF "other" \in c.owners THEN "disown"
                   ELSE IF c.managed = "false" THEN "release" ELSE "deploy"
          /\ UNCHANGED <<queued, rgen, generated, todo, failed, faults>>
       \/ Fault /\ ChildError
    /\ UNCHANGED <<gen, inst, live, view, caches, edits>>

\* RemoveOwnerReferences: an Update of the worker's copy, refused if it is
\* not the current version; its errors end the pipeline.
Disown(owner) ==
    /\ pc = (IF owner = "other" THEN "disown" ELSE "release")
    /\ LET n == Min(todo)
           stripped == [cur EXCEPT !.owners = @ \ {owner}] IN
       \/ /\ owner \in cur.owners
          /\ cur = live[n]
          /\ Store(n, stripped)
          /\ IF owner = "other"
             THEN /\ cur' = live'[n]
                  /\ pc' = IF cur.managed = "false" THEN "release" ELSE "deploy"
                  /\ UNCHANGED <<queued, rgen, generated, todo, failed>>
             ELSE NextChild(FALSE)
          /\ UNCHANGED faults
       \/ /\ owner \in cur.owners
          /\ \/ cur # live[n] /\ UNCHANGED faults
             \/ Fault
          /\ Return(TRUE)
          /\ UNCHANGED live
       \/ /\ owner \notin cur.owners
          /\ NextChild(FALSE)
          /\ UNCHANGED <<live, faults>>
    /\ UNCHANGED <<gen, inst, view, caches, edits>>

\* Mutant: the key leaves out the resource version.
KeyWithoutVersion(n, c) == <<n, 1, rgen>>

\* computeCacheKey for a version of the child and the manifest of rgen.
Key(n, c) == <<n, c.rv, rgen>>

Skip ==
    \/ cur.deleting
    \/ DeployCaching /\ cur.exists /\ Key(Min(todo), cur) \in dcache

\* ShouldSkip: a child being deleted is left alone and forgotten.
SkipChild ==
    /\ pc = "deploy" /\ Skip
    /\ dcache' = IF cur.deleting THEN dcache \ {Key(Min(todo), cur)} ELSE dcache
    /\ NextChild(FALSE)
    /\ UNCHANGED <<gen, inst, live, view, rkey, edits, faults>>

Remember(n, c) == dcache' = IF DeployCaching THEN dcache \union {Key(n, c)} ELSE dcache

\* The child after a forced server-side apply of its manifest.
Applied(n) ==
    [Found(live[n]) EXCEPT !.exists = TRUE, !.stamp = rgen,
                    !.drift = FALSE, !.partOf = TRUE,
                    !.owners = IF n \in Owned THEN @ \union {"us"} ELSE @]

\* deploy: a child rendered as not managed is only created, without the
\* annotation and without an owner; that it exists already is no error.
Apply ==
    /\ pc = "deploy" /\ ~Skip
    /\ LET n == Min(todo) IN
       \/ /\ n \notin CreateOnly
          /\ Store(n, Applied(n))
          /\ Remember(n, live'[n])
          /\ NextChild(FALSE)
          /\ UNCHANGED faults
       \/ /\ n \in CreateOnly
          /\ IF live[n].exists
             THEN UNCHANGED live /\ Remember(n, NoChild)
             ELSE /\ Store(n, [NoChild EXCEPT !.exists = TRUE, !.stamp = rgen,
                                               !.partOf = TRUE])
                  /\ Remember(n, live'[n])
          /\ NextChild(FALSE)
          /\ UNCHANGED faults
       \/ /\ Fault
          /\ ChildError
          /\ UNCHANGED <<live, dcache>>
    /\ UNCHANGED <<gen, inst, view, rkey, edits>>

\* Mutant: with ContinueOnError, failures are only logged.
EndDeployForgiving ==
    /\ pc = "lookup" /\ todo = {}
    /\ pc' = "gc"
    /\ UNCHANGED <<queued, rgen, generated, todo, cur, failed>>
    /\ UNCHANGED <<gen, inst, live, view, caches, edits, faults>>

\* All children are deployed: gc starts, unless some child failed.
EndDeploy ==
    /\ pc = "lookup" /\ todo = {}
    /\ IF failed THEN Return(TRUE)
       ELSE /\ pc' = "gc"
            /\ UNCHANGED <<queued, rgen, generated, todo, cur, failed>>
    /\ UNCHANGED <<gen, inst, live, view, caches, edits, faults>>

\* gc works out the kinds it may delete; it has nothing to do if the children
\* came from the render cache.
StartCollect ==
    /\ pc = "gc"
    /\ \/ /\ ~generated
          /\ Return(FALSE)
          /\ UNCHANGED faults
       \/ /\ generated
          /\ pc' = "list"
          /\ todo' = Names
          /\ UNCHANGED <<queued, rgen, generated, cur, failed, faults>>
       \/ generated /\ Fault /\ Return(TRUE)
    /\ UNCHANGED <<gen, inst, live, view, caches, edits>>

\* The label selector, isObjectDeletable with DefaultObjectPredicate, and not
\* being deleted already.
Collectable(c) ==
    /\ c.exists /\ c.partOf /\ ~c.deleting
    /\ c.managed # "false"
    /\ OnlyOwned => "us" \in c.owners
    /\ c.stamp # rgen

\* gc lists the next kind, past the informer.
List ==
    /\ pc = "list" /\ todo # {}
    /\ \/ /\ IF Collectable(live[Min(todo)])
             THEN pc' = "collect" /\ UNCHANGED todo
             ELSE todo' = todo \ {Min(todo)} /\ UNCHANGED pc
          /\ UNCHANGED <<queued, rgen, generated, cur, failed, faults>>
       \/ Fault /\ Return(TRUE)
    /\ UNCHANGED <<gen, inst, live, view, caches, edits>>

\* A delete names the child only, not the version that was listed.
Collect ==
    /\ pc = "collect"
    /\ LET n == Min(todo) IN
       \/ /\ IF live[n].exists THEN Remove(n) ELSE UNCHANGED live
          /\ pc' = "list"
          /\ todo' = todo \ {n}
          /\ UNCHANGED <<rgen, generated, cur, failed, queued, faults>>
       \/ Fault /\ Return(TRUE) /\ UNCHANGED live
    /\ UNCHANGED <<gen, inst, view, caches, edits>>

EndCollect ==
    /\ pc = "list" /\ todo = {}
    /\ Return(FALSE)
    /\ UNCHANGED <<gen, inst, live, view, caches, edits, faults>>

-----------------------------------------------------------------------------
\* The instance was just created; children of an earlier owner may exist.
Init ==
    /\ gen = 1 /\ inst = 1
    /\ live = [n \in Names |-> IF n \in Adopted
                 THEN [NoChild EXCEPT !.exists = TRUE, !.rv = 1, !.owners = {"other"}]
                 ELSE NoChild]
    /\ view = live
    /\ queued = TRUE
    /\ pc = "idle" /\ rgen = 0 /\ generated = FALSE /\ todo = {}
    /\ cur = NoChild /\ failed = FALSE
    /\ rkey = 0 /\ dcache = {}
    /\ edits = 0 /\ faults = 0

Users == UpdateInstance \/ \E n \in Names : UserEdit(n) \/ UserDelete(n)

Watch == SyncInstance \/ \E n \in Names : SyncChild(n) \/ Vanish(n)

Worker ==
    \/ Render \/ Lookup \/ (\E owner \in {"us", "other"} : Disown(owner))
    \/ SkipChild \/ Apply \/ EndDeploy \/ StartCollect \/ List \/ Collect \/ EndCollect

Next == Users \/ Watch \/ Worker \/ Crash \/ \E k \in dcache : Expire(k)

Spec == Init /\ [][Next]_vars

\* Watches deliver, deletions finish and the worker runs.
FairSpec ==
    /\ Spec
    /\ WF_vars(SyncInstance)
    /\ \A n \in Names : WF_vars(SyncChild(n)) /\ WF_vars(Vanish(n))
    /\ WF_vars(Worker)

-----------------------------------------------------------------------------
Child == [exists : BOOLEAN, rv : Nat, stamp : 0 .. MaxGen, drift : BOOLEAN,
          managed : {"", "false"}, partOf : BOOLEAN, owners : SUBSET {"us", "other"}, deleting : BOOLEAN]

\* Every variable keeps its type, and the copies the informer and the worker
\* hold are of versions that were given out (the Get and the watch of
\* action_deploy.go:run).
TypeOK ==
    /\ gen \in 1 .. MaxGen /\ inst \in 1 .. gen /\ rgen \in 0 .. inst
    /\ live \in [Names -> Child] /\ view \in [Names -> Child]
    /\ \A n \in Names : view[n].rv <= live[n].rv
    /\ {queued, generated, failed} \subseteq BOOLEAN
    /\ pc \in {"idle", "lookup", "disown", "release", "deploy", "gc", "list", "collect"}
    /\ todo \subseteq Names /\ cur \in Child
    /\ pc \in {"disown", "release", "deploy", "collect"} => todo # {}
    /\ rkey \in 0 .. inst
    /\ \A k \in dcache : k[1] \in Names /\ k[2] \in 0 .. live[k[1]].rv /\ k[3] \in 1 .. inst
    /\ edits \in 0 .. MaxEdits /\ faults \in 0 .. MaxFaults

\* The garbage collector never deletes a child of the manifests being deployed:
\* deploy has stamped or released every one of them first, or the pipeline has
\* stopped before gc (action_gc.go:isObjectDeletable against
\* action_deploy.go:run).  It holds while users only change or release
\* children, no child that was dropped comes back, and gc keeps to owned
\* children, its default, if some are only created.
CollectsOnlyStale ==
    [][Collect => \A n \in Desired[rgen] : live'[n] = live[n]]_vars

\* Nothing is queued or under way, and the informers have caught up.
Settled == pc = "idle" /\ ~queued /\ view = live /\ inst = gen

\* When nothing is left to do, every child the object owns and wants is as its
\* manifest for the last generation says: no skip by the deploy cache, no
\* filtered event and no failure leaves one behind (action_deploy.go:ShouldSkip).
\* It holds while users do not take back children they have released.
OwnedIsCurrent ==
    Settled => \A n \in Desired[gen] \ CreateOnly :
        LET c == live[n] IN
        c.exists /\ "us" \in c.owners /\ ~c.deleting =>
            ~c.drift /\ c.stamp = gen /\ c.managed # "false" /\ "other" \notin c.owners

\* When nothing is left to do, no child is left of earlier generations, other
\* than those users have released (action_gc.go:run).
NothingStale ==
    Settled => \A n \in Names \ Desired[gen] :
        live[n].exists /\ "us" \in live[n].owners =>
            live[n].deleting \/ live[n].managed = "false"

\* After the edits users make (at most MaxEdits, one in the run), failing
\* calls and restarts the children converge to the manifests, except for
\* those that users have released (action_deploy.go:run).  Two edits can keep
\* one from coming back: a child that was released and then deleted after its
\* owner reference was gone wakes nobody.
Converged ==
    /\ \A n \in Desired[gen] \ CreateOnly :
          /\ live[n].exists
          /\ live[n].managed = "false" \/ (~live[n].drift /\ live[n].stamp = gen)
    /\ \A n \in Owned \ Desired[gen] : live[n].exists => live[n].managed = "false"

Converges == <>[]Converged
=============================================================================
