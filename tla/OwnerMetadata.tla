--------------------------- MODULE OwnerMetadata ----------------------------
(***************************************************************************)
(* The metadata options of pkg/cluster (meta.go): owner references, and    *)
(* the annotations that stand in for them across namespaces, which         *)
(* EnqueueByOwnerAnnotation (ownership.go) maps back to the owner.         *)
(*                                                                         *)
(* An object is [refs, owner]: a sequence of [uid, controller], and the    *)
(* owner of its annotations, NoOwner without.  An owner is                 *)
(* [apiVersion, kind, name, namespace, uid]; "" stands for what is missing. *)
(***************************************************************************)
EXTENDS Naturals, FiniteSets, Sequences

NoOwner == [apiVersion |-> "", kind |-> "", name |-> "", namespace |-> "", uid |-> ""]
Bare == [refs |-> <<>>, owner |-> NoOwner]

\* An owner that annotations can name; and one OwnerRefFrom can refer to.
Complete(owner) == owner.kind # "" /\ owner.name # "" /\ owner.uid # ""
Referable(owner) == Complete(owner) /\ owner.apiVersion # ""

UpsertOwnerRef(refs, ref) ==
    IF \E n \in DOMAIN refs : refs[n].uid = ref.uid
    THEN [refs EXCEPT ![CHOOSE n \in DOMAIN refs :
                            /\ refs[n].uid = ref.uid
                            /\ \A m \in 1..(n - 1) : refs[m].uid # ref.uid] = ref]
    ELSE Append(refs, ref)

OtherController(refs, uid) ==
    \E n \in DOMAIN refs : refs[n].controller /\ refs[n].uid # uid

\* What an option returns: the object, and whether it failed.
Done(obj) == [obj |-> obj, failed |-> FALSE]
Failing(obj) == [obj |-> obj, failed |-> TRUE]
WithRef(obj, owner, controller) ==
    Done([obj EXCEPT !.refs = UpsertOwnerRef(@, [uid |-> owner.uid, controller |-> controller])])

OwnedBy(obj, owner) == IF Referable(owner) THEN WithRef(obj, owner, FALSE) ELSE Failing(obj)

\* Mutant: another controller does not matter.
ControlledByAnyway(obj, owner) ==
    IF Referable(owner) THEN WithRef(obj, owner, TRUE) ELSE Failing(obj)

ControlledBy(obj, owner) ==
    IF Referable(owner) /\ ~OtherController(obj.refs, owner.uid)
    THEN WithRef(obj, owner, TRUE) ELSE Failing(obj)

WithOwnerAnnotations(obj, owner) ==
    IF Complete(owner) THEN Done([obj EXCEPT !.owner = owner]) ELSE Failing(obj)

\* EnqueueByOwnerAnnotation: the owners to reconcile.
EnqueueByOwnerAnnotation(obj) ==
    IF obj.owner.name = "" THEN {} ELSE {<<obj.owner.namespace, obj.owner.name>>}

\* ApplyMetaOptions ends at the first error; what was applied stays.
ApplyOption(r, o) ==
    IF r.failed THEN r
    ELSE CASE o.option = "OwnedBy" -> OwnedBy(r.obj, o.owner)
           [] o.option = "ControlledBy" -> ControlledBy(r.obj, o.owner)
           [] o.option = "WithOwnerAnnotations" -> WithOwnerAnnotations(r.obj, o.owner)
ApplyMetaOptions(obj, options) ==
    LET after[n \in 0..Len(options)] ==
            IF n = 0 THEN Done(obj) ELSE ApplyOption(after[n - 1], options[n])
    IN  after[Len(options)]

-----------------------------------------------------------------------------

\* Owners that are made the controller and, elsewhere, a mere owner.
Downgraded(options) ==
    {options[n].owner : n \in {m \in DOMAIN options : options[m].option = "OwnedBy"}}
      \intersect
    {options[n].owner : n \in {m \in DOMAIN options : options[m].option = "ControlledBy"}}

\* Whatever options are applied and wherever they fail, an object has at most
\* one controller and one reference to each owner; if they do not fail it is
\* mapped to the last owner that annotated it (meta.go:152).  The next
\* reconciliation, which applies them again, changes nothing, unless an
\* owner is both the controller and a mere owner (meta.go:131).
OwnersAreConsistent(options) ==
    LET r == ApplyMetaOptions(Bare, options)
        refs == r.obj.refs
        stamped == {n \in DOMAIN options : options[n].option = "WithOwnerAnnotations"}
    IN  /\ Cardinality({n \in DOMAIN refs : refs[n].controller}) <= 1
        /\ \A m, n \in DOMAIN refs : refs[m].uid = refs[n].uid => m = n
        /\ ~r.failed =>
            EnqueueByOwnerAnnotation(r.obj) =
                {<<options[n].owner.namespace, options[n].owner.name>> :
                    n \in {m \in stamped : \A l \in stamped : l <= m}}
        /\ ~r.failed /\ Downgraded(options) = {} => ApplyMetaOptions(r.obj, options) = r
=============================================================================
