--------------------------- MODULE RootResources ----------------------------
(***************************************************************************)
(* The decisions of the root module's deployer and garbage collector       *)
(* (pkg/deploy, pkg/controller/gc, pkg/resources): what deploy stamps,     *)
(* what makes an object collectable, which types are scanned, and how      *)
(* live and rendered Deployments are merged.                               *)
(***************************************************************************)
EXTENDS Integers, FiniteSets

\* The lifecycle annotations; "" and 0 stand for one that is missing, a
\* negative generation for one that is not a number.
NoStamp == [gen |-> 0, uid |-> 0, version |-> "", type |-> ""]

\* stampMetadata: an empty release type or version is not stamped.
StampFor(owner, release) ==
    [gen |-> owner.gen, uid |-> owner.uid, version |-> release.version, type |-> release.type]

DefaultObjectPredicate(s, annotated, owner, release) ==
    IF ~annotated THEN "keep"
    ELSE IF \/ "" \in {s.version, s.type} \/ 0 \in {s.gen, s.uid}
            \/ s.version # release.version \/ s.type # release.type \/ s.uid # owner.uid
    THEN "delete"
    ELSE IF s.gen < 0 THEN "error"
    ELSE IF s.gen # owner.gen THEN "delete" ELSE "keep"

\* Collector.isObjectDeletable, of an object of a type that may be removed.
\* The predicate keeps what has no annotations at all (predicates.go:31): the
\* objects here are stamped by a deployer or have none.
IsObjectDeletable(o, ownedByType, onlyOwned, owner, release) ==
    IF o.managed = "false" \/ (onlyOwned /\ ~ownedByType) THEN "keep"
    ELSE DefaultObjectPredicate(o.stamp, o.stamp # NoStamp, owner, release)

-----------------------------------------------------------------------------
(***************************************************************************)
(* The types a collector scans.  A type is [group, kind]; apis gives the   *)
(* verbs of every type that is served; a rule is [groups, kinds, verbs,    *)
(* named], named if it lists resource names.                               *)
(***************************************************************************)

KubernetesRBAC == "rbac.authorization.k8s.io"
OpenShiftRBAC == "authorization.openshift.io"
OpenShiftRBACAliasKinds == {"Role", "RoleBinding", "ClusterRole", "ClusterRoleBinding"}
Unremovables == {"CustomResourceDefinition", "Lease"}

IsResourceMatchingRule(type, rule) ==
    /\ {type.group, "*"} \intersect rule.groups # {}
    /\ {type.kind, "*"} \intersect rule.kinds # {}

HasPermissions(type, rules, verb) ==
    \E rule \in rules :
        /\ ~rule.named
        /\ {verb, "*"} \intersect rule.verbs # {}
        /\ IsResourceMatchingRule(type, rule)

ComputeAuthorizedResources(apis, rules, verb) ==
    {type \in DOMAIN apis : verb \in apis[type] /\ HasPermissions(type, rules, verb)}

AliasKindsInGroup(types, group) ==
    {type.kind : type \in {t \in types : t.group = group}} \intersect OpenShiftRBACAliasKinds

PreferKubernetesRBACResources(deletable, listable) ==
    LET both(group) == AliasKindsInGroup(deletable, group)
                         \intersect AliasKindsInGroup(listable, group)
        preferOpenShift == (AliasKindsInGroup(deletable, KubernetesRBAC)
                              \ both(KubernetesRBAC)) \intersect both(OpenShiftRBAC)
    IN  {t \in deletable :
            /\ ~(t.group = OpenShiftRBAC /\ t.kind \in both(KubernetesRBAC))
            /\ ~(t.group = KubernetesRBAC /\ t.kind \in preferOpenShift)}

SelectDeletableTypes(apis, rules) ==
    PreferKubernetesRBACResources(ComputeAuthorizedResources(apis, rules, "delete"),
                                  ComputeAuthorizedResources(apis, rules, "list"))

\* isTypeDeletable, with the default type predicate.
ScannedTypes(apis, rules) ==
    {t \in SelectDeletableTypes(apis, rules) : t.kind \notin Unremovables}

-----------------------------------------------------------------------------
(***************************************************************************)
(* Deployments: [replicas, containers], containers a function from names   *)
(* to resources; resources are a function from <<section, key>>, section   *)
(* "requests" or "limits".  Absent replicas are 0; absent and empty        *)
(* resources are the empty function.                                       *)
(***************************************************************************)

NoQuantities == [x \in {} |-> 0]
Null == -1

\* MergeDeployments: the live object wins, for containers in both.
MergeDeployments(existing, desired) ==
    [replicas |-> existing.replicas,
     containers |-> [c \in DOMAIN desired.containers |->
        IF c \in DOMAIN existing.containers THEN existing.containers[c]
        ELSE desired.containers[c]]]

\* RemoveDeploymentResources, for manifests applied as patches.
RemoveDeploymentResources(desired) ==
    [replicas |-> 0, containers |-> [c \in DOMAIN desired.containers |-> NoQuantities]]

\* Server-side apply with ForceOwnership: what the manifest leaves out stays.
ForceApply(live, desired) ==
    [replicas |-> IF desired.replicas = 0 THEN live.replicas ELSE desired.replicas,
     containers |-> [c \in DOMAIN live.containers \union DOMAIN desired.containers |->
        LET in(d) == IF c \in DOMAIN d.containers THEN d.containers[c] ELSE NoQuantities
            old == in(live)
            new == in(desired)
        IN  [x \in DOMAIN old \union DOMAIN new |->
                IF x \in DOMAIN new THEN new[x] ELSE old[x]]]]

\* buildResourcesPatch: the manifest's quantities, and null for those that
\* only the live object has.
ResourcesPatch(manifest, deployed) ==
    [x \in DOMAIN manifest \union DOMAIN deployed |->
        IF x \in DOMAIN manifest THEN manifest[x] ELSE Null]

\* buildContainerResourcePatch: resources is null if the manifest has none.
ContainerPatch(manifest, deployed) ==
    IF deployed = NoQuantities \/ manifest = deployed THEN NoQuantities
    ELSE IF manifest = NoQuantities THEN [x \in DOMAIN deployed |-> Null]
    ELSE ResourcesPatch(manifest, deployed)

\* A strategic merge patch: null removes.
StrategicMerge(res, patch) ==
    [x \in {y \in DOMAIN res \union DOMAIN patch : y \in DOMAIN patch => patch[y] # Null} |->
        IF x \in DOMAIN patch THEN patch[x] ELSE res[x]]

\* RevertDeploymentDrift: containers of the manifest are matched by name.
RevertDeploymentDrift(desired, live) ==
    [replicas |-> IF desired.replicas = 0 THEN 0 ELSE live.replicas,
     containers |-> [c \in DOMAIN live.containers |->
        IF c \in DOMAIN desired.containers
        THEN StrategicMerge(live.containers[c],
                            ContainerPatch(desired.containers[c], live.containers[c]))
        ELSE live.containers[c]]]

-----------------------------------------------------------------------------

\* Every object of an aliased RBAC kind is scanned once if it can be scanned
\* at all: the views that can be listed and deleted are reduced to one, and
\* never to none (openshift_rbac.go:70).
AliasesScannedOnce(apis, rules) ==
    \A kind \in OpenShiftRBACAliasKinds :
        LET usable == {t \in DOMAIN apis : /\ t.kind = kind
                           /\ t.group \in {KubernetesRBAC, OpenShiftRBAC}
                           /\ \A v \in {"list", "delete"} :
                                  v \in apis[t] /\ HasPermissions(t, rules, v)}
        IN  usable # {} => Cardinality(usable \intersect ScannedTypes(apis, rules)) = 1

\* A revert and the apply that follows leave exactly the manifest's
\* resources and replicas, whatever users had set (drift.go:32).
DriftIsReverted(desired, live) ==
    LET after == ForceApply(RevertDeploymentDrift(desired, live), desired)
    IN  /\ after.replicas = desired.replicas
        /\ \A c \in DOMAIN desired.containers : after.containers[c] = desired.containers[c]

\* A merge and the apply that follows keep every resource and the replicas
\* users have set on containers the manifest still has (merge.go:23).
TuningIsKept(desired, live) ==
    LET after == ForceApply(live, MergeDeployments(live, desired))
    IN  /\ after.replicas = live.replicas
        /\ \A c \in DOMAIN desired.containers \intersect DOMAIN live.containers :
              after.containers[c] = live.containers[c]
=============================================================================
