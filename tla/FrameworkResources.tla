------------------------- MODULE FrameworkResources -------------------------
(***************************************************************************)
(* The framework's own copies of the decisions of RootResources: the types *)
(* its gc action scans (framework/rules, actions/gc) and the Deployments   *)
(* its deploy action merges (actions/deploy).  The two are meant to stay   *)
(* the same (openshift_rbac.go:68).  Types, rules and Deployments are      *)
(* those of RootResources.                                                 *)
(***************************************************************************)
EXTENDS RootResources

FwIsResourceMatchingRule(type, rule) ==
    \E group \in rule.groups, kind \in rule.kinds :
        group \in {type.group, "*"} /\ kind \in {type.kind, "*"}

\* Each verb may be granted by another rule; no verbs are never granted.
FwHasPermissions(type, rules, verbs) ==
    /\ verbs # {}
    /\ \A verb \in verbs : \E rule \in rules :
          /\ ~rule.named
          /\ verb \in rule.verbs \/ "*" \in rule.verbs
          /\ FwIsResourceMatchingRule(type, rule)

FwAuthorizedResourcesForVerbs(apis, rules, verbs) ==
    {type \in DOMAIN apis : verbs \subseteq apis[type] /\ FwHasPermissions(type, rules, verbs)}

FwAliasKindsInGroup(types, group) ==
    {kind \in OpenShiftRBACAliasKinds : \E t \in types : t.kind = kind /\ t.group = group}

\* Mutant: the OpenShift view is never the one that is kept.
FwPreferKubernetesOnly(deletable, listable) ==
    LET keep == FwAliasKindsInGroup(deletable, KubernetesRBAC)
                  \intersect FwAliasKindsInGroup(listable, KubernetesRBAC)
    IN  {t \in deletable : ~(t.group = OpenShiftRBAC /\ t.kind \in keep)}

FwPreferKubernetesRBACResources(deletable, listable) ==
    LET kubernetes == FwAliasKindsInGroup(deletable, KubernetesRBAC)
        preferKubernetes == kubernetes \intersect FwAliasKindsInGroup(listable, KubernetesRBAC)
        preferOpenShift == {kind \in kubernetes \ preferKubernetes :
                                \A types \in {deletable, listable} :
                                    kind \in FwAliasKindsInGroup(types, OpenShiftRBAC)}
    IN  IF preferKubernetes \union preferOpenShift = {} THEN deletable
        ELSE deletable \ {t \in deletable :
                \/ t.group = OpenShiftRBAC /\ t.kind \in preferKubernetes
                \/ t.group = KubernetesRBAC /\ t.kind \in preferOpenShift}

FwSelectDeletableTypes(apis, rules) ==
    FwPreferKubernetesRBACResources(FwAuthorizedResourcesForVerbs(apis, rules, {"delete"}),
                                    FwAuthorizedResourcesForVerbs(apis, rules, {"list"}))

-----------------------------------------------------------------------------

\* MergeDeployments: what the live object has, or has not, replaces what the
\* manifest has, for the containers that are in both.
FwMergeDeployments(source, target) ==
    LET resourcesByName == source.containers
    IN  [replicas |-> source.replicas,
         containers |-> [c \in DOMAIN target.containers |->
            IF c \in DOMAIN resourcesByName THEN resourcesByName[c] ELSE target.containers[c]]]

\* Of well-formed manifests: for others the framework goes on where the root
\* module returns the error (merge.go:171).
FwRemoveDeploymentsResources(obj) ==
    [obj EXCEPT !.replicas = 0, !.containers = [c \in DOMAIN @ |-> NoQuantities]]

FwResourcesPatch(manifest, deployed) ==
    LET removed == DOMAIN deployed \ DOMAIN manifest
    IN  [x \in DOMAIN manifest \union removed |-> IF x \in removed THEN Null ELSE manifest[x]]

FwContainerPatch(manifest, deployed) ==
    IF deployed # NoQuantities /\ manifest = NoQuantities THEN [x \in DOMAIN deployed |-> Null]
    ELSE IF deployed # NoQuantities /\ manifest # deployed
    THEN FwResourcesPatch(manifest, deployed) ELSE NoQuantities

\* RevertManagedDeploymentDrift, and the patch it sends.
FwRevertManagedDeploymentDrift(obj, old) ==
    [replicas |-> IF obj.replicas = 0 THEN 0 ELSE old.replicas,
     containers |-> [c \in DOMAIN old.containers |->
        StrategicMerge(old.containers[c],
            IF c \in DOMAIN obj.containers
            THEN FwContainerPatch(obj.containers[c], old.containers[c]) ELSE NoQuantities)]]

-----------------------------------------------------------------------------

\* The gc action of the framework scans exactly the types the collector of
\* the root module scans, whatever is served and permitted
\* (actions/gc/openshift_rbac.go:68).
CollectorMirrorsAgree(apis, rules) ==
    FwSelectDeletableTypes(apis, rules) = SelectDeletableTypes(apis, rules)

\* Both deployers do the same with a Deployment users have changed, in each
\* of the three modes (action_deploy_merge_deployment.go:28).
DeploymentMirrorsAgree(desired, live) ==
    /\ FwMergeDeployments(live, desired) = MergeDeployments(live, desired)
    /\ FwRemoveDeploymentsResources(desired) = RemoveDeploymentResources(desired)
    /\ FwRevertManagedDeploymentDrift(desired, live) = RevertDeploymentDrift(desired, live)
=============================================================================
