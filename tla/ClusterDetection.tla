-------------------------- MODULE ClusterDetection --------------------------
(***************************************************************************)
(* What pkg/cluster, pkg/cluster/olm and pkg/cluster/openshift find out    *)
(* about a cluster, each with a few reads that may fail.                   *)
(*                                                                         *)
(* A cluster k is a record: olm0 and olm1 say which version of OLM serves  *)
(* its APIs; catalogSource and clusterCatalog, whether the managed add-on  *)
(* is there; conditions, the packages with an OperatorCondition;           *)
(* subscriptions, the list of packages Subscriptions name, Malformed for   *)
(* one without a readable name; extensions, a sequence of                  *)
(* [package, catalog, installed, malformed]; version, fips and topology    *)
(* for OpenShift; nodes, the number that can be scheduled; establishedAt,  *)
(* the try at which a definition is first found established.  A read of    *)
(* what is in fails returns an error.                                      *)
(***************************************************************************)
EXTENDS Naturals, Sequences, FiniteSets

Failure == "error"
NoMatch == "noMatch"
Malformed == "malformed"
Rhods == "rhods-operator"

\* The answer of the API server to a read of one object.
Lookup(name, served, exists, fails) ==
    IF name \in fails THEN Failure
    ELSE IF ~served THEN NoMatch ELSE IF exists THEN "found" ELSE "notFound"

CRDTries == 5

\* CustomResourceDefinitionExists and HasCRD: the definition is established
\* from a given try on; a try that fails ends it.  From the try endsAt on the
\* context is over, which wait.Interrupted does not tell from a last try
\* without success.
HasCRD(k, failing, endsAt) ==
    LET last == {n \in 1..CRDTries : n < endsAt /\ (n >= k.establishedAt \/ n \in failing)}
    IN  IF last = {} THEN "no"
        ELSE IF \E n \in failing : \A l \in last : n <= l THEN Failure ELSE "yes"

-----------------------------------------------------------------------------

ClusterCatalogExists(k, fails) ==
    LET a == Lookup("clusterCatalog", k.olm1, k.clusterCatalog, fails)
    IN  IF a = Failure THEN Failure ELSE IF a = "found" THEN "yes" ELSE "no"

\* Mutant: a catalog source that cannot be read is taken for none.
DetectManagedFailsOpen(k, fails) ==
    IF Lookup("catalogSource", k.olm0, k.catalogSource, fails) = "found" THEN "yes"
    ELSE ClusterCatalogExists(k, fails)

DetectManagedRhoai(k, fails) ==
    LET a == Lookup("catalogSource", k.olm0, k.catalogSource, fails)
    IN  IF a = "found" THEN "yes" ELSE IF a = Failure THEN Failure
        ELSE ClusterCatalogExists(k, fails)

\* A list is looked through until an item matches, or cannot be read.
FirstDeciding(unreadable, matching) ==
    LET decides == unreadable \union matching
        first == {n \in decides : \A m \in decides : n <= m}
    IN  IF first = {} THEN "no" ELSE IF first \subseteq unreadable THEN Failure ELSE "yes"

UnreadableExtensions(k) == {n \in DOMAIN k.extensions : k.extensions[n].malformed}

\* ClusterExtensionInstallsPackage.
ClusterExtensionInstallsPackage(k, fails, pkg) ==
    IF "extensions" \in fails THEN Failure ELSE IF ~k.olm1 THEN NoMatch
    ELSE FirstDeciding(UnreadableExtensions(k), {n \in DOMAIN k.extensions :
            k.extensions[n].catalog /\ k.extensions[n].package = pkg})

OperatorInstalledViaClusterExtension(k, fails, pkg) ==
    IF "extensions" \in fails THEN Failure ELSE IF ~k.olm1 THEN NoMatch
    ELSE FirstDeciding(UnreadableExtensions(k), {n \in DOMAIN k.extensions :
            /\ k.extensions[n].catalog /\ k.extensions[n].package = pkg
            /\ k.extensions[n].installed})

\* The list of OperatorConditions, by the name of the package.
ViaOperatorCondition(k, fails, pkg) ==
    IF "conditions" \in fails THEN Failure ELSE IF ~k.olm0 THEN NoMatch
    ELSE IF pkg \in k.conditions THEN "yes" ELSE "no"

DetectSelfManaged(k, fails) ==
    LET v0 == ViaOperatorCondition(k, fails, Rhods)
        v1 == ClusterExtensionInstallsPackage(k, fails, Rhods)
    IN  IF v0 = "yes" THEN "SelfManagedRHOAI" ELSE IF v0 = Failure THEN Failure
        ELSE IF v1 = "yes" THEN "SelfManagedRHOAI" ELSE IF v1 = Failure THEN Failure
        ELSE "OpenDataHub"

DetectPlatform(k, fails, platformType) ==
    IF platformType \in {"OpenDataHub", "ManagedRHOAI", "SelfManagedRHOAI", "XKS"}
    THEN platformType
    ELSE LET managed == DetectManagedRhoai(k, fails)
         IN  IF managed = Failure THEN Failure
             ELSE IF managed = "yes" THEN "ManagedRHOAI" ELSE DetectSelfManaged(k, fails)

OperatorExists(k, fails, pkg) ==
    LET v0 == ViaOperatorCondition(k, fails, pkg)
        v1 == OperatorInstalledViaClusterExtension(k, fails, pkg)
    IN  IF v0 = "yes" THEN "yes" ELSE IF v0 = Failure THEN Failure
        ELSE IF v1 = "yes" THEN "yes" ELSE IF v1 = Failure THEN Failure
        ELSE IF v0 = NoMatch /\ v1 = NoMatch THEN NoMatch ELSE "no"

\* resourceExists, for the name of the package in a Subscription.
SubscriptionRequests(k, fails, pkg) ==
    IF "subscriptions" \in fails THEN Failure ELSE IF ~k.olm0 THEN NoMatch
    ELSE FirstDeciding({n \in DOMAIN k.subscriptions : k.subscriptions[n] = Malformed},
                       {n \in DOMAIN k.subscriptions : k.subscriptions[n] = pkg})

\* A match counts even if the other read fails.
OperatorPackageRequested(k, fails, pkg) ==
    LET v0 == SubscriptionRequests(k, fails, pkg)
        v1 == ClusterExtensionInstallsPackage(k, fails, pkg)
    IN  IF "yes" \in {v0, v1} THEN "yes" ELSE IF Failure \in {v0, v1} THEN Failure
        ELSE IF "no" \in {v0, v1} THEN "no" ELSE NoMatch

-----------------------------------------------------------------------------

IsFipsEnabled(k, fails) ==
    IF "clusterConfig" \in fails \/ k.fips = "malformed" THEN Failure
    ELSE IF k.fips = "true" THEN "yes" ELSE "no"

\* DetectClusterInfo and DetectClusterType: <<type, fips>>.
NoInfo == <<Failure, Failure>>
DetectClusterInfo(k, fails) ==
    IF "clusterVersion" \in fails THEN NoInfo
    ELSE IF k.version = "none" THEN <<"Kubernetes", "no">>
    ELSE IF IsFipsEnabled(k, fails) = Failure THEN NoInfo
    ELSE <<"OpenShift", IsFipsEnabled(k, fails)>>

\* IsSingleNodeCluster: the nodes are counted if there is no Infrastructure,
\* not if it may not be read.
IsSingleNodeCluster(k, fails) ==
    IF "infrastructure" \in fails THEN Failure
    ELSE IF k.version # "none" THEN IF k.topology = "SingleReplica" THEN "yes" ELSE "no"
    ELSE IF "nodes" \in fails THEN Failure ELSE IF k.nodes = 1 THEN "yes" ELSE "no"

-----------------------------------------------------------------------------

\* A read that fails is never taken for something that is not there: each
\* answer is the one it would be without failures, or an error, and a match
\* does not depend on what else failed (platform.go:88, olm.go:68).  That
\* goes for an Infrastructure that may not be read, too, for which
\* openshift.go:95 says the nodes are counted.
DetectionIsTruthful(k, fails) ==
    /\ \A type \in {"", "XKS"} :
        DetectPlatform(k, fails, type) \in {Failure, DetectPlatform(k, {}, type)}
    /\ OperatorExists(k, fails, Rhods) \in {Failure, OperatorExists(k, {}, Rhods)}
    /\ OperatorPackageRequested(k, fails, Rhods) \in
            {Failure, OperatorPackageRequested(k, {}, Rhods)}
    /\ DetectClusterInfo(k, fails) \in {NoInfo, DetectClusterInfo(k, {})}
    /\ IsSingleNodeCluster(k, fails) \in {Failure, IsSingleNodeCluster(k, {})}

\* Whatever tries fail and whenever the context ends, HasCRD fails or tells
\* whether the definition was established by the last try before that: only
\* with a context that outlives the tries is "no" an absence (crd.go:89).
EstablishedIsFound(k) ==
    \A failing \in SUBSET (1..CRDTries), endsAt \in 1..(CRDTries + 1) :
        HasCRD(k, failing, endsAt)
            \in {Failure, IF k.establishedAt < endsAt THEN "yes" ELSE "no"}

\* Where the operator is found installed, the platform is not taken for
\* OpenDataHub, and an operator without a Subscription is found requested if
\* it is installed as an extension (platform.go:102).
DetectionsAgree(k) ==
    /\ OperatorExists(k, {}, Rhods) = "yes" =>
        DetectPlatform(k, {}, "") \in {"SelfManagedRHOAI", "ManagedRHOAI", Failure}
    /\ OperatorInstalledViaClusterExtension(k, {}, Rhods) = "yes" =>
        OperatorPackageRequested(k, {}, Rhods) = "yes"
=============================================================================
