---------------------------- MODULE PartsProofs -----------------------------
(***************************************************************************)
(* Proofs about the parts that share no state, for every input and not     *)
(* only those of MCParts: the admission of a singleton, for any set of     *)
(* creations; what becomes of a TLS profile and what a manager serves      *)
(* with, for any changes and failing reads; what collectors scan and       *)
(* deployers merge or revert; what is detected of a cluster; the flakiness *)
(* tool, its configuration and its reports; the assignment of ingresses;   *)
(* the validator of the API contract; and metadata options. What MCParts   *)
(* checks of them follows at the end.                                      *)
(***************************************************************************)
EXTENDS MCParts, FiniteSetTheorems, SequenceTheorems, WellFoundedInduction, TLAPS

-----------------------------------------------------------------------------
(***************************************************************************)
(* Natural numbers.  Induction is done with the least counterexample.      *)
(***************************************************************************)

LEMMA NaturalsHaveFirst ==
    ASSUME NEW S \in SUBSET Nat, S # {}
    PROVE  \E n \in S : \A m \in S : n <= m
<1> DEFINE R == {ss \in Nat \X Nat : ss[1] < ss[2]}
<1>1. IsWellFoundedOn(R, Nat)
  BY NatLessThanWellFounded, Zenon DEF OpToRel
<1>2. PICK n \in S : \A m \in S : ~(<<m, n>> \in R)
  <2> HIDE DEF R
  <2> QED BY <1>1, WFMin
<1>3. ASSUME NEW m \in S
      PROVE  n <= m
  <2>1. n \in Nat /\ m \in Nat
    OBVIOUS
  <2>2. ~(<<m, n>> \in R)
    BY <1>2, Zenon
  <2> QED
    BY <2>1, <2>2
<1> QED BY <1>3

\* What is bounded has a greatest element.
LEMMA BoundedHaveLast ==
    ASSUME NEW S \in SUBSET Nat, S # {}, NEW b \in Nat, \A n \in S : n <= b
    PROVE  \E n \in S : \A m \in S : m <= n
<1> DEFINE bounds == {c \in Nat : \A n \in S : n <= c}
<1>1. PICK c \in bounds : \A d \in bounds : c <= d
  BY NaturalsHaveFirst
<1>2. ASSUME c \notin S
      PROVE  FALSE
  <2>1. \A n \in S : n <= c - 1
    BY <1>2
  <2>2. PICK n \in S : n \in Nat /\ n <= c - 1
    BY <2>1
  <2>3. c - 1 \in bounds
    BY <2>1, <2>2
  <2> QED BY <1>1, <2>3
<1> QED BY <1>1, <1>2

\* Induction up to a bound, for a set: what is in it at 0, and at every number
\* whose predecessor is, is in it throughout.
LEMMA UpToBound ==
    ASSUME NEW L \in Nat, NEW P, 0 \in P, \A n \in 1..L : n - 1 \in P => n \in P
    PROVE  0..L \subseteq P
<1> DEFINE bad == {n \in 0..L : n \notin P}
<1> SUFFICES ASSUME bad # {}
             PROVE  FALSE
  OBVIOUS
<1>1. PICK n \in bad : \A m \in bad : n <= m
  <2>1. bad \in SUBSET Nat
    OBVIOUS
  <2> HIDE DEF bad
  <2> QED BY <2>1, NaturalsHaveFirst
<1>2. n \in 1..L
  BY <1>1
<1>3. n - 1 \in P
  BY <1>1, <1>2
<1> QED BY <1>1, <1>2, <1>3

-----------------------------------------------------------------------------
(***************************************************************************)
(* The admission of a singleton.                                           *)
(***************************************************************************)

AdmissionTypeOK ==
    /\ stage \in [Creations -> {"new", "listing", "admitted", "denied", "stored", "deleted"}]
    /\ overlap \subseteq Creations \X Creations

\* Requests that are under way together have overlapped, and so have one that
\* is admitted and one that is stored: what is stored keeps a request that
\* lists later from being admitted.
OverlapsAreNoted ==
    \A r, s \in Creations : r # s =>
        /\ r \in UnderWay /\ s \in UnderWay => <<r, s>> \in overlap
        /\ stage[r] = "admitted" /\ stage[s] = "stored"
             => <<r, s>> \in overlap /\ <<s, r>> \in overlap
        /\ stage[r] = "stored" /\ stage[s] = "stored" => <<r, s>> \in overlap

AdmissionInv == AdmissionTypeOK /\ OverlapsAreNoted

LEMMA AdmissionInitially == AdmissionInit => AdmissionInv
BY DEF AdmissionInit, AdmissionInv, AdmissionTypeOK, OverlapsAreNoted, UnderWay

LEMMA SubmitKeepsInv ==
    ASSUME AdmissionInv, NEW r \in Creations, Submit(r)
    PROVE  AdmissionInv'
<1>1. AdmissionTypeOK'
  BY DEF AdmissionInv, AdmissionTypeOK, Submit, UnderWay
<1>2. UnderWay' = UnderWay \union {r}
  BY DEF AdmissionInv, AdmissionTypeOK, Submit, UnderWay
<1>3. ASSUME NEW a \in Creations, NEW b \in Creations, a # b,
             a \in UnderWay', b \in UnderWay'
      PROVE  <<a, b>> \in overlap'
  BY <1>2, <1>3 DEF AdmissionInv, OverlapsAreNoted, Submit
<1>4. OverlapsAreNoted'
  BY <1>3 DEF AdmissionInv, AdmissionTypeOK, OverlapsAreNoted, Submit
<1> QED
  BY <1>1, <1>4 DEF AdmissionInv

LEMMA ValidateKeepsInv ==
    ASSUME AdmissionInv, NEW r \in Creations, ValidateSingletonCreation(r)
    PROVE  AdmissionInv'
<1>1. PICK to \in {"denied", "admitted"} :
        /\ stage' = [stage EXCEPT ![r] = to]
        /\ to = "admitted" => Existing = {}
  BY DEF ValidateSingletonCreation
<1>2. stage[r] = "listing" /\ overlap' = overlap
  BY DEF ValidateSingletonCreation
<1>3. AdmissionTypeOK'
  BY <1>1, <1>2 DEF AdmissionInv, AdmissionTypeOK
<1>4. UnderWay' \subseteq UnderWay
  BY <1>1, <1>2 DEF AdmissionInv, AdmissionTypeOK, UnderWay
<1>5. OverlapsAreNoted'
  BY <1>1, <1>2, <1>4 DEF AdmissionInv, AdmissionTypeOK, OverlapsAreNoted, Existing
<1> QED
  BY <1>3, <1>5 DEF AdmissionInv

LEMMA StoreKeepsInv ==
    ASSUME AdmissionInv, NEW r \in Creations, StoreSingleton(r)
    PROVE  AdmissionInv'
<1>1. UnderWay' \subseteq UnderWay /\ r \in UnderWay
  BY DEF AdmissionInv, AdmissionTypeOK, StoreSingleton, UnderWay
<1>2. ASSUME NEW s \in Creations, s # r, stage[s] = "admitted"
      PROVE  <<r, s>> \in overlap /\ <<s, r>> \in overlap
  BY <1>1, <1>2 DEF AdmissionInv, OverlapsAreNoted, UnderWay
<1>3. OverlapsAreNoted'
  BY <1>1, <1>2 DEF AdmissionInv, AdmissionTypeOK, OverlapsAreNoted, StoreSingleton
<1>4. AdmissionTypeOK'
  BY DEF AdmissionInv, AdmissionTypeOK, StoreSingleton
<1> QED
  BY <1>3, <1>4 DEF AdmissionInv

LEMMA DeleteKeepsInv ==
    ASSUME AdmissionInv, NEW r \in Creations, DeleteSingleton(r)
    PROVE  AdmissionInv'
BY DEF AdmissionInv, AdmissionTypeOK, OverlapsAreNoted, UnderWay, DeleteSingleton

\* Whatever creations there are, and however they interleave with the
\* webhook's answers and with deletions: only creations that were under way
\* at the same time leave more than one instance (singleton.go:31).
THEOREM OnlyOverlapsGetThrough == AdmissionSpec => []OnlyOverlapsDuplicate
<1>1. AdmissionInv /\ [AdmissionNext]_admissionVars => AdmissionInv'
  <2> SUFFICES ASSUME AdmissionInv, [AdmissionNext]_admissionVars
               PROVE  AdmissionInv'
    OBVIOUS
  <2>1. CASE UNCHANGED admissionVars
    BY <2>1 DEF AdmissionInv, AdmissionTypeOK, OverlapsAreNoted, UnderWay, admissionVars
  <2>2. CASE AdmissionNext
    BY <2>2, SubmitKeepsInv, ValidateKeepsInv, StoreKeepsInv, DeleteKeepsInv DEF AdmissionNext
  <2> QED
    BY <2>1, <2>2
<1>2. AdmissionInv => OnlyOverlapsDuplicate
  BY DEF AdmissionInv, OverlapsAreNoted, OnlyOverlapsDuplicate, Existing
<1> QED
  BY AdmissionInitially, <1>1, <1>2, PTL DEF AdmissionSpec

-----------------------------------------------------------------------------
(***************************************************************************)
(* TLS settings.                                                           *)
(***************************************************************************)

\* The kinds of cipher names a profile can list.
CipherNames == {"tls12", "tls13", "rc4", "unknown"}

LEMMA IntermediateIs ==
    Intermediate = [min |-> "1.2", ciphers |-> {"tls12", "tls13"}, groups |-> {}]
BY DEF Intermediate, TLSProfiles

LEMMA CiphersAreKnownKinds ==
    ASSUME NEW p, p.custom.ciphers \subseteq CipherNames
    PROVE  StrictProfileSpec(p).ciphers \subseteq CipherNames
<1>1. TLSError.ciphers \subseteq CipherNames /\ Intermediate.ciphers \subseteq CipherNames
  BY IntermediateIs DEF TLSError, CipherNames
<1>2. ASSUME NEW t \in DOMAIN TLSProfiles PROVE TLSProfiles[t].ciphers \subseteq CipherNames
  BY DEF TLSProfiles, CipherNames
<1> QED
  BY <1>1, <1>2 DEF StrictProfileSpec

\* Whatever profile a cluster has, the lenient settings are at least TLS 1.2
\* and offer a suite, none of them RC4 (profile.go:214).
THEOREM LenientSettingsAreNeverWeak ==
    ASSUME NEW p
    PROVE  LenientIsNeverWeak(p)
<1>1. Floored(p).min \in {"1.2", "1.3"}
  BY IntermediateIs DEF Floored, IsVersionSupported
<1>2. FromProfile(p).min = Floored(p).min
  BY <1>1 DEF FromProfile, MinVersionFromSpec, KnownTLSVersions
<1>3. CipherSuitesForMinVersion(Intermediate.ciphers, Intermediate.min) = {"tls12"}
  BY IntermediateIs DEF CipherSuitesForMinVersion
<1>4. /\ CipherSuitesFromSpec(Floored(p)) # {}
      /\ CipherSuitesFromSpec(Floored(p)) \subseteq {"tls12", "tls13"}
  BY <1>3 DEF CipherSuitesFromSpec, CipherSuitesForMinVersion
<1> QED
  BY <1>1, <1>2, <1>4 DEF LenientIsNeverWeak, FromProfile, IsVersionSupported

\* Whatever profile a cluster has, the strict settings are its own or an
\* error (profile.go:325).
THEOREM StrictSettingsAreTheClusters ==
    ASSUME NEW p
    PROVE  StrictIsTheCluster(p)
BY DEF StrictIsTheCluster, FromProfileStrict, MinVersionFromSpec, ValidStrictTLSProfile,
       CipherSuitesForMinVersion

\* Whatever profile a cluster has, the flags of operands and the
\* configuration of the manager's servers agree on whether it can be used, on
\* version and curves and, below TLS 1.3, on the suites (config.go:25).
THEOREM FlagsAndConfigAgree ==
    ASSUME NEW p, p.custom.ciphers \subseteq CipherNames
    PROVE  FlagsAgreeWithConfig(p)
<1> SUFFICES ASSUME StrictProfileSpec(p) # TLSError
             PROVE  OfServers(FromProfileStrict(p))
                        = ConfigFromProfileStrict(StrictProfileSpec(p))
  BY DEF FlagsAgreeWithConfig
<1> DEFINE spec == StrictProfileSpec(p)
<1>1. CASE ~ValidStrictTLSProfile(spec)
  <2>1. OfServers(TLSError) = TLSError
    BY DEF OfServers, TLSError
  <2> QED
    BY <1>1, <2>1 DEF FromProfileStrict, ConfigFromProfileStrict
<1>2. CASE ValidStrictTLSProfile(spec)
  <2>1. MinVersionFromSpec(spec) = spec.min
    BY <1>2 DEF ValidStrictTLSProfile, MinVersionFromSpec
  <2>2. spec.ciphers \subseteq CipherNames
    BY CiphersAreKnownKinds
  <2>3. spec.min # "1.3" =>
            CipherSuitesForMinVersion(spec.ciphers, spec.min)
                = FilterRC4(FilterTLS13(spec.ciphers)) \ {"unknown"}
    BY <2>2 DEF CipherSuitesForMinVersion, FilterRC4, FilterTLS13, CipherNames
  <2>4. FromProfileStrict(p) = [min |-> spec.min,
                                ciphers |-> CipherSuitesForMinVersion(spec.ciphers, spec.min),
                                groups |-> CurvePreferences(spec)]
    BY <1>2, <2>1 DEF FromProfileStrict
  <2>5. OfServers(FromProfileStrict(p)) =
            [min |-> spec.min,
             ciphers |-> IF spec.min = "1.3" THEN {}
                         ELSE CipherSuitesForMinVersion(spec.ciphers, spec.min),
             groups |-> CurvePreferences(spec)]
    BY <2>4 DEF OfServers
  <2> QED
    BY <1>2, <2>1, <2>3, <2>5 DEF ConfigFromProfileStrict, ConfigFromProfile
<1> QED
  BY <1>1, <1>2

\* The object that exists has a profile some administrator chose.
ChosenProfile ==
    /\ apiServer \in [served : BOOLEAN, exists : BOOLEAN,
                      profile : ClusterProfiles \union {[type |-> "", custom |-> NoSpec]},
                      adherence : Adherences \union {"NoOpinion"}]
    /\ apiServer.exists => apiServer.profile \in ClusterProfiles

TLSInv == ChosenProfile /\ FailsClosed

\* What is loaded from an object that could be read, under a policy to be
\* honoured, is its own profile, validated; every fallback says NoOpinion.
LEMMA LoadedIsStrict ==
    ASSUME ChosenProfile, NEW failed, failed = "" => apiServer.exists,
           LoadWithAdherence(failed).spec # TLSError,
           ShouldHonorClusterTLSProfile(LoadWithAdherence(failed).adherence)
    PROVE  LET result == LoadWithAdherence(failed)
           IN  /\ ValidStrictTLSProfile(result.spec)
               /\ Selected(result) = result.spec
               /\ \E p \in ClusterProfiles : result.spec = StrictProfileSpec(p)
<1> DEFINE result == LoadWithAdherence(failed)
<1>1. LoadFallback(failed).spec = TLSError \/ LoadFallback(failed).adherence = "NoOpinion"
  BY DEF LoadFallback, LoadFails, Fallback, NotLoaded
<1>2. failed = ""
  BY <1>1 DEF LoadWithAdherence, ShouldHonorClusterTLSProfile
<1>3. ShouldHonorClusterTLSProfile(apiServer.adherence)
  BY <1>2 DEF LoadWithAdherence
<1>4. /\ result.spec = StrictProfileSpec(apiServer.profile)
      /\ ValidStrictTLSProfile(result.spec)
  BY <1>2, <1>3 DEF LoadWithAdherence, LoadFails, NotLoaded
<1> QED
  BY <1>2, <1>4 DEF Selected, ChosenProfile

LEMMA StartKeepsInv ==
    ASSUME TLSInv, NEW failed, failed = "" => apiServer.exists, StartManager(failed)
    PROVE  TLSInv'
<1> DEFINE result == LoadWithAdherence(failed)
<1>1. ChosenProfile'
  BY DEF TLSInv, ChosenProfile, StartManager
<1>2. CASE UNCHANGED <<serving, loaded>>
  BY <1>1, <1>2 DEF TLSInv, FailsClosed
<1>3. CASE /\ result.spec # TLSError
           /\ serving' = ConfigFromProfileStrict(Selected(result))
           /\ loaded' = result
  BY <1>1, <1>3, LoadedIsStrict DEF TLSInv, FailsClosed
<1> QED
  BY <1>2, <1>3 DEF StartManager

\* Whatever profiles and policies administrators choose, however often they
\* change them, and however loading fails: a profile that was read under a
\* strict policy is served as it is or not at all (apiserver.go:119).
THEOREM StrictLoadsFailClosed == TLSSpec => []FailsClosed
<1>1. TLSInit => TLSInv
  BY DEF TLSInit, TLSInv, ChosenProfile, FailsClosed
<1>2. TLSInv /\ [TLSNext]_tlsVars => TLSInv'
  <2> SUFFICES ASSUME TLSInv, [TLSNext]_tlsVars
               PROVE  TLSInv'
    OBVIOUS
  <2>1. CASE ChangeAPIServer
    BY <2>1 DEF TLSInv, ChosenProfile, FailsClosed, ChangeAPIServer
  <2>2. CASE StartReads
    BY <2>2, StartKeepsInv DEF StartReads
  <2>3. CASE StartReadFails
    BY <2>3, StartKeepsInv DEF StartReadFails
  <2>4. CASE WatcherNotices
    BY <2>4 DEF TLSInv, ChosenProfile, FailsClosed, WatcherNotices
  <2>5. CASE UNCHANGED tlsVars
    BY <2>5 DEF TLSInv, ChosenProfile, FailsClosed, tlsVars
  <2> QED
    BY <2>1, <2>2, <2>3, <2>4, <2>5 DEF TLSNext
<1>3. TLSInv => FailsClosed
  BY DEF TLSInv
<1> QED
  BY <1>1, <1>2, <1>3, PTL DEF TLSSpec

-----------------------------------------------------------------------------
(***************************************************************************)
(* The decisions of deployers and collectors.                              *)
(***************************************************************************)

LEMMA RulesMatchAlike ==
    ASSUME NEW type, NEW rule
    PROVE  FwIsResourceMatchingRule(type, rule) <=> IsResourceMatchingRule(type, rule)
BY DEF FwIsResourceMatchingRule, IsResourceMatchingRule

LEMMA AuthorizedAlike ==
    ASSUME NEW apis, NEW rules, NEW verb
    PROVE  FwAuthorizedResourcesForVerbs(apis, rules, {verb})
             = ComputeAuthorizedResources(apis, rules, verb)
<1>1. ASSUME NEW type
      PROVE  FwHasPermissions(type, rules, {verb}) <=> HasPermissions(type, rules, verb)
  BY RulesMatchAlike DEF FwHasPermissions, HasPermissions
<1> QED BY <1>1 DEF FwAuthorizedResourcesForVerbs, ComputeAuthorizedResources

LEMMA AliasKindsAlike ==
    ASSUME NEW types, NEW group
    PROVE  FwAliasKindsInGroup(types, group) = AliasKindsInGroup(types, group)
BY DEF FwAliasKindsInGroup, AliasKindsInGroup

\* Whatever is served and permitted, gc action and collector scan the same
\* types (actions/gc/openshift_rbac.go:68).
THEOREM CollectorsAgree ==
    ASSUME NEW apis, NEW rules
    PROVE  CollectorMirrorsAgree(apis, rules)
<1>1. ASSUME NEW deletable, NEW listable
      PROVE  FwPreferKubernetesRBACResources(deletable, listable)
               = PreferKubernetesRBACResources(deletable, listable)
  BY AliasKindsAlike DEF FwPreferKubernetesRBACResources, PreferKubernetesRBACResources
<1> QED
  BY <1>1, AuthorizedAlike DEF CollectorMirrorsAgree, FwSelectDeletableTypes, SelectDeletableTypes

\* Whatever is served and permitted, an aliased kind that can be scanned is
\* scanned through exactly one of its views (openshift_rbac.go:70).
THEOREM AliasedKindsAreScannedOnce ==
    ASSUME NEW apis, NEW rules,
           \A t \in DOMAIN apis : t = [group |-> t.group, kind |-> t.kind]
    PROVE  AliasesScannedOnce(apis, rules)
<1> DEFINE usable(kind) ==
             {t \in DOMAIN apis : /\ t.kind = kind /\ t.group \in {KubernetesRBAC, OpenShiftRBAC}
                                  /\ \A v \in {"list", "delete"} :
                                        v \in apis[t] /\ HasPermissions(t, rules, v)}
           deletable == ComputeAuthorizedResources(apis, rules, "delete")
           listable == ComputeAuthorizedResources(apis, rules, "list")
<1> SUFFICES ASSUME NEW kind \in OpenShiftRBACAliasKinds, usable(kind) # {}
             PROVE  Cardinality(usable(kind) \intersect ScannedTypes(apis, rules)) = 1
  BY Zenon DEF AliasesScannedOnce
<1> DEFINE kubernetes == [group |-> KubernetesRBAC, kind |-> kind]
           openshift == [group |-> OpenShiftRBAC, kind |-> kind]
           both(group) == AliasKindsInGroup(deletable, group)
                            \intersect AliasKindsInGroup(listable, group)
<1>1. KubernetesRBAC # OpenShiftRBAC /\ kind \notin Unremovables
  BY DEF KubernetesRBAC, OpenShiftRBAC, OpenShiftRBACAliasKinds, Unremovables
<1>2. usable(kind) \subseteq {kubernetes, openshift}
  OBVIOUS
<1>3. /\ kubernetes.group = KubernetesRBAC /\ kubernetes.kind = kind
      /\ openshift.group = OpenShiftRBAC /\ openshift.kind = kind
  OBVIOUS
<1>4. ASSUME NEW t \in {kubernetes, openshift}
      PROVE  /\ t \in deletable /\ t \in listable <=> t \in usable(kind)
             /\ t \in usable(kind) => kind \in both(t.group)
             /\ kind \in both(t.group) => t \in usable(kind)
  <2>1. t \in deletable /\ t \in listable <=> t \in usable(kind)
    BY <1>3 DEF ComputeAuthorizedResources
  <2>2. t \in usable(kind) => kind \in both(t.group)
    BY <1>3, <2>1 DEF AliasKindsInGroup
  <2>3. ASSUME kind \in both(t.group)
        PROVE  t \in usable(kind)
    <3>1. PICK d \in deletable : d.group = t.group /\ d.kind = kind
      BY <2>3 DEF AliasKindsInGroup
    <3>2. PICK l \in listable : l.group = t.group /\ l.kind = kind
      BY <2>3 DEF AliasKindsInGroup
    <3>3. d \in DOMAIN apis /\ l \in DOMAIN apis
      BY DEF ComputeAuthorizedResources
    <3>4. d = t /\ l = t
      BY <1>3, <3>1, <3>2, <3>3
    <3> QED BY <2>1, <3>4
  <2> QED BY <2>1, <2>2, <2>3
<1>5. ASSUME NEW t
      PROVE  t \in ScannedTypes(apis, rules) <=>
               /\ t \in deletable /\ t.kind \notin Unremovables
               /\ ~(t.group = OpenShiftRBAC /\ t.kind \in both(KubernetesRBAC))
               /\ ~(/\ t.group = KubernetesRBAC
                    /\ t.kind \in (AliasKindsInGroup(deletable, KubernetesRBAC)
                                   \ both(KubernetesRBAC)) \intersect both(OpenShiftRBAC))
  BY DEF ScannedTypes, SelectDeletableTypes, PreferKubernetesRBACResources
<1> HIDE DEF usable, deletable, listable, both, kubernetes, openshift
<1>6. CASE kubernetes \in usable(kind)
  <2>1. usable(kind) \intersect ScannedTypes(apis, rules) = {kubernetes}
    BY <1>1, <1>2, <1>3, <1>4, <1>5, <1>6
  <2> QED BY <2>1, FS_Singleton
<1>7. CASE kubernetes \notin usable(kind)
  <2>1. openshift \in usable(kind) /\ kind \notin both(KubernetesRBAC)
    BY <1>2, <1>3, <1>4, <1>7
  <2>2. usable(kind) \intersect ScannedTypes(apis, rules) = {openshift}
    BY <1>1, <1>2, <1>3, <1>4, <1>5, <1>7, <2>1
  <2> QED BY <2>2, FS_Singleton
<1> QED BY <1>6, <1>7

\* Resources have quantities, which are not null.
IsQuantities(q) == q = [x \in DOMAIN q |-> q[x]] /\ \A x \in DOMAIN q : q[x] # Null

IsDeployment(d) ==
    /\ d = [replicas |-> d.replicas, containers |-> d.containers]
    /\ d.containers = [c \in DOMAIN d.containers |-> d.containers[c]]
    /\ \A c \in DOMAIN d.containers : IsQuantities(d.containers[c])

\* Two functions with the same domain and values are the same.
LEMMA SameQuantities ==
    ASSUME NEW q, NEW r, q = [x \in DOMAIN q |-> q[x]], r = [x \in DOMAIN r |-> r[x]],
           DOMAIN q = DOMAIN r, \A x \in DOMAIN q : q[x] = r[x]
    PROVE  q = r
OBVIOUS

\* What a revert leaves of a container's resources is among the manifest's.
LEMMA RevertedDomain ==
    ASSUME NEW manifest, NEW deployed, IsQuantities(manifest), IsQuantities(deployed)
    PROVE  DOMAIN StrategicMerge(deployed, ContainerPatch(manifest, deployed))
             \subseteq DOMAIN manifest
<1> DEFINE patch == ContainerPatch(manifest, deployed)
<1> SUFFICES DOMAIN StrategicMerge(deployed, patch) \subseteq DOMAIN manifest
  OBVIOUS
<1>0. DOMAIN NoQuantities = {}
  BY DEF NoQuantities
<1>1. CASE deployed = NoQuantities \/ manifest = deployed
  <2>1. patch = NoQuantities
    BY <1>1 DEF ContainerPatch
  <2> HIDE DEF patch
  <2> QED BY <1>0, <1>1, <2>1 DEF StrategicMerge
<1>2. CASE deployed # NoQuantities /\ manifest # deployed /\ manifest = NoQuantities
  <2>1. patch = [x \in DOMAIN deployed |-> Null]
    BY <1>2 DEF ContainerPatch
  <2> HIDE DEF patch
  <2> QED BY <2>1 DEF StrategicMerge
<1>3. CASE deployed # NoQuantities /\ manifest # deployed /\ manifest # NoQuantities
  <2>1. patch = [x \in DOMAIN manifest \union DOMAIN deployed |->
                   IF x \in DOMAIN manifest THEN manifest[x] ELSE Null]
    BY <1>3 DEF ContainerPatch, ResourcesPatch
  <2> HIDE DEF patch
  <2> QED BY <2>1 DEF StrategicMerge, IsQuantities
<1> QED BY <1>1, <1>2, <1>3

\* For all Deployments: a revert and the apply that follows leave exactly the
\* manifest's resources and replicas (drift.go:32).
THEOREM DriftIsAlwaysReverted ==
    ASSUME NEW desired, NEW live, IsDeployment(desired), IsDeployment(live)
    PROVE  DriftIsReverted(desired, live)
<1> DEFINE reverted == RevertDeploymentDrift(desired, live)
           after == ForceApply(reverted, desired)
<1>1. after.replicas = desired.replicas
  BY DEF ForceApply, RevertDeploymentDrift
<1>2. ASSUME NEW c \in DOMAIN desired.containers
      PROVE  after.containers[c] = desired.containers[c]
  <2> DEFINE new == desired.containers[c]
             old == IF c \in DOMAIN live.containers
                    THEN StrategicMerge(live.containers[c], ContainerPatch(new, live.containers[c]))
                    ELSE NoQuantities
  <2>1. after.containers[c] = [x \in DOMAIN old \union DOMAIN new |->
                                 IF x \in DOMAIN new THEN new[x] ELSE old[x]]
    BY DEF ForceApply, RevertDeploymentDrift
  <2>2. IsQuantities(new)
    BY DEF IsDeployment
  <2>3. DOMAIN old \subseteq DOMAIN new
    <3>1. CASE c \in DOMAIN live.containers
      BY <2>2, <3>1, RevertedDomain DEF IsDeployment
    <3>2. CASE c \notin DOMAIN live.containers
      BY <3>2 DEF NoQuantities
    <3> QED BY <3>1, <3>2
  <2> HIDE DEF new, old, after
  <2>4. after.containers[c] = [x \in DOMAIN new |-> new[x]]
    BY <2>1, <2>3
  <2> QED BY <2>2, <2>4 DEF IsQuantities, new
<1> QED BY <1>1, <1>2 DEF DriftIsReverted

\* For all Deployments: a merge and the apply that follows keep what users
\* have set on containers the manifest still has (merge.go:23).
THEOREM TuningIsAlwaysKept ==
    ASSUME NEW desired, NEW live, IsDeployment(desired), IsDeployment(live)
    PROVE  TuningIsKept(desired, live)
<1> DEFINE merged == MergeDeployments(live, desired)
           after == ForceApply(live, merged)
<1>1. after.replicas = live.replicas
  BY DEF ForceApply, MergeDeployments
<1>2. ASSUME NEW c \in DOMAIN desired.containers \intersect DOMAIN live.containers
      PROVE  after.containers[c] = live.containers[c]
  <2> DEFINE q == live.containers[c]
  <2>1. after.containers[c] = [x \in DOMAIN q \union DOMAIN q |->
                                 IF x \in DOMAIN q THEN q[x] ELSE q[x]]
    BY DEF ForceApply, MergeDeployments
  <2>2. IsQuantities(q)
    BY DEF IsDeployment
  <2> HIDE DEF q, after
  <2> QED BY <2>1, <2>2 DEF IsQuantities, q
<1> QED BY <1>1, <1>2 DEF TuningIsKept

\* Both build the same patch of a container's resources.
LEMMA PatchesAgree ==
    ASSUME NEW manifest, NEW deployed
    PROVE  FwContainerPatch(manifest, deployed) = ContainerPatch(manifest, deployed)
<1>1. FwResourcesPatch(manifest, deployed) = ResourcesPatch(manifest, deployed)
  BY DEF FwResourcesPatch, ResourcesPatch
<1> QED BY <1>1 DEF FwContainerPatch, ContainerPatch

\* For all Deployments: both deployers do the same with one that users have
\* changed, whether it is merged, applied without resources or reverted
\* (action_deploy_merge_deployment.go:28).
THEOREM DeployersAgree ==
    ASSUME NEW desired, NEW live, IsDeployment(desired), IsDeployment(live)
    PROVE  DeploymentMirrorsAgree(desired, live)
<1>1. FwMergeDeployments(live, desired) = MergeDeployments(live, desired)
  BY DEF FwMergeDeployments, MergeDeployments
<1>2. FwRemoveDeploymentsResources(desired) = RemoveDeploymentResources(desired)
  <2> DEFINE r == desired.replicas
             cs == desired.containers
             none == [c \in DOMAIN cs |-> NoQuantities]
  <2>1. desired = [replicas |-> r, containers |-> cs]
    BY DEF IsDeployment
  <2>2. RemoveDeploymentResources(desired) = [replicas |-> 0, containers |-> none]
    BY DEF RemoveDeploymentResources
  <2>3. FwRemoveDeploymentsResources(desired) =
          [desired EXCEPT !.replicas = 0, !.containers = none]
    BY DEF FwRemoveDeploymentsResources
  <2> HIDE DEF r, cs, none
  <2> QED BY <2>1, <2>2, <2>3
<1>3. FwRevertManagedDeploymentDrift(desired, live) = RevertDeploymentDrift(desired, live)
  <2>1. ASSUME NEW c \in DOMAIN live.containers
        PROVE  StrategicMerge(live.containers[c], NoQuantities) = live.containers[c]
    <3> DEFINE q == live.containers[c]
    <3>1. IsQuantities(q)
      BY DEF IsDeployment
    <3> HIDE DEF q
    <3>2. StrategicMerge(q, NoQuantities) = [x \in DOMAIN q |-> q[x]]
      BY DEF StrategicMerge, NoQuantities
    <3> QED BY <3>1, <3>2 DEF IsQuantities, q
  <2> QED BY <2>1, PatchesAgree DEF FwRevertManagedDeploymentDrift, RevertDeploymentDrift
<1> QED BY <1>1, <1>2, <1>3 DEF DeploymentMirrorsAgree

-----------------------------------------------------------------------------
(***************************************************************************)
(* What the cluster is.                                                    *)
(***************************************************************************)

\* Whatever tries fail and whenever the context ends, HasCRD fails or tells
\* whether the definition was established by the last try before that
\* (crd.go:89).
THEOREM EstablishedIsAlwaysFound ==
    ASSUME NEW k, k.establishedAt \in Nat \ {0}
    PROVE  EstablishedIsFound(k)
<1> SUFFICES ASSUME NEW failing \in SUBSET (1 .. CRDTries), NEW endsAt \in 1 .. (CRDTries + 1)
             PROVE  HasCRD(k, failing, endsAt)
                        \in {Failure, IF k.establishedAt < endsAt THEN "yes" ELSE "no"}
  BY DEF EstablishedIsFound
<1> DEFINE last == {n \in 1 .. CRDTries : n < endsAt /\ (n >= k.establishedAt \/ n \in failing)}
<1>1. HasCRD(k, failing, endsAt) =
        IF last = {} THEN "no"
        ELSE IF \E n \in failing : \A l \in last : n <= l THEN Failure ELSE "yes"
  BY DEF HasCRD
<1>2. last \subseteq Nat
  BY DEF CRDTries
<1>3. CASE last = {}
  <2>1. ~(k.establishedAt < endsAt)
    <3> SUFFICES ASSUME k.establishedAt < endsAt
                 PROVE  k.establishedAt \in last
      BY <1>3
    <3> QED BY DEF CRDTries
  <2>2. HasCRD(k, failing, endsAt) = "no"
    BY <1>1, <1>3
  <2> QED BY <2>1, <2>2
<1>4. CASE last # {} /\ \E n \in failing : \A l \in last : n <= l
  <2> HIDE DEF last
  <2>1. HasCRD(k, failing, endsAt) = Failure
    BY <1>1, <1>4, Zenon
  <2> QED BY <2>1
<1>5. CASE last # {} /\ ~\E n \in failing : \A l \in last : n <= l
  <2>1. PICK n \in last : \A l \in last : n <= l
    BY <1>2, <1>5, NaturalsHaveFirst
  <2>2. n \notin failing
    BY <1>5, <2>1
  <2>3. k.establishedAt < endsAt
    BY <2>1, <2>2 DEF CRDTries
  <2> HIDE DEF last
  <2>4. HasCRD(k, failing, endsAt) = "yes"
    BY <1>1, <1>5, Zenon
  <2> QED BY <2>3, <2>4
<1> QED BY <1>3, <1>4, <1>5

\* Each answer is the one of a cluster all of whose reads succeed, or an error.
LEMMA PartsAreTruthful ==
    ASSUME NEW k, NEW fails, NEW pkg
    PROVE  /\ DetectManagedRhoai(k, fails) \in {Failure, DetectManagedRhoai(k, {})}
           /\ ViaOperatorCondition(k, fails, pkg) \in {Failure, ViaOperatorCondition(k, {}, pkg)}
           /\ SubscriptionRequests(k, fails, pkg) \in {Failure, SubscriptionRequests(k, {}, pkg)}
           /\ ClusterExtensionInstallsPackage(k, fails, pkg)
                \in {Failure, ClusterExtensionInstallsPackage(k, {}, pkg)}
           /\ OperatorInstalledViaClusterExtension(k, fails, pkg)
                \in {Failure, OperatorInstalledViaClusterExtension(k, {}, pkg)}
<1>1. \A name, served, exists :
         /\ Lookup(name, served, exists, fails) \in {Failure, Lookup(name, served, exists, {})}
         /\ Lookup(name, served, exists, {}) # Failure
  BY DEF Lookup, Failure, NoMatch
<1>2. ClusterCatalogExists(k, fails) \in {Failure, ClusterCatalogExists(k, {})}
  BY <1>1 DEF ClusterCatalogExists
<1>3. DetectManagedRhoai(k, fails) \in {Failure, DetectManagedRhoai(k, {})}
  BY <1>1, <1>2 DEF DetectManagedRhoai, Failure
<1>4. ViaOperatorCondition(k, fails, pkg) \in {Failure, ViaOperatorCondition(k, {}, pkg)}
  BY DEF ViaOperatorCondition
<1>5. ClusterExtensionInstallsPackage(k, fails, pkg)
        \in {Failure, ClusterExtensionInstallsPackage(k, {}, pkg)}
  BY DEF ClusterExtensionInstallsPackage
<1>6. OperatorInstalledViaClusterExtension(k, fails, pkg)
        \in {Failure, OperatorInstalledViaClusterExtension(k, {}, pkg)}
  BY DEF OperatorInstalledViaClusterExtension
<1>7. SubscriptionRequests(k, fails, pkg) \in {Failure, SubscriptionRequests(k, {}, pkg)}
  BY DEF SubscriptionRequests
<1> QED BY <1>3, <1>4, <1>5, <1>6, <1>7

\* Whatever a cluster has and whichever reads of it fail: every answer is the
\* one it would be without failures, or an error (platform.go:88, olm.go:68).
THEOREM DetectionIsAlwaysTruthful ==
    ASSUME NEW k, NEW fails
    PROVE  DetectionIsTruthful(k, fails)
<1> USE DEF Failure
<1>1. DetectSelfManaged(k, fails) \in {Failure, DetectSelfManaged(k, {})}
  BY PartsAreTruthful DEF DetectSelfManaged
<1>2. ASSUME NEW type
      PROVE  DetectPlatform(k, fails, type) \in {Failure, DetectPlatform(k, {}, type)}
  BY <1>1, PartsAreTruthful DEF DetectPlatform
<1>3. OperatorExists(k, fails, Rhods) \in {Failure, OperatorExists(k, {}, Rhods)}
  BY PartsAreTruthful DEF OperatorExists
<1>4. OperatorPackageRequested(k, fails, Rhods)
        \in {Failure, OperatorPackageRequested(k, {}, Rhods)}
  BY PartsAreTruthful DEF OperatorPackageRequested, NoMatch
<1>5. DetectClusterInfo(k, fails) \in {NoInfo, DetectClusterInfo(k, {})}
  BY DEF DetectClusterInfo, IsFipsEnabled
<1>6. IsSingleNodeCluster(k, fails) \in {Failure, IsSingleNodeCluster(k, {})}
  BY DEF IsSingleNodeCluster
<1> QED
  BY <1>2, <1>3, <1>4, <1>5, <1>6, Zenon DEF DetectionIsTruthful

\* An extension that is installed is found by a search for those that are
\* requested: what it may stumble over comes first for both.
LEMMA InstalledIsRequested ==
    ASSUME NEW k, DOMAIN k.extensions \subseteq Nat,
           OperatorInstalledViaClusterExtension(k, {}, Rhods) = "yes"
    PROVE  ClusterExtensionInstallsPackage(k, {}, Rhods) = "yes"
<1> DEFINE exts == k.extensions
           unreadable == UnreadableExtensions(k)
           requested == {n \in DOMAIN exts : exts[n].catalog /\ exts[n].package = Rhods}
           installed == {n \in DOMAIN exts : exts[n].catalog /\ exts[n].package = Rhods
                                             /\ exts[n].installed}
           decides(S) == unreadable \union S
           first(S) == {n \in decides(S) : \A m \in decides(S) : n <= m}
<1>1. /\ OperatorInstalledViaClusterExtension(k, {}, Rhods) =
           (IF ~k.olm1 THEN NoMatch ELSE FirstDeciding(unreadable, installed))
      /\ ClusterExtensionInstallsPackage(k, {}, Rhods) =
           (IF ~k.olm1 THEN NoMatch ELSE FirstDeciding(unreadable, requested))
  BY Zenon DEF OperatorInstalledViaClusterExtension, ClusterExtensionInstallsPackage
<1>2. \A S : FirstDeciding(unreadable, S) = IF first(S) = {} THEN "no"
                                            ELSE IF first(S) \subseteq unreadable THEN Failure
                                            ELSE "yes"
  BY DEF FirstDeciding
<1>3. NoMatch # "yes" /\ "no" # "yes" /\ Failure # "yes"
  BY DEF NoMatch, Failure
<1>4. unreadable \subseteq Nat /\ requested \subseteq Nat
  BY DEF UnreadableExtensions
<1>5. installed \subseteq requested
  OBVIOUS
<1> HIDE DEF exts, unreadable, requested, installed
<1>6. k.olm1 /\ first(installed) # {} /\ ~(first(installed) \subseteq unreadable)
  BY <1>1, <1>2, <1>3, Zenon
<1>7. PICK i \in first(installed) : i \notin unreadable
  BY <1>6
<1>8. decides(requested) # {} /\ decides(requested) \subseteq Nat
  BY <1>4, <1>5, <1>7
<1>9. PICK n \in decides(requested) : \A m \in decides(requested) : n <= m
  BY <1>8, NaturalsHaveFirst
<1>10. n \in first(requested)
  BY <1>9
<1>11. n \notin unreadable
  <2> SUFFICES ASSUME n \in unreadable
               PROVE  FALSE
    OBVIOUS
  <2>1. n \in decides(installed) /\ i \in decides(requested)
    BY <1>5, <1>7
  <2>2. n <= i /\ i <= n /\ n \in Nat /\ i \in Nat
    BY <1>4, <1>5, <1>7, <1>9, <2>1
  <2> QED BY <1>7, <2>2
<1>12. first(requested) # {} /\ ~(first(requested) \subseteq unreadable)
  BY <1>10, <1>11
<1> QED BY <1>1, <1>2, <1>6, <1>12, Zenon

\* Whatever a cluster has: where the operator is found installed, the platform
\* is not taken for OpenDataHub, and one that is installed as an extension is
\* found requested (platform.go:102).
THEOREM DetectionsAlwaysAgree ==
    ASSUME NEW k, DOMAIN k.extensions \subseteq Nat
    PROVE  DetectionsAgree(k)
<1> USE DEF Failure, NoMatch
<1>1. ASSUME OperatorInstalledViaClusterExtension(k, {}, Rhods) = "yes"
      PROVE  OperatorPackageRequested(k, {}, Rhods) = "yes"
  BY <1>1, InstalledIsRequested DEF OperatorPackageRequested
<1>2. ASSUME OperatorExists(k, {}, Rhods) = "yes"
      PROVE  DetectPlatform(k, {}, "") \in {"SelfManagedRHOAI", "ManagedRHOAI", Failure}
  <2>1. \/ ViaOperatorCondition(k, {}, Rhods) = "yes"
        \/ OperatorInstalledViaClusterExtension(k, {}, Rhods) = "yes"
    BY <1>2 DEF OperatorExists
  <2>2. DetectSelfManaged(k, {}) \in {"SelfManagedRHOAI", Failure}
    BY <2>1, InstalledIsRequested DEF DetectSelfManaged
  <2>3. \/ DetectPlatform(k, {}, "") = "ManagedRHOAI"
        \/ DetectPlatform(k, {}, "") = Failure
        \/ DetectPlatform(k, {}, "") = DetectSelfManaged(k, {})
    BY DEF DetectPlatform
  <2> QED BY <2>2, <2>3
<1> QED BY <1>1, <1>2 DEF DetectionsAgree

-----------------------------------------------------------------------------
(***************************************************************************)
(* The runs of the flakiness tool.                                         *)
(***************************************************************************)

\* Every place of a sorted history is that of one of the runs.
LEMMA SortedRunsAreRuns ==
    ASSUME NEW N \in Nat, NEW S \in SUBSET (1..N), NEW k \in 1..Cardinality(S)
    PROVE  SortedRun(S, k) \in S
<1> DEFINE upTo(n) == {m \in S : m <= n}
           late == {n \in S : Cardinality(upTo(n)) >= k}
<1>0. \A m \in S : m \in Nat /\ m <= N
  OBVIOUS
<1>1. IsFiniteSet(S) /\ Cardinality(S) \in Nat
  <2>1. IsFiniteSet(1..N)
    BY FS_Interval
  <2>2. IsFiniteSet(S)
    BY <2>1, FS_Subset
  <2> QED BY <2>2, FS_CardinalityType
<1> k \in Nat /\ 1 <= k /\ k <= Cardinality(S)
  BY <1>1
<1>2. ASSUME NEW n
      PROVE  IsFiniteSet(upTo(n)) /\ Cardinality(upTo(n)) \in Nat
  BY <1>1, FS_Subset, FS_CardinalityType
<1>3. late # {}
  <2>1. S # {}
    BY <1>1, FS_EmptySet
  <2>2. PICK n \in S : \A m \in S : m <= n
    BY <1>0, <2>1, BoundedHaveLast
  <2>3. upTo(n) = S
    BY <2>2
  <2> QED BY <1>1, <2>3
<1>4. PICK n \in late : \A m \in late : n <= m
  <2>1. late \in SUBSET Nat
    BY <1>0
  <2> HIDE DEF late
  <2> QED BY <1>3, <2>1, NaturalsHaveFirst
<1>5. ASSUME Cardinality(upTo(n)) # k
      PROVE  FALSE
  <2> DEFINE before == upTo(n) \ {n}
  <2>1. n \in S /\ n \in Nat /\ n <= N /\ Cardinality(upTo(n)) >= k
    BY <1>4
  <2>2. n \in upTo(n)
    BY <2>1
  <2>3. Cardinality(upTo(n)) - 1 >= k
    <3> HIDE DEF upTo
    <3> QED BY <1>2, <1>5, <2>1
  <2>4. IsFiniteSet(before) /\ Cardinality(before) = Cardinality(upTo(n)) - 1
    <3> HIDE DEF upTo
    <3> QED BY <1>2, <2>2, FS_RemoveElement
  <2>5. before # {}
    <3> HIDE DEF before
    <3> QED BY <2>3, <2>4, FS_EmptySet
  <2>6. before \in SUBSET Nat /\ \A m \in before : m <= N
    BY <1>0
  <2>7. PICK p \in before : \A m \in before : m <= p
    <3> HIDE DEF before
    <3> QED BY <2>5, <2>6, BoundedHaveLast
  <2>8. p < n /\ p \in S /\ p \in Nat
    BY <2>1, <2>7
  <2>9. upTo(p) = before
    <3>1. ASSUME NEW m \in S, m <= p
          PROVE  m <= n /\ m # n
      BY <1>0, <2>1, <2>8, <3>1
    <3> QED BY <2>7, <3>1
  <2>10. Cardinality(upTo(p)) >= k
    <3> HIDE DEF before, upTo
    <3> QED BY <2>3, <2>4, <2>9
  <2>11. p \in late
    <3> HIDE DEF upTo
    <3> QED BY <2>8, <2>10
  <2> QED
    <3> HIDE DEF late
    <3> QED BY <1>4, <2>1, <2>8, <2>11
<1> QED BY <1>5 DEF SortedRun

\* A test that is found flaky has failed and has passed.
LEMMA FlakyHasBoth ==
    ASSUME NEW n \in Nat, NEW h \in [1..n -> BOOLEAN], NEW minRuns,
           AnalyzeWith(h, minRuns) = "flaky"
    PROVE  (\E k \in 1..n : h[k]) /\ (\E k \in 1..n : ~h[k])
<1>1. Failures(h) # 0 /\ Failures(h) # Len(h)
  BY DEF AnalyzeWith
<1>2. \E k \in 1..n : h[k]
  BY <1>1, FS_EmptySet DEF Failures
<1>3. ASSUME \A k \in 1..n : h[k]
      PROVE  FALSE
  <2>1. {k \in DOMAIN h : h[k]} = 1..n
    BY <1>3
  <2>2. Len(h) = n
    OBVIOUS
  <2>3. Cardinality(1..n) = n
    BY FS_Interval
  <2> QED BY <1>1, <2>1, <2>2, <2>3 DEF Failures
<1> QED BY <1>2, <1>3

\* A test the builds have seen fail and pass.
Earned(t) ==
    /\ t \notin ExcludedTests
    /\ \E n \in DOMAIN builds : Failed(builds[n][t])
    /\ \E n \in DOMAIN builds : builds[n][t] = "pass"

ToolTypeOK ==
    /\ builds \in Seq(BuildResults)
    /\ repo \in [Tests -> {"no", "unfiled", "filed"}]
    /\ toolAt \in {"idle", "scrape", "file", "push"}
    /\ entries \in [Tests -> {"no", "unfiled", "filed", "failed"}]
    /\ tickets \in [Tests -> Nat] /\ lapses \in [Tests -> Nat]

Quarantined(t) == repo[t] # "no" \/ entries[t] # "no"
Ticketed(t) == repo[t] = "filed" \/ entries[t] = "filed"

\* What a run works on is as well founded as what is published.  A test whose
\* ticket is still to be filed has none in the repository, and what is beyond
\* the lapses is the ticket that is on file, there or in the run.
ToolInv ==
    /\ ToolTypeOK
    /\ \A t \in Tests : Quarantined(t) => Earned(t)
    /\ toolAt \in {"idle", "scrape"} => entries = Nothing
    /\ \A t \in Tests : entries[t] \in {"unfiled", "failed"} => repo[t] # "filed"
    /\ \A t \in Tests : tickets[t] <= lapses[t] + (IF Ticketed(t) THEN 1 ELSE 0)

\* Whichever artifacts were read, what is quarantined has been earned.
LEMMA QuarantinedIsEarned ==
    ASSUME ToolTypeOK, NEW read \in SUBSET DOMAIN builds, NEW t \in Tests,
           IsQuarantined(t, read)
    PROVE  Earned(t)
<1> DEFINE ran == {n \in read : Analyzable(builds[n][t]) /\ n > Len(builds) - WindowBuilds}
           count == Cardinality(ran)
           h == [k \in 1..count |-> Failed(builds[SortedRun(ran, k)][t])]
<1>1. /\ t \notin ExcludedTests
      /\ AnalyzeWith(h, MinRuns) = "flaky"
  BY DEF IsQuarantined, ShouldQuarantine, HistoryOf
<1>2. Len(builds) \in Nat /\ DOMAIN builds = 1..Len(builds) /\ ran \subseteq 1..Len(builds)
  BY DEF ToolTypeOK
<1>3. count \in Nat
  <2>1. IsFiniteSet(1..Len(builds))
    BY <1>2, FS_Interval
  <2> HIDE DEF ran
  <2>2. IsFiniteSet(ran)
    BY <1>2, <2>1, FS_Subset
  <2> QED BY <2>2, FS_CardinalityType
<1>4. \A k \in 1..count : SortedRun(ran, k) \in ran
  BY <1>2, SortedRunsAreRuns
<1>5. h \in [1..count -> BOOLEAN]
  BY DEF Failed
<1>6. (\E k \in 1..count : h[k]) /\ (\E k \in 1..count : ~h[k])
  <2> HIDE DEF h, count
  <2> QED BY <1>1, <1>3, <1>5, FlakyHasBoth
<1>7. ASSUME NEW k \in 1..count
      PROVE  LET n == SortedRun(ran, k)
             IN  n \in DOMAIN builds /\ Analyzable(builds[n][t]) /\ h[k] = Failed(builds[n][t])
  BY <1>4
<1>8. \A o : Analyzable(o) /\ ~Failed(o) => o = "pass"
  BY DEF Analyzable, Failed
<1> HIDE DEF h, count, ran
<1> QED BY <1>1, <1>6, <1>7, <1>8 DEF Earned

\* What has been earned stays so: builds are only added.
LEMMA EarnedStays ==
    ASSUME ToolTypeOK, NewBuild \/ UNCHANGED builds, NEW t, Earned(t)
    PROVE  Earned(t)'
<1>1. CASE NewBuild
  <2>1. PICK r \in BuildResults : builds' = Append(builds, r)
    BY <1>1 DEF NewBuild
  <2>2. \A n \in DOMAIN builds : n \in DOMAIN builds' /\ builds'[n] = builds[n]
    BY <2>1 DEF ToolTypeOK
  <2> QED BY <2>2 DEF Earned
<1>2. CASE UNCHANGED builds
  BY <1>2 DEF Earned
<1> QED BY <1>1, <1>2

LEMMA ToolInitially == ToolInit => ToolInv
<1> SUFFICES ASSUME ToolInit
             PROVE  ToolInv
  OBVIOUS
<1>1. ToolTypeOK
  BY DEF ToolInit, ToolTypeOK, Nothing
<1>2. \A t \in Tests : ~Quarantined(t) /\ tickets[t] = 0 /\ lapses[t] = 0
  BY DEF ToolInit, Quarantined, Nothing
<1> QED BY <1>1, <1>2 DEF ToolInv, ToolInit, Nothing

LEMMA NewBuildKeepsToolInv ==
    ASSUME ToolInv, NewBuild
    PROVE  ToolInv'
<1>1. ToolTypeOK'
  BY DEF ToolInv, ToolTypeOK, NewBuild
<1>2. \A t \in Tests : Earned(t) => Earned(t)'
  BY EarnedStays DEF ToolInv
<1> QED BY <1>1, <1>2 DEF ToolInv, NewBuild, Quarantined, Ticketed, Nothing

LEMMA ScrapeKeepsToolInv ==
    ASSUME ToolInv, NEW read \in SUBSET DOMAIN builds, NEW counted, Scrape(read, counted)
    PROVE  ToolInv'
<1>1. \A t \in Tests : Earned(t) => Earned(t)'
  BY EarnedStays DEF ToolInv, Scrape
<1>2. entries = Nothing /\ toolAt = "scrape"
  BY DEF ToolInv, Scrape
<1>3. UNCHANGED <<builds, repo, tickets, lapses>>
  BY DEF Scrape
<1>4. CASE counted = 0
  <2>1. toolAt' = "idle" /\ entries' = entries
    BY <1>4 DEF Scrape
  <2> QED BY <1>1, <1>2, <1>3, <2>1 DEF ToolInv, ToolTypeOK, Quarantined, Ticketed, Nothing
<1>5. CASE counted # 0
  <2>1. toolAt' = "file" /\ entries' = [t \in Tests |-> CarryOver(t, IsQuarantined(t, read))]
    BY <1>5 DEF Scrape
  <2>2. ASSUME NEW t \in Tests
        PROVE  /\ entries'[t] \in {"no", "unfiled", "filed"}
               /\ entries'[t] # "no" => IsQuarantined(t, read)
               /\ entries'[t] = "filed" => repo[t] = "filed"
               /\ entries'[t] = "unfiled" => repo[t] # "filed"
               /\ entries[t] = "no"
    BY <1>2, <2>1 DEF CarryOver, Nothing
  <2>3. ToolTypeOK'
    BY <1>3, <2>1, <2>2 DEF ToolInv, ToolTypeOK
  <2>4. ASSUME NEW t \in Tests, Quarantined(t)'
        PROVE  Earned(t)'
    BY <1>1, <1>3, <2>2, <2>4, QuarantinedIsEarned DEF ToolInv, Quarantined
  <2>5. ASSUME NEW t \in Tests
        PROVE  Ticketed(t)' = Ticketed(t)
    BY <1>3, <2>2 DEF Ticketed
  <2> QED BY <1>3, <2>1, <2>2, <2>3, <2>4, <2>5 DEF ToolInv
<1> QED BY <1>4, <1>5

LEMMA CreateBugKeepsToolInv ==
    ASSUME ToolInv, NEW t \in Tests, NEW filed \in BOOLEAN, NEW answered \in BOOLEAN,
           answered => filed, CreateBug(t, filed, answered)
    PROVE  ToolInv'
<1>1. /\ toolAt = "file" /\ entries[t] = "unfiled" /\ repo[t] # "filed"
      /\ UNCHANGED <<builds, repo, toolAt>>
      /\ entries' = [entries EXCEPT ![t] = IF answered THEN "filed" ELSE "failed"]
  BY DEF CreateBug, Unfiled, ToolInv
<1>2. /\ tickets' = IF filed THEN [tickets EXCEPT ![t] = @ + 1] ELSE tickets
      /\ lapses' = IF filed /\ ~answered THEN [lapses EXCEPT ![t] = @ + 1] ELSE lapses
  BY DEF CreateBug
<1>3. ToolTypeOK'
  BY <1>1, <1>2 DEF ToolInv, ToolTypeOK
<1>4. ASSUME NEW u \in Tests, Quarantined(u)'
      PROVE  Earned(u)'
  <2>1. Quarantined(u)
    BY <1>1, <1>4 DEF Quarantined, ToolInv, ToolTypeOK
  <2> QED BY <1>1, <2>1, EarnedStays DEF ToolInv
<1>5. ASSUME NEW u \in Tests
      PROVE  tickets'[u] <= lapses'[u] + (IF Ticketed(u)' THEN 1 ELSE 0)
  <2>1. CASE u # t
    BY <1>1, <1>2, <2>1 DEF ToolInv, ToolTypeOK, Ticketed
  <2>2. CASE u = t
    <3>1. tickets[t] <= lapses[t]
      BY <1>1 DEF ToolInv, ToolTypeOK, Ticketed
    <3>2. Ticketed(t)' = answered
      BY <1>1 DEF ToolInv, ToolTypeOK, Ticketed
    <3>3. /\ tickets'[t] = IF filed THEN tickets[t] + 1 ELSE tickets[t]
          /\ lapses'[t] = IF filed /\ ~answered THEN lapses[t] + 1 ELSE lapses[t]
      BY <1>2 DEF ToolInv, ToolTypeOK
    <3> QED BY <2>2, <3>1, <3>2, <3>3 DEF ToolInv, ToolTypeOK
  <2> QED BY <2>1, <2>2
<1>6. \A u \in Tests : entries'[u] \in {"unfiled", "failed"} => repo'[u] # "filed"
  BY <1>1 DEF ToolInv, ToolTypeOK
<1>7. toolAt' \notin {"idle", "scrape"}
  BY <1>1
<1> QED BY <1>3, <1>4, <1>5, <1>6, <1>7 DEF ToolInv

LEMMA PushBackKeepsToolInv ==
    ASSUME ToolInv, PushBack
    PROVE  ToolInv'
<1>1. /\ toolAt' = "idle" /\ entries' = Nothing /\ UNCHANGED <<builds, tickets>>
      /\ repo' = [t \in Tests |-> IF entries[t] = "failed" THEN "unfiled" ELSE entries[t]]
      /\ lapses' = [t \in Tests |->
                      IF repo[t] = "filed" /\ entries[t] # "filed" THEN lapses[t] + 1
                      ELSE lapses[t]]
  BY DEF PushBack
<1>2. ToolTypeOK'
  BY <1>1 DEF ToolInv, ToolTypeOK, Nothing
<1>3. ASSUME NEW t \in Tests
      PROVE  /\ entries'[t] = "no"
             /\ Quarantined(t)' => Quarantined(t)
             /\ Ticketed(t)' <=> entries[t] = "filed"
  BY <1>1 DEF Nothing, Quarantined, Ticketed
<1>4. ASSUME NEW t \in Tests, Quarantined(t)'
      PROVE  Earned(t)'
  BY <1>1, <1>3, <1>4, EarnedStays DEF ToolInv
<1>5. ASSUME NEW t \in Tests
      PROVE  tickets'[t] <= lapses'[t] + (IF Ticketed(t)' THEN 1 ELSE 0)
  BY <1>1, <1>3 DEF ToolInv, ToolTypeOK, Ticketed
<1> QED BY <1>1, <1>2, <1>3, <1>4, <1>5 DEF ToolInv

LEMMA RunFailsKeepsToolInv ==
    ASSUME ToolInv, RunFails
    PROVE  ToolInv'
<1>1. /\ toolAt' = "idle" /\ entries' = Nothing /\ UNCHANGED <<builds, repo, tickets>>
      /\ lapses' = [t \in Tests |->
                      IF entries[t] = "filed" /\ repo[t] # "filed" THEN lapses[t] + 1
                      ELSE lapses[t]]
  BY DEF RunFails
<1>2. ToolTypeOK'
  BY <1>1 DEF ToolInv, ToolTypeOK, Nothing
<1>3. ASSUME NEW t \in Tests
      PROVE  /\ entries'[t] = "no"
             /\ Quarantined(t)' => Quarantined(t)
             /\ Ticketed(t)' <=> repo[t] = "filed"
  BY <1>1 DEF Nothing, Quarantined, Ticketed
<1>4. ASSUME NEW t \in Tests, Quarantined(t)'
      PROVE  Earned(t)'
  BY <1>1, <1>3, <1>4, EarnedStays DEF ToolInv
<1>5. ASSUME NEW t \in Tests
      PROVE  tickets'[t] <= lapses'[t] + (IF Ticketed(t)' THEN 1 ELSE 0)
  BY <1>1, <1>3 DEF ToolInv, ToolTypeOK, Ticketed
<1> QED BY <1>1, <1>2, <1>3, <1>4, <1>5 DEF ToolInv

LEMMA ToolStepKeepsInv ==
    ASSUME ToolInv, [ToolNext]_toolVars
    PROVE  ToolInv'
<1> DEFINE same == UNCHANGED <<builds, repo, entries, tickets, lapses>>
<1>1. ASSUME same, toolAt' = toolAt \/ (toolAt = "idle" /\ toolAt' = "scrape") \/ toolAt' = "push"
      PROVE  ToolInv'
  <2>1. \A t \in Tests : Earned(t) => Earned(t)'
    BY <1>1, EarnedStays DEF ToolInv
  <2> QED BY <1>1, <2>1 DEF ToolInv, ToolTypeOK, Quarantined, Ticketed, Nothing
<1>2. CASE UNCHANGED toolVars
  BY <1>1, <1>2 DEF toolVars
<1>3. CASE StartRun
  BY <1>1, <1>3 DEF StartRun
<1>4. CASE CheckResolved
  BY <1>1, <1>4 DEF CheckResolved
<1>5. CASE \E read \in SUBSET DOMAIN builds :
            \E counted \in 0..Cardinality(read) : Scrape(read, counted)
  BY <1>5, ScrapeKeepsToolInv
<1>6. CASE \E t \in Tests : \/ CreateBug(t, TRUE, TRUE)
                           \/ \E filed \in BOOLEAN : CreateBug(t, filed, FALSE)
  BY <1>6, CreateBugKeepsToolInv
<1> QED
  BY <1>2, <1>3, <1>4, <1>5, <1>6, NewBuildKeepsToolInv, PushBackKeepsToolInv,
     RunFailsKeepsToolInv DEF ToolNext, ToolStep

\* For any tests, builds, window, thresholds and number of faults: a test is
\* quarantined only if the builds have seen it fail and pass, whichever
\* artifacts could be read (analyzer.go:187, scraper.go:84), and gets a second
\* ticket only after a lapse (flakiness.go:269).
THEOREM QuarantineIsAlwaysEarned == ToolSpec => []QuarantineIsEarned
<1>1. ToolInv => QuarantineIsEarned
  BY DEF ToolInv, ToolTypeOK, QuarantineIsEarned, Quarantined, Earned
<1> QED BY <1>1, ToolInitially, ToolStepKeepsInv, PTL DEF ToolSpec

-----------------------------------------------------------------------------
(***************************************************************************)
(* The reports of the flakiness tool.                                      *)
(***************************************************************************)

\* The failures of the first runs of a history.
FailuresUpTo(h, m) == Cardinality({k \in 1..m : h[k]})

LEMMA FailuresOfFirst ==
    ASSUME NEW n \in Nat, NEW h \in [1..n -> BOOLEAN], NEW m \in 0..n
    PROVE  /\ Failures(SubSeq(h, 1, m)) = FailuresUpTo(h, m)
           /\ Len(SubSeq(h, 1, m)) = m
           /\ FailuresUpTo(h, m) \in 0..m
<1> DEFINE first == SubSeq(h, 1, m)
           S == {k \in 1..m : h[k]}
<1>0. m \in Nat /\ m <= n
  OBVIOUS
<1>1. h \in Seq(BOOLEAN) /\ Len(h) = n
  OBVIOUS
<1>2. Len(first) = m /\ DOMAIN first = 1..m /\ \A k \in 1..m : first[k] = h[k]
  BY <1>0, <1>1
<1> HIDE DEF first
<1>3. {k \in DOMAIN first : first[k]} = S
  BY <1>2
<1>4. IsFiniteSet(1..m) /\ Cardinality(1..m) = m
  BY <1>0, FS_Interval
<1>5. Cardinality(S) \in Nat /\ Cardinality(S) <= m
  <2>1. S \subseteq 1..m
    OBVIOUS
  <2> HIDE DEF S
  <2>2. IsFiniteSet(S) /\ Cardinality(S) <= Cardinality(1..m)
    BY <1>4, <2>1, FS_Subset
  <2> QED BY <1>4, <2>2, FS_CardinalityType
<1>6. Failures(first) = Cardinality(S)
  BY <1>3 DEF Failures
<1> QED BY <1>0, <1>2, <1>5, <1>6 DEF first, FailuresUpTo

\* A streak adds all its runs to the failures.
LEMMA StreakAdds ==
    ASSUME NEW n \in Nat, NEW h \in [1..n -> BOOLEAN], NEW p \in 0..n, NEW m \in p..n,
           \A k \in (p + 1)..m : h[k]
    PROVE  FailuresUpTo(h, m) = FailuresUpTo(h, p) + (m - p)
<1> DEFINE A == {k \in 1..p : h[k]}
           B == {k \in 1..m : h[k]}
           C == (p + 1)..m
<1>0. p \in Nat /\ m \in Nat /\ p <= m /\ m <= n
  OBVIOUS
<1>1. B = A \union C /\ A \intersect C = {}
  BY <1>0
<1>2. IsFiniteSet(C) /\ Cardinality(C) = m - p
  <2>1. p + 1 \in Int /\ m \in Int
    BY <1>0
  <2>2. IsFiniteSet(C) /\ Cardinality(C) = IF p + 1 > m THEN 0 ELSE m - (p + 1) + 1
    BY <2>1, FS_Interval
  <2> QED BY <1>0, <2>2
<1>3. IsFiniteSet(A) /\ Cardinality(A) \in Nat
  <2>1. IsFiniteSet(1..p)
    BY <1>0, FS_Interval
  <2>2. A \subseteq 1..p
    OBVIOUS
  <2> HIDE DEF A
  <2> QED BY <2>1, <2>2, FS_Subset, FS_CardinalityType
<1> HIDE DEF A, B, C
<1>4. Cardinality(A \intersect C) = 0
  BY <1>1, FS_EmptySet
<1>5. Cardinality(B) = Cardinality(A) + Cardinality(C) - 0
  BY <1>1, <1>2, <1>3, <1>4, FS_Union
<1> QED BY <1>0, <1>2, <1>3, <1>5 DEF FailuresUpTo, A, B

\* Before the streak at the end of a history is a run that passed, or nothing.
LEMMA StreakIs ==
    ASSUME NEW n \in Nat, NEW h \in [1..n -> BOOLEAN]
    PROVE  \E p \in 0..n : /\ CountTrailingFailures(h) = n - p
                           /\ \A k \in (p + 1)..n : h[k]
                           /\ p > 0 => ~h[p]
<1> DEFINE S == {0} \union {k \in DOMAIN h : ~h[k]}
<1>1. S # {} /\ S \in SUBSET Nat /\ (\A k \in S : k <= n) /\ Len(h) = n
  OBVIOUS
<1>2. PICK p \in S : \A k \in S : k <= p
  <2> HIDE DEF S
  <2> QED BY <1>1, BoundedHaveLast
<1>3. Max(S) = p
  <2>1. Max(S) \in S /\ \A k \in S : Max(S) >= k
    <3>1. \E x \in S : \A y \in S : x >= y
      <4>1. \A y \in S : p >= y
        BY <1>1, <1>2
      <4> QED BY <1>2, <4>1
    <3> HIDE DEF S
    <3> QED BY <3>1, Zenon DEF Max
  <2> HIDE DEF S
  <2>2. Max(S) \in Nat /\ p \in Nat /\ Max(S) <= p /\ Max(S) >= p
    BY <1>1, <1>2, <2>1
  <2> QED BY <2>2
<1>4. CountTrailingFailures(h) = n - p
  <2> HIDE DEF S
  <2>1. CountTrailingFailures(h) = Len(h) - Max(S)
    BY DEF CountTrailingFailures, S
  <2> QED BY <1>1, <1>3, <2>1
<1>5. p \in 0..n /\ p > 0 => ~h[p]
  BY <1>1, <1>2
<1>6. ASSUME NEW k \in (p + 1)..n
      PROVE  h[k]
  <2>1. p \in Nat
    BY <1>1, <1>2
  <2>2. k \in 1..n /\ ~(k <= p)
    BY <2>1
  <2> QED BY <1>2, <2>2
<1>7. p \in 0..n
  BY <1>1, <1>2
<1> QED BY <1>4, <1>5, <1>6, <1>7

\* What the analysis says, in terms of the last run that passed.
LEMMA AnalysisIs ==
    ASSUME NEW n \in Nat, NEW h \in [1..n -> BOOLEAN], NEW p \in 0..n, NEW minRuns,
           CountTrailingFailures(h) = n - p, \A k \in (p + 1)..n : h[k]
    PROVE  /\ AnalyzeWith(h, minRuns) = "flaky" =>
                p > 0 /\ (n - p < 3 \/ FailuresUpTo(h, p) * 100 > 20 * p)
           /\ AnalyzeWith(h, minRuns) = "regression" => p > 0 /\ n - p >= 3
<1>1. Len(h) = n /\ n - (n - p) = p /\ p \in Nat
  OBVIOUS
<1>2. /\ Failures(SubSeq(h, 1, p)) = FailuresUpTo(h, p) /\ Len(SubSeq(h, 1, p)) = p
      /\ FailuresUpTo(h, p) \in Nat
  BY FailuresOfFirst
<1>3. ASSUME p = 0
      PROVE  Failures(h) = Len(h)
  <2>1. {k \in DOMAIN h : h[k]} = 1..n
    BY <1>3
  <2>2. Cardinality(1..n) = n
    BY FS_Interval
  <2> QED BY <1>1, <2>1, <2>2 DEF Failures
<1> DEFINE few == Len(h) < minRuns \/ Failures(h) = 0
           all == Failures(h) = Len(h)
           rate == FailuresUpTo(h, p) * 100 <= 20 * p
<1>4. AnalyzeWith(h, minRuns) =
        IF few THEN "healthy" ELSE IF all THEN "persistent"
        ELSE IF n - p < 3 THEN "flaky"
        ELSE IF rate THEN "regression" ELSE "flaky"
  BY <1>1, <1>2 DEF AnalyzeWith, MinRecentFailsForRegression, MaxPreTransitionFailRate
<1>5. /\ AnalyzeWith(h, minRuns) = "flaky" => ~all /\ (n - p < 3 \/ ~rate)
      /\ AnalyzeWith(h, minRuns) = "regression" => ~all /\ ~(n - p < 3)
  <2> HIDE DEF few, all, rate
  <2> QED BY <1>4
<1>6. ~all => p > 0
  BY <1>1, <1>3
<1>7. ~rate => FailuresUpTo(h, p) * 100 > 20 * p
  BY <1>1, <1>2
<1> HIDE DEF few, all, rate
<1> QED BY <1>1, <1>5, <1>6, <1>7

\* For every history, threshold and number of runs: a test that was reliable
\* up to some point and has failed ever since is not quarantined
\* (analyzer.go:203).
THEOREM RegressionsAreNeverHidden ==
    ASSUME NEW h \in Seq(BOOLEAN), NEW threshold, NEW minRuns
    PROVE  HidesNoRegression(h, threshold, minRuns)
<1> DEFINE n == Len(h)
<1>1. n \in Nat /\ h \in [1..n -> BOOLEAN]
  OBVIOUS
<1> SUFFICES ASSUME NEW m \in 1..(n - MinRecentFailsForRegression),
                    \A k \in (m + 1)..n : h[k],
                    Failures(SubSeq(h, 1, m)) * 100 <= MaxPreTransitionFailRate * m,
                    AnalyzeWith(h, minRuns) = "flaky"
             PROVE  FALSE
  BY DEF HidesNoRegression, ShouldQuarantine
<1> HIDE DEF n
<1>2. m \in Nat /\ 1 <= m /\ m <= n - 3
  BY <1>1 DEF MinRecentFailsForRegression
<1>3. PICK p \in 0..n : /\ CountTrailingFailures(h) = n - p
                        /\ \A k \in (p + 1)..n : h[k]
                        /\ p > 0 => ~h[p]
  BY <1>1, StreakIs
<1>4. p > 0 /\ (n - p < 3 \/ FailuresUpTo(h, p) * 100 > 20 * p)
  BY <1>1, <1>3, AnalysisIs
<1>5. p <= m
  <2>1. p \in Nat /\ ~h[p]
    BY <1>1, <1>3, <1>4
  <2>2. ~(p \in (m + 1)..n)
    BY <2>1
  <2> QED BY <1>1, <1>2, <2>1, <2>2
<1>6. FailuresUpTo(h, m) = FailuresUpTo(h, p) + (m - p)
  <2>1. m \in p..n /\ \A k \in (p + 1)..m : k \in (p + 1)..n
    BY <1>1, <1>2, <1>5
  <2> QED BY <1>1, <1>3, <2>1, StreakAdds
<1>7. FailuresUpTo(h, m) * 100 <= 20 * m
  <2>1. m \in 0..n
    BY <1>1, <1>2
  <2>2. Failures(SubSeq(h, 1, m)) = FailuresUpTo(h, m)
    BY <1>1, <2>1, FailuresOfFirst
  <2> QED BY <2>2 DEF MaxPreTransitionFailRate
<1>8. FailuresUpTo(h, p) \in Nat /\ p \in Nat
  <2>1. FailuresUpTo(h, p) \in 0..p
    BY <1>1, FailuresOfFirst
  <2> QED BY <1>1, <2>1
<1> QED BY <1>1, <1>2, <1>4, <1>5, <1>6, <1>7, <1>8

\* For any tests and histories, any threshold and number of runs: what is
\* quarantined is the same in the quarantine file, the classification and the
\* lists, and is above the threshold, and the build that is blamed for a
\* regression is the first that failed after one that passed (report.go:114).
THEOREM ReportsAlwaysAgree ==
    ASSUME NEW tests, \A t \in DOMAIN tests : tests[t] \in Seq(BOOLEAN),
           NEW threshold, NEW minRuns
    PROVE  ReportsAgree(tests, threshold, minRuns)
<1> DEFINE list == QuarantineList(tests, threshold, minRuns)
           all == ClassifyWith(tests, TRUE, threshold, minRuns)
           found(t) == AnalyzeWith(tests[t], minRuns)
           over(t) == FlakeRateExceeds(tests[t], threshold)
           since(t) == Transition(tests[t], minRuns)
           quarantined == {t \in DOMAIN list : list[t].quarantined}
<1>1. /\ DOMAIN list = {t \in DOMAIN tests : found(t) # "healthy"}
      /\ \A t \in DOMAIN list : /\ list[t].quarantined = (found(t) = "flaky" /\ over(t))
                                /\ list[t].transition = since(t)
  BY DEF QuarantineList
<1>2. /\ DOMAIN all = DOMAIN tests
      /\ \A t \in DOMAIN all : /\ all[t].quarantine = (found(t) = "flaky" /\ over(t))
                               /\ all[t].transition = since(t)
  BY DEF ClassifyWith
<1>3. ASSUME NEW t \in DOMAIN tests
      PROVE  /\ found(t) # "regression" => since(t) = 0
             /\ found(t) = "regression" =>
                   since(t) > 0 /\ tests[t][since(t)] /\ ~tests[t][since(t) - 1]
  <2> DEFINE h == tests[t]
             n == Len(h)
  <2>1. n \in Nat /\ h \in [1..n -> BOOLEAN]
    OBVIOUS
  <2>2. found(t) # "regression" => since(t) = 0
    BY DEF Transition
  <2>3. ASSUME found(t) = "regression"
        PROVE  since(t) > 0 /\ h[since(t)] /\ ~h[since(t) - 1]
    <3>1. since(t) = n - CountTrailingFailures(h) + 1
      BY <2>3 DEF Transition
    <3> HIDE DEF n
    <3>2. PICK p \in 0..n : /\ CountTrailingFailures(h) = n - p
                            /\ \A k \in (p + 1)..n : h[k]
                            /\ p > 0 => ~h[p]
      <4> HIDE DEF h
      <4> QED BY <2>1, StreakIs
    <3>3. p > 0 /\ n - p >= 3
      <4> HIDE DEF h
      <4>1. AnalyzeWith(h, minRuns) = "regression"
        BY <2>3 DEF h
      <4> QED BY <2>1, <3>2, <4>1, AnalysisIs
    <3>4. since(t) = p + 1 /\ p \in Nat /\ p + 1 \in (p + 1)..n /\ (p + 1) - 1 = p
      BY <2>1, <3>1, <3>2, <3>3
    <3> QED BY <3>2, <3>3, <3>4
  <2> QED BY <2>2, <2>3
<1> HIDE DEF list, all, found, over, since
<1>4. quarantined = {t \in DOMAIN tests : found(t) = "flaky" /\ over(t)}
  BY <1>1
<1>5. quarantined = FlakyTests(tests, threshold, minRuns)
  BY <1>4 DEF FlakyTests, ShouldQuarantine, found, over
<1>6. quarantined = {t \in DOMAIN all : all[t].quarantine}
  BY <1>2, <1>4
<1>7. quarantined \subseteq ExceedingThreshold(tests, threshold)
  BY <1>4 DEF ExceedingThreshold, over
<1>8. Regressions(tests, minRuns) = {t \in DOMAIN tests : found(t) = "regression"}
  BY DEF Regressions, found
<1>9. {t \in DOMAIN list : list[t].transition > 0} = Regressions(tests, minRuns)
  BY <1>1, <1>3, <1>8
<1>10. ASSUME NEW t \in Regressions(tests, minRuns)
       PROVE  /\ all[t].transition = list[t].transition
              /\ tests[t][all[t].transition] /\ ~tests[t][all[t].transition - 1]
  BY <1>1, <1>2, <1>3, <1>8
<1> HIDE DEF quarantined
<1> QED BY <1>5, <1>6, <1>7, <1>9, <1>10, Zenon DEF ReportsAgree, list, all, quarantined

\* Whatever a file and the environment say, as long as a threshold is a
\* number or NaN where it parses: a configuration that is loaded is complete
\* and has a threshold in (0, 1], or it has NaN for one, with which no
\* history at all leads to quarantine (config.go:166).
THEOREM LoadedIsAlwaysSafe ==
    ASSUME NEW file, "threshold" \in DOMAIN file, file.threshold \in Int \union {NaN},
           NEW env, "threshold" \in DOMAIN env => env["threshold"] \in Int \union {NaN, Bad},
           NEW histories
    PROVE  LoadedIsSafe(file, env, histories)
<1> DEFINE set == ApplyDefaults(file)
           c == ApplyEnvOverrides(set, env)
<1>1. /\ DOMAIN set = DOMAIN file
      /\ set.threshold \in {DefaultThreshold, file.threshold}
  BY DEF ApplyDefaults
<1>2. DefaultThreshold \in Int
  BY DEF DefaultThreshold
<1> HIDE DEF set
<1>3. EnvParses(env) => c.threshold \in Int \union {NaN}
  BY <1>1, <1>2 DEF ApplyEnvOverrides, EnvParses
<1> HIDE DEF c
<1>4. ASSUME EnvParses(env), ValidConfig(c)
      PROVE  /\ c.component /\ c.bucket /\ c.prefixes
             /\ \/ c.threshold \in 1..100
                \/ /\ c.threshold = NaN
                   /\ \A h \in histories : ~ShouldQuarantine(h, c.threshold, c.minRuns)
             /\ c.windowDays > 0 /\ c.minRuns > 0
             /\ c.patterns # "bad" /\ c.timeouts # "bad" /\ c.expires # "bad"
             /\ c.apiURL = c.tokenEnv
  <2>1. \/ c.threshold \in 1..100
        \/ /\ c.threshold = NaN
           /\ \A h \in histories : ~ShouldQuarantine(h, c.threshold, c.minRuns)
    <3>1. c.threshold = NaN \/ (c.threshold > 0 /\ c.threshold <= 100)
      BY <1>4, Zenon DEF ValidConfig
    <3>2. c.threshold = NaN => \A h : ~ShouldQuarantine(h, c.threshold, c.minRuns)
      BY Zenon DEF ShouldQuarantine, FlakeRateExceeds
    <3>3. c.threshold # NaN => c.threshold \in 1..100
      BY <1>3, <1>4, <3>1
    <3> QED BY <3>2, <3>3, Zenon
  <2>2. c.timeouts # "bad"
    <3>1. c.timeouts = "" \/ c.timeouts = "good"
      BY <1>4, Zenon DEF ValidConfig, IsConfigured
    <3> QED BY <3>1, Zenon
  <2>3. /\ c.component /\ c.bucket /\ c.prefixes
        /\ c.windowDays > 0 /\ c.minRuns > 0
        /\ c.patterns # "bad" /\ c.expires # "bad" /\ c.apiURL = c.tokenEnv
    BY <1>4, Zenon DEF ValidConfig
  <2> QED BY <2>1, <2>2, <2>3, Zenon
<1>5. LoadConfig(file, env) =
        IF ~EnvParses(env) \/ ~ValidConfig(c) THEN ConfigError ELSE c
  BY Zenon DEF LoadConfig, c, set
<1>6. CASE EnvParses(env) /\ ValidConfig(c)
  <2>1. LoadConfig(file, env) = c
    BY <1>5, <1>6, Zenon
  <2> QED BY <1>4, <1>6, <2>1, Zenon DEF LoadedIsSafe
<1>7. CASE ~(EnvParses(env) /\ ValidConfig(c))
  <2>1. LoadConfig(file, env) = ConfigError
    BY <1>5, <1>7, Zenon
  <2> QED BY <2>1, Zenon DEF LoadedIsSafe
<1> QED BY <1>6, <1>7

-----------------------------------------------------------------------------
(***************************************************************************)
(* Finite sets, and sums over them.                                        *)
(***************************************************************************)

\* Induction over the subsets of a finite set, for a set of them.
LEMMA OverSubsets ==
    ASSUME NEW S, IsFiniteSet(S), NEW Q, {} \in Q,
           \A T \in SUBSET S : \A x \in S \ T : T \in Q => T \union {x} \in Q
    PROVE  SUBSET S \subseteq Q
<1> DEFINE L == Cardinality(S)
           P == {n \in 0..L : \A T \in SUBSET S : Cardinality(T) = n => T \in Q}
<1>1. L \in Nat
  BY FS_CardinalityType
<1>2. \A T \in SUBSET S : /\ IsFiniteSet(T) /\ Cardinality(T) \in Nat
                          /\ Cardinality(T) <= L
                          /\ Cardinality(T) = 0 => T = {}
  BY FS_Subset, FS_CardinalityType, FS_EmptySet
<1>3. 0 \in P
  BY <1>1, <1>2
<1>4. ASSUME NEW n \in 1..L, n - 1 \in P
      PROVE  n \in P
  <2> SUFFICES ASSUME NEW T \in SUBSET S, Cardinality(T) = n
               PROVE  T \in Q
    BY <1>1
  <2>1. PICK x \in T : TRUE
    <3>1. n # 0
      BY <1>1
    <3>2. T = {} => Cardinality(T) = 0
      BY FS_EmptySet
    <3> HIDE DEF L, P
    <3> QED BY <3>1, <3>2
  <2>2. Cardinality(T \ {x}) = n - 1
    BY <1>2, FS_RemoveElement
  <2>3. T \ {x} \in Q
    BY <1>4, <2>2
  <2>4. T = (T \ {x}) \union {x} /\ x \in S \ (T \ {x}) /\ T \ {x} \in SUBSET S
    BY <2>1
  <2> HIDE DEF P
  <2> QED BY <2>3, <2>4
<1>5. 0..L \subseteq P
  <2> HIDE DEF P, L
  <2> QED BY <1>1, <1>3, <1>4, UpToBound
<1>6. ASSUME NEW T \in SUBSET S
      PROVE  T \in Q
  <2>1. Cardinality(T) \in 0..L
    BY <1>1, <1>2
  <2>2. Cardinality(T) \in P
    <3> HIDE DEF P, L
    <3> QED BY <1>5, <2>1
  <2> QED BY <2>2
<1> QED BY <1>6

\* The values of a function that is defined finitely often.
LEMMA ValuesAreFinite ==
    ASSUME NEW S, IsFiniteSet(S), NEW f, f = [x \in S |-> f[x]]
    PROVE  IsFiniteSet({f[x] : x \in S})
<1> DEFINE T == {f[x] : x \in S}
<1>1. f \in Surjection(S, T)
  BY DEF Surjection
<1> HIDE DEF T
<1>2. IsFiniteSet(T)
  BY <1>1, FS_Surjection
<1> QED BY <1>2 DEF T

\* Finitely many numbers have a greatest one.
LEMMA FinitelyManyHaveLast ==
    ASSUME NEW S \in SUBSET Nat, IsFiniteSet(S), S # {}
    PROVE  /\ Max(S) \in S /\ Max(S) \in Nat
           /\ \A n \in S : n <= Max(S)
<1> DEFINE Q == {T \in SUBSET S : T = {} \/ \E n \in T : \A m \in T : m <= n}
<1>1. {} \in Q
  OBVIOUS
<1>2. ASSUME NEW T \in SUBSET S, NEW x \in S \ T, T \in Q
      PROVE  T \union {x} \in Q
  <2>1. \A m \in T \union {x} : m \in Nat
    OBVIOUS
  <2>2. CASE T = {}
    BY <2>1, <2>2
  <2>3. CASE T # {}
    <3>1. PICK n \in T : \A m \in T : m <= n
      BY <1>2, <2>3
    <3>2. CASE x <= n
      BY <3>1, <3>2
    <3>3. CASE n <= x
      <4>1. \A m \in T \union {x} : m <= x
        BY <2>1, <3>1, <3>3
      <4> QED BY <4>1
    <3> QED BY <2>1, <3>1, <3>2, <3>3
  <2> QED BY <2>2, <2>3
<1>3. S \in Q
  <2> HIDE DEF Q
  <2> QED BY <1>1, <1>2, OverSubsets
<1>4. PICK n \in S : \A m \in S : m <= n
  BY <1>3
<1>5. \A m \in S : n >= m
  BY <1>4
<1>6. Max(S) \in S /\ \A m \in S : Max(S) >= m
  BY <1>5, Zenon DEF Max
<1> QED BY <1>6

\* What SumFunctionOnSet computes with, for the subsets of S.
Sums(g, w, S) ==
    g = [T \in SUBSET S |->
            IF T = {} THEN 0 ELSE w[CHOOSE x \in T : TRUE] + g[T \ {CHOOSE x \in T : TRUE}]]

LEMMA SumsExist ==
    ASSUME NEW S, IsFiniteSet(S), NEW w
    PROVE  \E g : Sums(g, w, S) /\ SumFunctionOnSet(w, S) = g[S]
<1> DEFINE L == Cardinality(S)
           c(T) == CHOOSE x \in T : TRUE
           small(n) == {T \in SUBSET S : Cardinality(T) <= n}
           def(g, n) == [T \in small(n) |-> IF T = {} THEN 0 ELSE w[c(T)] + g[T \ {c(T)}]]
           P == {n \in 0..L : \E g : g = def(g, n)}
<1>1. L \in Nat
  BY FS_CardinalityType
<1>2. \A T \in SUBSET S : IsFiniteSet(T) /\ Cardinality(T) \in Nat /\ Cardinality(T) <= L
  BY FS_Subset, FS_CardinalityType
<1>3. ASSUME NEW T \in SUBSET S, T # {}
      PROVE  c(T) \in T /\ T \ {c(T)} \in SUBSET S /\ Cardinality(T \ {c(T)}) = Cardinality(T) - 1
  <2>1. c(T) \in T
    BY <1>3, Zenon
  <2> HIDE DEF c
  <2> QED BY <1>2, <2>1, FS_RemoveElement
<1> HIDE DEF c
<1>4. 0 \in P
  <2> DEFINE g == [T \in small(0) |-> 0]
  <2>1. \A T \in small(0) : T = {}
    BY <1>2, FS_EmptySet
  <2>2. def(g, 0) = g
    BY <2>1
  <2> HIDE DEF g, def
  <2> QED BY <1>1, <2>2
<1>5. ASSUME NEW n \in 1..L, n - 1 \in P
      PROVE  n \in P
  <2>1. PICK g : g = def(g, n - 1)
    BY <1>5
  <2> DEFINE h == def(g, n)
  <2>2. ASSUME NEW T \in small(n), T # {}
        PROVE  T \ {c(T)} \in small(n - 1)
    BY <1>1, <1>2, <1>3, <2>2
  <2>3. small(n - 1) \subseteq small(n)
    BY <1>1, <1>2
  <2>4. ASSUME NEW T \in small(n - 1)
        PROVE  h[T] = g[T]
    <3>1. g[T] = IF T = {} THEN 0 ELSE w[c(T)] + g[T \ {c(T)}]
      <4> HIDE DEF small
      <4>1. def(g, n - 1)[T] = IF T = {} THEN 0 ELSE w[c(T)] + g[T \ {c(T)}]
        OBVIOUS
      <4> HIDE DEF def
      <4> QED BY <2>1, <4>1
    <3>2. h[T] = IF T = {} THEN 0 ELSE w[c(T)] + g[T \ {c(T)}]
      <4> HIDE DEF small
      <4> QED BY <2>3
    <3> HIDE DEF h
    <3> QED BY <3>1, <3>2
  <2>5. h = def(h, n)
    <3>1. \A T \in small(n) : T # {} => h[T \ {c(T)}] = g[T \ {c(T)}]
      BY <2>2, <2>4
    <3> DEFINE k == h
    <3> HIDE DEF k, small
    <3>2. \A T \in small(n) : T # {} => k[T \ {c(T)}] = g[T \ {c(T)}]
      BY <3>1 DEF k
    <3>3. def(k, n) = def(g, n)
      BY <3>2
    <3> QED BY <3>3 DEF k
  <2> HIDE DEF h, def
  <2> QED BY <1>1, <2>5
<1>6. L \in P
  <2>1. 0..L \subseteq P
    <3> HIDE DEF P, L
    <3> QED BY <1>1, <1>4, <1>5, UpToBound
  <2> HIDE DEF P
  <2> QED BY <1>1, <2>1
<1>7. small(L) = SUBSET S
  BY <1>2
<1>8. PICK f : f = def(f, L)
  BY <1>6
<1>9. f = [T \in SUBSET S |-> IF T = {} THEN 0 ELSE w[c(T)] + f[T \ {c(T)}]]
  <2> HIDE DEF small
  <2> QED BY <1>7, <1>8
<1> DEFINE iter == CHOOSE iter : iter = [T \in SUBSET S |->
                      IF T = {} THEN 0 ELSE w[c(T)] + iter[T \ {c(T)}]]
<1>10. iter = [T \in SUBSET S |-> IF T = {} THEN 0 ELSE w[c(T)] + iter[T \ {c(T)}]]
  BY <1>9, Zenon
<1>11. SumFunctionOnSet(w, S) = iter[S]
  BY Zenon DEF SumFunctionOnSet, FoldFunctionOnSet, MapThenFoldSet, c
<1> HIDE DEF iter
<1>12. Sums(iter, w, S)
  BY <1>10, Zenon DEF Sums, c
<1> QED BY <1>11, <1>12

\* Whichever element comes first, a sum is that element and the rest.
AnyFirst(g, w, S) ==
    /\ g[{}] = 0
    /\ \A T \in SUBSET S : g[T] \in Nat
    /\ \A T \in SUBSET S : \A x \in T : g[T] = w[x] + g[T \ {x}]

LEMMA SumsAre ==
    ASSUME NEW S, IsFiniteSet(S), NEW w, \A x \in S : w[x] \in Nat, NEW g, Sums(g, w, S)
    PROVE  AnyFirst(g, w, S)
<1> DEFINE L == Cardinality(S)
           c(T) == CHOOSE x \in T : TRUE
           first(T) == \A x \in T : g[T] = w[x] + g[T \ {x}]
           N == {n \in 0..L : \A T \in SUBSET S : Cardinality(T) = n => g[T] \in Nat}
           P == {n \in 0..L : \A T \in SUBSET S : Cardinality(T) = n => first(T)}
<1>1. L \in Nat
  BY FS_CardinalityType
<1>2. \A T \in SUBSET S : /\ IsFiniteSet(T) /\ Cardinality(T) \in Nat
                          /\ Cardinality(T) <= L
                          /\ Cardinality(T) = 0 => T = {}
  BY FS_Subset, FS_CardinalityType, FS_EmptySet
<1>3. \A T \in SUBSET S : g[T] = IF T = {} THEN 0 ELSE w[c(T)] + g[T \ {c(T)}]
  BY Zenon DEF Sums
<1>4. \A T : T # {} => c(T) \in T
  BY Zenon
<1> HIDE DEF c
<1>5. g[{}] = 0
  BY <1>3
<1>6. ASSUME NEW n \in 1..L, NEW T \in SUBSET S, Cardinality(T) = n
      PROVE  /\ T # {}
             /\ \A x \in T : T \ {x} \in SUBSET S /\ Cardinality(T \ {x}) = n - 1
  <2>1. n # 0
    BY <1>1
  <2>2. T = {} => Cardinality(T) = 0
    BY FS_EmptySet
  <2>3. \A x \in T : Cardinality(T \ {x}) = n - 1
    BY <1>2, <1>6, FS_RemoveElement
  <2> HIDE DEF L
  <2> QED BY <1>6, <2>1, <2>2, <2>3
<1>7. \A T \in SUBSET S : Cardinality(T) \in 0..L
  BY <1>1, <1>2
<1>8. \A T \in SUBSET S : g[T] \in Nat
  <2>1. 0 \in N
    BY <1>1, <1>2, <1>5
  <2>2. ASSUME NEW n \in 1..L, n - 1 \in N
        PROVE  n \in N
    <3> SUFFICES ASSUME NEW T \in SUBSET S, Cardinality(T) = n
                 PROVE  g[T] \in Nat
      BY <1>1
    <3> DEFINE y == c(T)
    <3>1. T # {} /\ y \in T /\ T \ {y} \in SUBSET S /\ Cardinality(T \ {y}) = n - 1
      BY <1>4, <1>6
    <3>2. g[T] = w[y] + g[T \ {y}]
      BY <1>3, <3>1
    <3> HIDE DEF y
    <3>3. g[T \ {y}] \in Nat /\ w[y] \in Nat
      BY <2>2, <3>1
    <3> QED BY <3>2, <3>3
  <2>3. 0..L \subseteq N
    <3> HIDE DEF N, L
    <3> QED BY <1>1, <2>1, <2>2, UpToBound
  <2>4. \A T \in SUBSET S : Cardinality(T) \in N
    <3> HIDE DEF N, L
    <3> QED BY <1>7, <2>3
  <2> QED BY <2>4
<1>9. \A T \in SUBSET S : first(T)
  <2>1. 0 \in P
    BY <1>1, <1>2
  <2>2. ASSUME NEW n \in 1..L, n - 1 \in P
        PROVE  n \in P
    <3> SUFFICES ASSUME NEW T \in SUBSET S, Cardinality(T) = n, NEW x \in T
                 PROVE  g[T] = w[x] + g[T \ {x}]
      BY <1>1
    <3> DEFINE y == c(T)
    <3>1. T # {} /\ y \in T
      BY <1>4, <1>6
    <3>2. g[T] = w[y] + g[T \ {y}]
      BY <1>3, <3>1
    <3> HIDE DEF y
    <3>3. CASE x = y
      BY <3>2, <3>3
    <3>4. CASE x # y
      <4>1. x \in T \ {y} /\ y \in T \ {x} /\ (T \ {y}) \ {x} = (T \ {x}) \ {y}
        BY <3>1, <3>4
      <4>2. first(T \ {x}) /\ first(T \ {y})
        <5>1. /\ T \ {x} \in SUBSET S /\ Cardinality(T \ {x}) = n - 1
              /\ T \ {y} \in SUBSET S /\ Cardinality(T \ {y}) = n - 1
          BY <1>6, <3>1
        <5> HIDE DEF first
        <5> QED BY <2>2, <5>1
      <4> DEFINE rest == g[(T \ {x}) \ {y}]
      <4>3. g[T \ {y}] = w[x] + rest /\ g[T \ {x}] = w[y] + rest
        BY <4>1, <4>2
      <4>4. rest \in Nat /\ w[x] \in Nat /\ w[y] \in Nat
        BY <1>8, <3>1
      <4> HIDE DEF rest
      <4>5. w[y] + (w[x] + rest) = w[x] + (w[y] + rest)
        BY <4>4
      <4> QED BY <3>2, <4>3, <4>5
    <3> QED BY <3>3, <3>4
  <2>3. 0..L \subseteq P
    <3> HIDE DEF P, L
    <3> QED BY <1>1, <2>1, <2>2, UpToBound
  <2>4. \A T \in SUBSET S : Cardinality(T) \in P
    <3> HIDE DEF P, L
    <3> QED BY <1>7, <2>3
  <2> HIDE DEF first
  <2> QED BY <2>4
<1> QED BY <1>5, <1>8, <1>9 DEF AnyFirst

\* What the sums over the subsets of a finite set are.
Summed(w, S) ==
    /\ SumFunctionOnSet(w, {}) = 0
    /\ \A T \in SUBSET S : SumFunctionOnSet(w, T) \in Nat
    /\ \A T \in SUBSET S : \A x \in T :
          SumFunctionOnSet(w, T) = w[x] + SumFunctionOnSet(w, T \ {x})

LEMMA SumIs ==
    ASSUME NEW S, IsFiniteSet(S), NEW w, \A x \in S : w[x] \in Nat
    PROVE  Summed(w, S)
<1>1. PICK g : Sums(g, w, S) /\ SumFunctionOnSet(w, S) = g[S]
  BY SumsExist
<1>2. /\ g[{}] = 0
      /\ \A T \in SUBSET S : g[T] \in Nat
      /\ \A T \in SUBSET S : \A x \in T : g[T] = w[x] + g[T \ {x}]
  <2>1. AnyFirst(g, w, S)
    BY <1>1, SumsAre
  <2> QED BY <2>1 DEF AnyFirst
<1>3. ASSUME NEW T \in SUBSET S
      PROVE  SumFunctionOnSet(w, T) = g[T]
  <2>1. IsFiniteSet(T)
    BY FS_Subset
  <2>2. PICK h : Sums(h, w, T) /\ SumFunctionOnSet(w, T) = h[T]
    BY <2>1, SumsExist
  <2>3. /\ h[{}] = 0
        /\ \A U \in SUBSET T : \A x \in U : h[U] = w[x] + h[U \ {x}]
    <3>1. \A x \in T : w[x] \in Nat
      OBVIOUS
    <3>2. AnyFirst(h, w, T)
      BY <2>1, <2>2, <3>1, SumsAre
    <3> QED BY <3>2 DEF AnyFirst
  <2> DEFINE Q == {U \in SUBSET T : h[U] = g[U]}
  <2>4. {} \in Q
    BY <1>2, <2>3
  <2>5. ASSUME NEW U \in SUBSET T, NEW x \in T \ U, U \in Q
        PROVE  U \union {x} \in Q
    <3> DEFINE V == U \union {x}
    <3>1. V \ {x} = U /\ x \in V /\ V \in SUBSET T /\ V \in SUBSET S
      BY <2>5
    <3> HIDE DEF V
    <3>2. h[V] = w[x] + h[U] /\ g[V] = w[x] + g[U]
      <4>1. h[V] = w[x] + h[V \ {x}] /\ g[V] = w[x] + g[V \ {x}]
        BY <1>2, <2>3, <3>1
      <4> QED BY <3>1, <4>1
    <3>3. V \in Q
      BY <2>5, <3>1, <3>2
    <3> QED BY <3>3 DEF V
  <2>6. T \in Q
    <3>1. SUBSET T \subseteq Q
      <4> HIDE DEF Q
      <4> QED BY <2>1, <2>4, <2>5, OverSubsets
    <3> HIDE DEF Q
    <3> QED BY <3>1
  <2> QED BY <2>2, <2>6
<1>4. {} \in SUBSET S /\ \A T \in SUBSET S : \A x \in T : T \ {x} \in SUBSET S
  OBVIOUS
<1> QED BY <1>2, <1>3, <1>4 DEF Summed

\* The sum over disjoint sets is that of their sums.
LEMMA SumOverParts ==
    ASSUME NEW S, IsFiniteSet(S), NEW w, \A x \in S : w[x] \in Nat,
           NEW A \in SUBSET S, NEW B \in SUBSET S, A \intersect B = {}
    PROVE  SumFunctionOnSet(w, A \union B) = SumFunctionOnSet(w, A) + SumFunctionOnSet(w, B)
<1> DEFINE sum(T) == SumFunctionOnSet(w, T)
           Q == {T \in SUBSET A : sum(T \union B) = sum(T) + sum(B)}
<1>1. /\ sum({}) = 0 /\ \A T \in SUBSET S : sum(T) \in Nat
      /\ \A T \in SUBSET S : \A x \in T : sum(T) = w[x] + sum(T \ {x})
  BY SumIs DEF Summed
<1> HIDE DEF sum
<1>2. {} \in Q
  <2>1. {} \union B = B /\ sum(B) \in Nat
    BY <1>1
  <2> QED BY <1>1, <2>1
<1>3. ASSUME NEW T \in SUBSET A, NEW x \in A \ T, T \in Q
      PROVE  T \union {x} \in Q
  <2> DEFINE U == T \union {x}
  <2>1. /\ U \in SUBSET A /\ U \in SUBSET S /\ U \union B \in SUBSET S /\ x \in U
        /\ x \in U \union B /\ U \ {x} = T /\ (U \union B) \ {x} = T \union B
    OBVIOUS
  <2> HIDE DEF U
  <2>2. sum(U) = w[x] + sum(T) /\ sum(U \union B) = w[x] + sum(T \union B)
    BY <1>1, <2>1
  <2>3. sum(T \union B) = sum(T) + sum(B)
    BY <1>3
  <2>4. w[x] \in Nat /\ sum(T) \in Nat /\ sum(B) \in Nat
    BY <1>1
  <2>5. sum(U \union B) = sum(U) + sum(B)
    BY <2>2, <2>3, <2>4
  <2>6. U \in Q
    BY <2>1, <2>5
  <2> QED BY <2>6 DEF U
<1>4. A \in Q
  <2>1. IsFiniteSet(A)
    BY FS_Subset
  <2> HIDE DEF Q
  <2>2. SUBSET A \subseteq Q
    BY <1>2, <1>3, <2>1, OverSubsets
  <2> QED BY <2>2
<1> QED BY <1>4 DEF sum

\* A sum by key: of what each key has.
LEMMA SumByKey ==
    ASSUME NEW S, IsFiniteSet(S), NEW w, \A x \in S : w[x] \in Nat,
           NEW key, NEW K, IsFiniteSet(K), \A x \in S : key[x] \in K
    PROVE  LET total == [k \in K |-> SumFunctionOnSet(w, {x \in S : key[x] = k})]
           IN  /\ \A k \in K : total[k] \in Nat /\ total[k] <= SumFunctionOnSet(w, S)
               /\ SumFunction(total) = SumFunctionOnSet(w, S)
<1> DEFINE has(k) == {x \in S : key[x] = k}
           total == [k \in K |-> SumFunctionOnSet(w, has(k))]
           upTo(J) == {x \in S : key[x] \in J}
           Q == {J \in SUBSET K : SumFunctionOnSet(total, J) = SumFunctionOnSet(w, upTo(J))}
<1>1. /\ SumFunctionOnSet(w, {}) = 0
      /\ \A T \in SUBSET S : SumFunctionOnSet(w, T) \in Nat
  BY SumIs DEF Summed
<1>2. \A k \in K : total[k] = SumFunctionOnSet(w, has(k)) /\ total[k] \in Nat
  <2>1. \A k \in K : has(k) \in SUBSET S
    OBVIOUS
  <2> HIDE DEF has
  <2> QED BY <1>1, <2>1
<1>3. DOMAIN total = K
  OBVIOUS
<1> HIDE DEF total
<1>4. /\ SumFunctionOnSet(total, {}) = 0
      /\ \A J \in SUBSET K : SumFunctionOnSet(total, J) \in Nat
      /\ \A J \in SUBSET K : \A k \in J :
            SumFunctionOnSet(total, J) = total[k] + SumFunctionOnSet(total, J \ {k})
  <2>1. \A k \in K : total[k] \in Nat
    BY <1>2
  <2>2. Summed(total, K)
    <3> HIDE DEF has, upTo
    <3> QED BY <2>1, SumIs
  <2> QED BY <2>2 DEF Summed
<1>5. {} \in Q
  <2>1. upTo({}) = {}
    OBVIOUS
  <2> QED BY <1>1, <1>4, <2>1
<1>6. ASSUME NEW J \in SUBSET K, NEW k \in K \ J, J \in Q
      PROVE  J \union {k} \in Q
  <2>1. /\ upTo(J \union {k}) = has(k) \union upTo(J) /\ has(k) \intersect upTo(J) = {}
        /\ has(k) \in SUBSET S /\ upTo(J) \in SUBSET S
    OBVIOUS
  <2> HIDE DEF has, upTo
  <2>2. SumFunctionOnSet(w, upTo(J \union {k})) =
          SumFunctionOnSet(w, has(k)) + SumFunctionOnSet(w, upTo(J))
    <3> DEFINE A == has(k)
               B == upTo(J)
    <3> HIDE DEF A, B
    <3>1. A \in SUBSET S /\ B \in SUBSET S /\ A \intersect B = {}
      BY <2>1 DEF A, B
    <3>2. SumFunctionOnSet(w, A \union B) = SumFunctionOnSet(w, A) + SumFunctionOnSet(w, B)
      BY <3>1, SumOverParts
    <3> QED BY <2>1, <3>2 DEF A, B
  <2>3. (J \union {k}) \ {k} = J /\ k \in J \union {k} /\ J \union {k} \in SUBSET K
    OBVIOUS
  <2>4. SumFunctionOnSet(total, J \union {k}) = total[k] + SumFunctionOnSet(total, J)
    BY <1>4, <2>3
  <2>5. SumFunctionOnSet(total, J) = SumFunctionOnSet(w, upTo(J))
    BY <1>6
  <2>6. SumFunctionOnSet(total, J \union {k}) = SumFunctionOnSet(w, upTo(J \union {k}))
    BY <1>2, <2>2, <2>4, <2>5
  <2> QED BY <2>3, <2>6
<1>7. K \in Q
  <2> HIDE DEF Q
  <2>1. SUBSET K \subseteq Q
    BY <1>5, <1>6, OverSubsets
  <2> QED BY <2>1
<1>8. upTo(K) = S
  OBVIOUS
<1>9. SumFunction(total) = SumFunctionOnSet(w, S)
  <2> HIDE DEF upTo
  <2> QED BY <1>3, <1>7, <1>8 DEF SumFunction
<1>10. ASSUME NEW k \in K
       PROVE  total[k] <= SumFunctionOnSet(w, S)
  <2>1. SumFunctionOnSet(total, K) = total[k] + SumFunctionOnSet(total, K \ {k})
    BY <1>4
  <2>2. SumFunctionOnSet(total, K \ {k}) \in Nat /\ total[k] \in Nat
    BY <1>2, <1>4
  <2>3. SumFunctionOnSet(total, K) = SumFunctionOnSet(w, S)
    BY <1>3, <1>9 DEF SumFunction
  <2> QED BY <2>1, <2>2, <2>3
<1> QED BY <1>2, <1>9, <1>10 DEF total

-----------------------------------------------------------------------------
(***************************************************************************)
(* Runtimes and budgets.  selectDurationSeries returns no series without   *)
(* values (runtime.go:190).                                                *)
(***************************************************************************)

IsSeries(series) ==
    IsFiniteSet(series) /\ \A s \in series : s.values \in Seq(Nat) /\ s.values # <<>>

\* Sorting numbers: every place is filled, and in order.
InOrder(s, L) ==
    /\ s \in [1..L -> Nat]
    /\ \A j, k \in 1..L : j <= k => s[j] <= s[k]

LEMMA SortedIsInOrder ==
    ASSUME NEW f, f = [x \in DOMAIN f |-> f[x]], IsFiniteSet(DOMAIN f),
           \A x \in DOMAIN f : f[x] \in Nat
    PROVE  InOrder(Sorted(f), Cardinality(DOMAIN f))
<1> DEFINE D == DOMAIN f
           L == Cardinality(D)
           V == {f[x] : x \in D}
           below(v) == {x \in D : f[x] < v}
           upTo(v) == {x \in D : f[x] <= v}
           nth(v, k) == Cardinality(below(v)) < k /\ Cardinality(upTo(v)) >= k
<1>1. L \in Nat
  BY FS_CardinalityType
<1>2. ASSUME NEW T \in SUBSET D
      PROVE  IsFiniteSet(T) /\ Cardinality(T) \in Nat /\ (Cardinality(T) # 0 => T # {})
  BY FS_Subset, FS_CardinalityType, FS_EmptySet
<1>3. \A v : below(v) \in SUBSET D /\ upTo(v) \in SUBSET D
  OBVIOUS
\* The values at some places have a greatest one among them.
<1>4. ASSUME NEW T \in SUBSET D, T # {}
      PROVE  \E v \in V : (\E x \in T : f[x] = v) /\ \A x \in T : f[x] <= v
  <2> DEFINE W == {f[x] : x \in T}
  <2>1. IsFiniteSet(W)
    <3> DEFINE e == [x \in T |-> f[x]]
    <3>1. e = [x \in T |-> e[x]] /\ W = {e[x] : x \in T}
      OBVIOUS
    <3> HIDE DEF e, W
    <3>2. IsFiniteSet(T)
      BY <1>2
    <3>3. IsFiniteSet({e[x] : x \in T})
      BY <3>1, <3>2, ValuesAreFinite
    <3> QED BY <3>1, <3>3
  <2>2. W \in SUBSET Nat /\ W # {}
    BY <1>4
  <2>3. Max(W) \in W /\ \A n \in W : n <= Max(W)
    <3> HIDE DEF W
    <3> QED BY <2>1, <2>2, FinitelyManyHaveLast
  <2> DEFINE v == Max(W)
  <2> HIDE DEF v
  <2>4. v \in W /\ \A n \in W : n <= v
    BY <2>3 DEF v
  <2> QED BY <2>4
<1>5. ASSUME NEW k \in 1..L
      PROVE  \E v \in V : nth(v, k)
  <2> DEFINE late == {v \in V : Cardinality(upTo(v)) >= k}
  <2>1. k \in Nat /\ 1 <= k /\ k <= L
    BY <1>1
  <2>2. late # {} /\ late \in SUBSET Nat
    <3>1. D # {}
      <4>1. L # 0
        BY <1>1
      <4> QED BY <4>1, FS_EmptySet
    <3>2. PICK v \in V : \A x \in D : f[x] <= v
      BY <1>4, <3>1
    <3>3. upTo(v) = D
      BY <3>2
    <3>4. Cardinality(upTo(v)) >= k
      BY <1>1, <2>1, <3>3
    <3> QED BY <3>4
  <2>3. PICK v \in late : \A u \in late : v <= u
    <3> HIDE DEF late
    <3> QED BY <2>2, NaturalsHaveFirst
  <2>4. v \in V /\ v \in Nat /\ Cardinality(upTo(v)) >= k
    BY <2>2, <2>3
  <2>5. ASSUME Cardinality(below(v)) >= k
        PROVE  FALSE
    <3>1. below(v) # {}
      <4>1. Cardinality(below(v)) \in Nat /\ Cardinality(below(v)) # 0
        <5> HIDE DEF below
        <5> QED BY <1>2, <1>3, <2>1, <2>5
      <4> QED BY <1>2, <1>3, <4>1
    <3>2. PICK u \in V : (\E x \in below(v) : f[x] = u) /\ \A x \in below(v) : f[x] <= u
      <4> HIDE DEF below, V
      <4> QED BY <1>3, <1>4, <3>1
    <3>3. u \in Nat /\ u < v
      BY <2>4, <3>2
    <3>4. upTo(u) = below(v)
      <4>1. ASSUME NEW x \in D, f[x] <= u
            PROVE  f[x] < v
        BY <2>4, <3>3, <4>1
      <4> QED BY <3>2, <4>1
    <3>5. u \in late
      <4> HIDE DEF upTo, below
      <4> QED BY <2>5, <3>2, <3>4
    <3> HIDE DEF late
    <3> QED BY <2>3, <2>4, <3>3, <3>5
  <2>6. Cardinality(below(v)) \in Nat
    <3> HIDE DEF below
    <3> QED BY <1>2, <1>3
  <2>7. Cardinality(below(v)) < k
    <3> HIDE DEF below
    <3> QED BY <2>1, <2>5, <2>6
  <2> HIDE DEF below, upTo, late
  <2> QED BY <2>4, <2>7
<1> DEFINE s == Sorted(f)
<1>6. s = [k \in 1..L |-> CHOOSE v \in V : nth(v, k)]
  BY Zenon DEF Sorted, Range
<1> HIDE DEF s, nth, V
<1>7. \A k \in 1..L : s[k] \in V /\ nth(s[k], k)
  <2>1. \A k \in 1..L : s[k] = CHOOSE v \in V : nth(v, k)
    BY <1>6
  <2> HIDE DEF L
  <2> QED BY <1>5, <2>1, Zenon
<1>8. \A k \in 1..L : s[k] \in Nat
  BY <1>7 DEF V
<1>9. ASSUME NEW j \in 1..L, NEW k \in 1..L, j <= k
      PROVE  s[j] <= s[k]
  <2> SUFFICES ASSUME s[k] < s[j]
               PROVE  FALSE
    BY <1>8
  <2>1. s[k] \in Nat /\ s[j] \in Nat /\ j \in Nat /\ k \in Nat
    BY <1>1, <1>8
  <2>2. upTo(s[k]) \subseteq below(s[j])
    <3>1. ASSUME NEW x \in D, f[x] <= s[k]
          PROVE  f[x] < s[j]
      BY <2>1, <3>1
    <3> QED BY <3>1
  <2>3. Cardinality(upTo(s[k])) <= Cardinality(below(s[j]))
    <3> DEFINE A == upTo(s[k])
               B == below(s[j])
    <3>1. IsFiniteSet(B)
      BY <1>2, <1>3
    <3>2. A \subseteq B
      BY <2>2
    <3> HIDE DEF A, B
    <3>3. Cardinality(A) <= Cardinality(B)
      BY <3>1, <3>2, FS_Subset
    <3> QED BY <3>3 DEF A, B
  <2>4. Cardinality(upTo(s[k])) \in Nat /\ Cardinality(below(s[j])) \in Nat
    <3> HIDE DEF upTo, below
    <3> QED BY <1>2, <1>3
  <2>5. Cardinality(below(s[j])) < j /\ Cardinality(upTo(s[k])) >= k
    <3> HIDE DEF upTo, below
    <3> QED BY <1>7 DEF nth
  <2> HIDE DEF upTo, below
  <2> QED BY <1>9, <2>1, <2>3, <2>4, <2>5
<1> HIDE DEF L
<1>10. s \in [1..L -> Nat]
  BY <1>6, <1>8
<1>11. InOrder(s, L)
  BY <1>9, <1>10 DEF InOrder
<1> QED BY <1>11 DEF s, L

\* The samples of a test that has a series.
LEMMA SamplesAre ==
    ASSUME NEW series, IsSeries(series), NEW t \in series, NEW k, k = <<t.name, t.suite>>
    PROVE  LET f == SamplesOf(series, k)
           IN  /\ f = [x \in DOMAIN f |-> f[x]] /\ IsFiniteSet(DOMAIN f) /\ DOMAIN f # {}
               /\ \A x \in DOMAIN f : f[x] \in Nat
<1> DEFINE own == {s \in series : <<s.name, s.suite>> = k}
           place(s) == {s} \X DOMAIN s.values
           D == UNION {place(s) : s \in own}
           f == SamplesOf(series, k)
<1>1. f = [x \in D |-> x[1].values[x[2]]]
  BY Zenon DEF SamplesOf
<1>2. \A s \in own : /\ s.values \in Seq(Nat) /\ Len(s.values) \in Nat /\ s.values # <<>>
                     /\ DOMAIN s.values = 1..Len(s.values)
  BY DEF IsSeries
<1>3. \A x \in D : x[1].values[x[2]] \in Nat
  <2> SUFFICES ASSUME NEW s \in own, NEW n \in DOMAIN s.values
               PROVE  s.values[n] \in Nat
    OBVIOUS
  <2> QED BY <1>2
<1>4. IsFiniteSet(D)
  <2>1. IsFiniteSet(own)
    <3>1. own \subseteq series
      OBVIOUS
    <3> HIDE DEF own
    <3> QED BY <3>1, FS_Subset DEF IsSeries
  <2>2. ASSUME NEW s \in own
        PROVE  IsFiniteSet(place(s))
    <3> DEFINE v == s.values
    <3>1. IsFiniteSet(DOMAIN v)
      <4>1. DOMAIN v = 1..Len(v) /\ Len(v) \in Nat
        BY <1>2
      <4> HIDE DEF v
      <4> QED BY <4>1, FS_Interval
    <3>2. IsFiniteSet({s})
      BY FS_Singleton
    <3> HIDE DEF v
    <3>3. IsFiniteSet({s} \X DOMAIN v)
      BY <3>1, <3>2, FS_Product
    <3> QED BY <3>3 DEF v
  <2> DEFINE e == [s \in own |-> place(s)]
             places == {e[s] : s \in own}
  <2>3. e = [s \in own |-> e[s]] /\ \A s \in own : e[s] = place(s)
    OBVIOUS
  <2> HIDE DEF e, own, place
  <2>4. IsFiniteSet({e[s] : s \in own})
    BY <2>1, <2>3, ValuesAreFinite
  <2>5. \A T \in places : IsFiniteSet(T)
    BY <2>2, <2>3
  <2>6. IsFiniteSet(UNION places)
    <3>1. IsFiniteSet(places)
      BY <2>4
    <3> HIDE DEF places
    <3> QED BY <2>5, <3>1, FS_UNION
  <2>7. places = {place(s) : s \in own}
    BY <2>3
  <2> HIDE DEF places
  <2> QED BY <2>6, <2>7
<1>5. D # {}
  <2>1. t \in own
    OBVIOUS
  <2>2. 1 \in DOMAIN t.values
    <3>1. Len(t.values) # 0
      BY <1>2, <2>1
    <3> QED BY <1>2, <2>1, <3>1
  <2>3. <<t, 1>> \in D
    BY <2>1, <2>2
  <2> QED BY <2>3
<1> HIDE DEF D
<1>6. DOMAIN f = D /\ \A x \in D : f[x] \in Nat
  <2> HIDE DEF f
  <2> QED BY <1>1, <1>3
<1>7. f = [x \in DOMAIN f |-> f[x]]
  <2> HIDE DEF f
  <2> QED BY <1>1
<1> HIDE DEF f
<1>8. /\ f = [x \in DOMAIN f |-> f[x]] /\ IsFiniteSet(DOMAIN f) /\ DOMAIN f # {}
      /\ \A x \in DOMAIN f : f[x] \in Nat
  BY <1>4, <1>5, <1>6, <1>7
<1> QED BY <1>8 DEF f

LEMMA ProductsGrow ==
    ASSUME NEW a \in Nat, NEW b \in Nat, a <= b, NEW c \in Nat
    PROVE  a * c <= b * c /\ a * c \in Nat /\ b * c \in Nat
<1> DEFINE P == {n \in 0..c : a * n <= b * n}
<1>1. 0 \in P
  OBVIOUS
<1>2. ASSUME NEW n \in 1..c, n - 1 \in P
      PROVE  n \in P
  <2>1. a * n = a * (n - 1) + a /\ b * n = b * (n - 1) + b
    OBVIOUS
  <2>2. a * (n - 1) <= b * (n - 1) /\ a * (n - 1) \in Int /\ b * (n - 1) \in Int
    BY <1>2
  <2>3. a * n <= b * n
    BY <2>1, <2>2
  <2> QED BY <2>3
<1>3. c \in P
  <2>1. 0..c \subseteq P
    <3> HIDE DEF P
    <3> QED BY <1>1, <1>2, UpToBound
  <2> HIDE DEF P
  <2> QED BY <2>1
<1> QED BY <1>3

\* The value at a rank, in hundredths of a place.
Whole(r) == r \div 100
Frac(r) == r % 100
Next2(r) == IF Frac(r) = 0 THEN Whole(r) + 1 ELSE Whole(r) + 2
At(s, r) == s[Whole(r) + 1] * (100 - Frac(r)) + s[Next2(r)] * Frac(r)

\* It lies between the two places, and rises with what is beyond the first.
LEMMA Blend ==
    ASSUME NEW a \in Nat, NEW b \in Nat, a <= b, NEW f \in 0..99
    PROVE  /\ a * (100 - f) + b * f \in Nat
           /\ 100 * a <= a * (100 - f) + b * f
           /\ a * (100 - f) + b * f <= 100 * b
           /\ \A e \in 0..f : a * (100 - e) + b * e <= a * (100 - f) + b * f
<1> DEFINE d == b - a
<1>1. d \in Nat /\ b = a + d
  OBVIOUS
<1>2. \A e \in 0..99 : a * (100 - e) + b * e = 100 * a + d * e
  <2> TAKE e \in 0..99
  <2>1. b * e = a * e + d * e
    BY <1>1
  <2>2. a * (100 - e) = 100 * a - a * e
    OBVIOUS
  <2> DEFINE x == a * e
             y == d * e
             z == a * (100 - e)
  <2>3. x \in Int /\ y \in Int /\ b * e = x + y /\ z = 100 * a - x
    BY <1>1, <2>1, <2>2
  <2> HIDE DEF x, y, z
  <2>4. z + (x + y) = 100 * a + y
    BY <2>3
  <2> QED BY <2>3, <2>4 DEF y, z
<1>3. \A e \in Nat : \A g \in Nat : e <= g => d * e <= d * g /\ d * e \in Nat /\ d * g \in Nat
  <2> TAKE e \in Nat
  <2> TAKE g \in Nat
  <2> HAVE e <= g
  <2>1. e * d <= g * d /\ e * d \in Nat /\ g * d \in Nat
    <3> HIDE DEF d
    <3> QED BY <1>1, ProductsGrow
  <2>2. e * d = d * e /\ g * d = d * g
    <3> HIDE DEF d
    <3> QED BY <1>1
  <2> QED BY <2>1, <2>2
<1>4. d * 0 = 0 /\ d * 100 = 100 * b - 100 * a
  BY <1>1
<1>5. 0 <= d * f /\ d * f <= d * 100 /\ d * f \in Nat
  <2>1. f \in Nat /\ 100 \in Nat /\ f <= 100
    OBVIOUS
  <2>2. d * f <= d * 100 /\ d * f \in Nat
    BY <1>3, <2>1
  <2> HIDE DEF d
  <2> QED BY <2>2
<1> HIDE DEF d
<1>6. a * (100 - f) + b * f = 100 * a + d * f
  BY <1>2
<1>7. ASSUME NEW e \in 0..f
      PROVE  a * (100 - e) + b * e <= a * (100 - f) + b * f
  <2>1. e \in 0..99 /\ e \in Nat /\ f \in Nat /\ e <= f
    OBVIOUS
  <2>2. a * (100 - e) + b * e = 100 * a + d * e
    BY <1>2, <2>1
  <2>3. d * e <= d * f /\ d * e \in Nat
    BY <1>3, <2>1
  <2> QED BY <1>5, <1>6, <2>2, <2>3
<1>8. a * (100 - f) + b * f \in Nat
  BY <1>5, <1>6
<1>9. 100 * a <= a * (100 - f) + b * f
  BY <1>5, <1>6
<1>10. a * (100 - f) + b * f <= 100 * b
  BY <1>4, <1>5, <1>6
<1> QED BY <1>7, <1>8, <1>9, <1>10

LEMMA AtRises ==
    ASSUME NEW L \in Nat, L > 0, NEW s, InOrder(s, L),
           NEW r \in 0..(100 * (L - 1)), NEW q \in r..(100 * (L - 1))
    PROVE  At(s, r) \in Nat /\ At(s, r) <= At(s, q)
<1>1. ASSUME NEW n \in 0..(100 * (L - 1))
      PROVE  /\ Whole(n) + 1 \in 1..L /\ Next2(n) \in 1..L /\ Frac(n) \in 0..99
             /\ Whole(n) + 1 <= Next2(n) /\ Whole(n) \in Nat
             /\ n = 100 * Whole(n) + Frac(n)
             /\ Next2(n) <= Whole(n) + 2
  <2>1. Whole(n) \in Nat /\ Frac(n) \in 0..99 /\ n = 100 * Whole(n) + Frac(n)
    BY DEF Whole, Frac
  <2> QED BY <2>1 DEF Next2
<1>2. r \in 0..(100 * (L - 1)) /\ q \in 0..(100 * (L - 1)) /\ r <= q
  OBVIOUS
<1>0. /\ r = 100 * Whole(r) + Frac(r) /\ q = 100 * Whole(q) + Frac(q)
      /\ Frac(r) \in 0..99 /\ Frac(q) \in 0..99 /\ Whole(r) \in Nat /\ Whole(q) \in Nat
  BY <1>1, <1>2
<1> DEFINE a == s[Whole(r) + 1]
           b == s[Next2(r)]
           c == s[Whole(q) + 1]
           d == s[Next2(q)]
<1>3. a \in Nat /\ b \in Nat /\ c \in Nat /\ d \in Nat /\ a <= b /\ c <= d
  BY <1>1, <1>2 DEF InOrder
<1>4. At(s, r) = a * (100 - Frac(r)) + b * Frac(r) /\ At(s, q) = c * (100 - Frac(q)) + d * Frac(q)
  BY DEF At
<1>5. Frac(r) \in 0..99 /\ Frac(q) \in 0..99
  BY <1>1, <1>2
<1>6. At(s, r) \in Nat /\ At(s, q) \in Nat /\ At(s, r) <= 100 * b /\ 100 * c <= At(s, q)
  <2> HIDE DEF a, b, c, d
  <2>1. /\ a * (100 - Frac(r)) + b * Frac(r) \in Nat
        /\ a * (100 - Frac(r)) + b * Frac(r) <= 100 * b
    BY <1>3, <1>5, Blend
  <2>2. /\ c * (100 - Frac(q)) + d * Frac(q) \in Nat
        /\ 100 * c <= c * (100 - Frac(q)) + d * Frac(q)
    BY <1>3, <1>5, Blend
  <2> QED BY <1>4, <2>1, <2>2
<1>7. CASE Whole(r) = Whole(q)
  <2>1. Frac(r) <= Frac(q) /\ a = c
    BY <1>0, <1>2, <1>7
  <2>2. CASE Frac(r) = 0
    <3>1. Next2(r) = Whole(r) + 1
      BY <2>2 DEF Next2
    <3>2. b = c
      BY <1>7, <3>1
    <3> HIDE DEF a, b, c, d
    <3> QED BY <1>3, <1>6, <3>2
  <2>3. CASE Frac(r) # 0
    <3>1. Next2(r) = Next2(q)
      BY <1>5, <1>7, <2>1, <2>3 DEF Next2
    <3>2. b = d
      BY <3>1
    <3>3. Frac(r) \in 0..Frac(q)
      BY <1>5, <2>1
    <3> HIDE DEF a, b, c, d
    <3>4. c * (100 - Frac(r)) + d * Frac(r) <= c * (100 - Frac(q)) + d * Frac(q)
      BY <1>3, <1>5, <3>3, Blend
    <3> QED BY <1>4, <1>6, <2>1, <3>2, <3>4
  <2> QED BY <2>2, <2>3
<1>8. CASE Whole(r) # Whole(q)
  <2>1. Whole(r) < Whole(q)
    <3>1. 100 * Whole(r) + Frac(r) <= 100 * Whole(q) + Frac(q)
      BY <1>0, <1>2
    <3> QED BY <1>0, <1>8, <3>1
  <2>2. Next2(r) <= Whole(q) + 1
    BY <1>1, <1>2, <2>1
  <2>3. b <= c
    BY <1>1, <1>2, <2>2 DEF InOrder
  <2> HIDE DEF a, b, c, d
  <2> QED BY <1>3, <1>6, <2>3
<1> QED BY <1>6, <1>7, <1>8

\* The percentiles of a sorted list are in order, up to its last value.
LEMMA PercentilesRise ==
    ASSUME NEW L \in Nat, L > 0, NEW s, InOrder(s, L)
    PROVE  /\ Percentile(s, 50) \in Nat /\ Percentile(s, 95) \in Nat /\ Percentile(s, 99) \in Nat
           /\ Percentile(s, 50) <= Percentile(s, 95)
           /\ Percentile(s, 95) <= Percentile(s, 99)
           /\ Percentile(s, 99) <= 100 * s[L]
<1>1. Len(s) = L /\ s[L] \in Nat
  BY DEF InOrder
<1>2. \A p : Percentile(s, p) = At(s, p * (L - 1))
  BY <1>1 DEF Percentile, At, Whole, Frac, Next2
<1> DEFINE m == L - 1
<1>3. m \in Nat /\ m + 1 = L
  OBVIOUS
<1>4. /\ 50 * m \in 0..(100 * m) /\ 95 * m \in (50 * m)..(100 * m)
      /\ 95 * m \in 0..(100 * m) /\ 99 * m \in (95 * m)..(100 * m)
      /\ 99 * m \in 0..(100 * m) /\ 100 * m \in (99 * m)..(100 * m)
      /\ 100 * m \in 0..(100 * m)
  BY <1>3
<1>5. /\ At(s, 50 * m) \in Nat /\ At(s, 50 * m) <= At(s, 95 * m)
      /\ At(s, 95 * m) \in Nat /\ At(s, 95 * m) <= At(s, 99 * m)
      /\ At(s, 99 * m) \in Nat /\ At(s, 99 * m) <= At(s, 100 * m)
  BY <1>4, AtRises
<1>6. At(s, 100 * m) = 100 * s[L]
  <2>1. Whole(100 * m) = m /\ Frac(100 * m) = 0
    BY <1>3 DEF Whole, Frac
  <2>2. Next2(100 * m) = m + 1
    BY <2>1 DEF Next2
  <2>3. At(s, 100 * m) = s[L] * (100 - 0) + s[L] * 0
    BY <1>3, <2>1, <2>2 DEF At
  <2> HIDE DEF m
  <2> QED BY <1>1, <2>3
<1> QED BY <1>2, <1>5, <1>6

\* For any series of a finite query: the percentiles of every test are in
\* order and at most its longest run (runtime.go:245).
THEOREM PercentilesAreAlwaysOrdered ==
    ASSUME NEW series, IsSeries(series)
    PROVE  /\ PercentilesOrdered(series)
           /\ \A rt \in AggregateRuntimes(series) : rt.p95 \in Nat /\ rt.p99 \in Nat
<1> DEFINE v(k) == Sorted(SamplesOf(series, k))
           entry(k) == [name |-> k[1], suite |-> k[2], p50 |-> Percentile(v(k), 50),
                        p95 |-> Percentile(v(k), 95), p99 |-> Percentile(v(k), 99),
                        max |-> 100 * v(k)[Len(v(k))], samples |-> Len(v(k))]
<1>1. AggregateRuntimes(series) = {entry(k) : k \in {<<s.name, s.suite>> : s \in series}}
  BY Zenon DEF AggregateRuntimes
<1>2. ASSUME NEW rt \in AggregateRuntimes(series)
      PROVE  /\ rt.p50 <= rt.p95 /\ rt.p95 <= rt.p99 /\ rt.p99 <= rt.max
             /\ rt.p95 \in Nat /\ rt.p99 \in Nat
  <2>1. PICK t \in series : rt = entry(<<t.name, t.suite>>)
    <3> HIDE DEF entry
    <3> QED BY <1>1
  <2> DEFINE k == <<t.name, t.suite>>
             f == SamplesOf(series, k)
             s == Sorted(f)
             L == Cardinality(DOMAIN f)
  <2>2. /\ f = [x \in DOMAIN f |-> f[x]] /\ IsFiniteSet(DOMAIN f) /\ DOMAIN f # {}
        /\ \A x \in DOMAIN f : f[x] \in Nat
    <3> HIDE DEF k
    <3>1. k = <<t.name, t.suite>>
      BY DEF k
    <3> QED BY <3>1, SamplesAre
  <2>3. rt.p50 = Percentile(s, 50) /\ rt.p95 = Percentile(s, 95) /\ rt.p99 = Percentile(s, 99)
        /\ rt.max = 100 * s[Len(s)]
    <3> HIDE DEF v
    <3>1. v(k) = s
      BY DEF v
    <3> HIDE DEF s, k
    <3>2. rt = entry(k)
      BY <2>1 DEF k
    <3> QED BY <3>1, <3>2
  <2> HIDE DEF f
  <2>4. InOrder(s, L)
    BY <2>2, SortedIsInOrder
  <2>5. L \in Nat /\ L > 0
    <3>1. L \in Nat /\ L # 0
      BY <2>2, FS_CardinalityType, FS_EmptySet
    <3> HIDE DEF L
    <3> QED BY <3>1
  <2> HIDE DEF s, L
  <2>6. Len(s) = L
    BY <2>4, <2>5 DEF InOrder
  <2> QED BY <2>3, <2>4, <2>5, <2>6, PercentilesRise
<1> QED BY <1>2 DEF PercentilesOrdered

\* Following suggestions, from any timeout and with any threshold.
LEMMA FollowingSettles ==
    ASSUME NEW rt, rt.p95 \in Nat, rt.p99 \in Nat, rt.p95 <= rt.p99,
           NEW threshold \in (Nat \ {0}) \union {NaN}, NEW timeout \in Nat
    PROVE  LET once == Follow(rt, timeout, threshold)
               twice == Follow(rt, once, threshold)
           IN  Follow(rt, twice, threshold) = twice /\ (timeout > 0 => once > 0)
<1> DEFINE A == rt.p99 * 150
           B == Max({10000, A})
           raise(t) == t > 0 /\ Utilised(rt, t, threshold)
           lower(t) == t > 0 /\ rt.p95 * 10000 <= 30 * t /\ rt.samples >= 5
           F(t) == Follow(rt, t, threshold)
<1>1. \A t : F(t) = IF raise(t) THEN A ELSE IF lower(t) THEN B ELSE t
  BY SMT DEF Follow, Recommend, HeadroomMultiplier, LowerThreshold, OneSecond
<1>2. A \in Nat /\ B \in Nat /\ A <= B /\ B > 0 /\ B \in {10000, A}
  <2>1. \A a \in Nat : Max({10000, a}) = IF 10000 >= a THEN 10000 ELSE a
    BY DEF Max
  <2> QED BY <2>1
<1>3. ASSUME NEW t \in Nat, raise(t)
      PROVE  A > 0 /\ \A u \in Nat : 0 < u /\ u <= t => raise(u)
  <2>1. threshold \in Nat /\ threshold >= 1 /\ rt.p95 * 10000 >= threshold * t /\ t > 0
    BY <1>3 DEF Utilised
  <2>2. 1 * t <= threshold * t
    <3>1. 1 \in Nat
      OBVIOUS
    <3> QED BY <2>1, <3>1, ProductsGrow
  <2>3. rt.p95 > 0
    <3> DEFINE x == threshold * t
    <3>1. rt.p95 * 10000 >= x /\ 1 * t <= x /\ x \in Nat
      BY <2>1, <2>2
    <3> HIDE DEF x
    <3> QED BY <2>1, <3>1
  <2>4. ASSUME NEW u \in Nat, 0 < u, u <= t
        PROVE  raise(u)
    <3>1. u * threshold <= t * threshold /\ u * threshold \in Nat
      BY <2>1, <2>4, ProductsGrow
    <3>2. u * threshold = threshold * u /\ t * threshold = threshold * t
      BY <2>1
    <3> DEFINE x == threshold * t
               y == threshold * u
    <3>3. rt.p95 * 10000 >= x /\ y <= x /\ x \in Int /\ y \in Int
      BY <2>1, <3>1, <3>2
    <3> HIDE DEF x, y
    <3>4. rt.p95 * 10000 >= y
      BY <3>3
    <3> QED BY <1>3, <2>4, <3>4 DEF Utilised, y
  <2> HIDE DEF raise
  <2> QED BY <2>3, <2>4
<1> HIDE DEF A, B, raise, lower, F
<1>4. \A t : raise(t) \/ lower(t) => t > 0
  BY DEF raise, lower
<1>5. F(timeout) \in {A, B, timeout} /\ F(F(F(timeout))) = F(F(timeout))
  <2>1. CASE raise(timeout)
    BY <1>1, <1>2, <1>3, <1>4, <2>1
  <2>2. CASE ~raise(timeout) /\ lower(timeout)
    BY <1>1, <1>2, <1>3, <1>4, <2>2
  <2>3. CASE ~raise(timeout) /\ ~lower(timeout)
    BY <1>1, <2>3
  <2> QED BY <2>1, <2>2, <2>3
<1>6. timeout > 0 => F(timeout) > 0
  BY <1>1, <1>2, <1>3
<1> QED BY <1>5, <1>6 DEF F

\* For any series, timeout and warning threshold, NaN too: the tests near
\* their timeout are those told to raise it, and following suggestions comes
\* to rest; what is to be raised is raised, and far enough, whenever the
\* threshold is above two thirds (budget.go:265).
THEOREM SuggestionsAlwaysSettle ==
    ASSUME NEW series, IsSeries(series), NEW timeout \in Nat,
           NEW threshold \in (Nat \ {0}) \union {NaN}
    PROVE  SuggestionsSettle(AggregateRuntimes(series), timeout, threshold)
<1> DEFINE runtimes == AggregateRuntimes(series)
           near == DetectNearTimeout(runtimes, timeout, threshold)
<1>1. \A rt \in runtimes : rt.p95 \in Nat /\ rt.p99 \in Nat /\ rt.p95 <= rt.p99
  BY PercentilesAreAlwaysOrdered DEF PercentilesOrdered
<1> HIDE DEF runtimes
<1>2. ASSUME NEW rt \in runtimes
      PROVE  LET r == Recommend(rt, timeout, threshold)
                 once == Follow(rt, timeout, threshold)
                 twice == Follow(rt, once, threshold)
             IN  /\ r.action = "raise" <=> rt \in near
                 /\ Follow(rt, twice, threshold) = twice
                 /\ timeout > 0 => once > 0
                 /\ r.action = "raise" /\ threshold * 3 > 200 =>
                        r.to > timeout /\ ~Utilised(rt, r.to, threshold)
  <2> DEFINE r == Recommend(rt, timeout, threshold)
             close == timeout > 0 /\ Utilised(rt, timeout, threshold)
             once == Follow(rt, timeout, threshold)
             twice == Follow(rt, once, threshold)
  <2>1. r.action = "raise" <=> close
    BY DEF Recommend
  <2>2. rt \in near <=> close
    BY DEF DetectNearTimeout
  <2>3. close => r.to = rt.p99 * 150
    BY DEF Recommend, HeadroomMultiplier
  <2>4. ASSUME close, threshold * 3 > 200
        PROVE  rt.p99 * 150 > timeout /\ ~Utilised(rt, rt.p99 * 150, threshold)
    <3> DEFINE a == rt.p99 * 150
               x == threshold * timeout
               y == threshold * a
    <3>1. threshold \in Nat /\ rt.p95 * 10000 >= threshold * timeout /\ timeout > 0
      BY <2>4 DEF Utilised
    <3>2. 67 <= threshold /\ 67 \in Nat /\ a \in Nat
      BY <1>1, <2>4, <3>1
    <3>3. 67 * timeout <= x /\ 67 * a <= y /\ x \in Nat /\ y \in Nat
      <4> HIDE DEF a
      <4> QED BY <3>1, <3>2, ProductsGrow
    <3>4. rt.p95 * 10000 >= x
      BY <3>1
    <3> HIDE DEF x, y
    <3>5. rt.p99 > 0 /\ rt.p99 * 150 > timeout /\ ~(rt.p95 * 10000 >= y)
      BY <1>1, <3>1, <3>3, <3>4
    <3> QED BY <3>5 DEF Utilised, y
  <2>5. Follow(rt, twice, threshold) = twice /\ (timeout > 0 => once > 0)
    BY <1>1, FollowingSettles
  <2> HIDE DEF r, close, near, twice, once
  <2>6. /\ r.action = "raise" <=> rt \in near
        /\ r.action = "raise" /\ threshold * 3 > 200 =>
                r.to > timeout /\ ~Utilised(rt, r.to, threshold)
    BY <2>1, <2>2, <2>3, <2>4
  <2> QED BY <2>5, <2>6 DEF r, once, twice
<1> HIDE DEF near
<1> QED BY <1>2, Zenon DEF SuggestionsSettle, runtimes, near

\* The largest of some amounts and 0.
Worst(M) == Max(M) \in M /\ Max(M) \in Nat /\ \A n \in M : n <= Max(M)

LEMMA WorstIs ==
    ASSUME NEW E, IsFiniteSet(E), \A n \in E : n \in Nat, NEW M, M = {0} \union E
    PROVE  Worst(M)
<1>1. IsFiniteSet(E \union {0})
  BY FS_AddElement
<1>2. M = E \union {0}
  OBVIOUS
<1>3. IsFiniteSet(M)
  BY <1>1, <1>2
<1>4. M \in SUBSET Nat /\ M # {}
  OBVIOUS
<1> QED BY <1>3, <1>4, FinitelyManyHaveLast DEF Worst

\* For any series: the budget of the pipeline is the whole of one build, all
\* its suites together, and no suite has a larger one (budget.go:135).
THEOREM BudgetsAlwaysNest ==
    ASSUME NEW series, IsSeries(series)
    PROVE  BudgetsNest(series)
<1> DEFINE Build == {s.build : s \in series}
           of(b) == {s \in series : s.build = b}
           suites(b) == {s.suite : s \in of(b)}
           w(b) == Seconds(of(b))
           in(b, u) == {s \in of(b) : s.suite = u}
           total(b) == [u \in suites(b) |-> SumFunctionOnSet(w(b), in(b, u))]
           all(b) == SumFunctionOnSet(w(b), of(b))
           g == GroupByBuild(series)
<1>1. ASSUME NEW T, NEW e, IsFiniteSet(T), e = [s \in T |-> e[s]]
      PROVE  IsFiniteSet({e[s] : s \in T})
  BY <1>1, ValuesAreFinite
<1>2. \A s \in series : SumFunction(s.values) \in Nat
  <2> SUFFICES ASSUME NEW v \in Seq(Nat)
               PROVE  SumFunction(v) \in Nat
    BY DEF IsSeries
  <2>1. DOMAIN v = 1..Len(v) /\ Len(v) \in Nat /\ \A n \in DOMAIN v : v[n] \in Nat
    OBVIOUS
  <2>2. IsFiniteSet(DOMAIN v)
    BY <2>1, FS_Interval
  <2>3. Summed(v, DOMAIN v)
    BY <2>1, <2>2, SumIs
  <2>4. DOMAIN v \in SUBSET DOMAIN v
    OBVIOUS
  <2> QED BY <2>3, <2>4 DEF Summed, SumFunction
<1>3. ASSUME NEW b
      PROVE  /\ \A u \in suites(b) : total(b)[u] \in Nat /\ total(b)[u] <= all(b)
             /\ SumFunction(total(b)) = all(b)
             /\ all(b) \in Nat /\ all(b) = SumFunction(w(b))
  <2>1. IsFiniteSet(of(b))
    <3>1. of(b) \in SUBSET series
      OBVIOUS
    <3> HIDE DEF of
    <3> QED BY <3>1, FS_Subset DEF IsSeries
  <2>2. DOMAIN w(b) = of(b) /\ \A s \in of(b) : w(b)[s] \in Nat
    BY <1>2 DEF Seconds
  <2> DEFINE key == [s \in of(b) |-> s.suite]
  <2>3. /\ \A s \in of(b) : key[s] \in suites(b) /\ key[s] = s.suite
        /\ key = [s \in of(b) |-> key[s]] /\ {key[s] : s \in of(b)} = suites(b)
    OBVIOUS
  <2> HIDE DEF key, of, w
  <2>4. IsFiniteSet(suites(b))
    <3>1. IsFiniteSet({key[s] : s \in of(b)})
      BY <1>1, <2>1, <2>3
    <3> QED BY <2>3, <3>1
  <2> HIDE DEF suites
  <2> DEFINE S == of(b)
             f == w(b)
             K == suites(b)
             t == [u \in K |-> SumFunctionOnSet(f, {x \in S : key[x] = u})]
  <2>5. /\ \A u \in K : t[u] \in Nat /\ t[u] <= SumFunctionOnSet(f, S)
        /\ SumFunction(t) = SumFunctionOnSet(f, S)
    <3>1. /\ IsFiniteSet(S) /\ IsFiniteSet(K)
          /\ \A x \in S : f[x] \in Nat /\ key[x] \in K
      BY <2>1, <2>2, <2>3, <2>4
    <3> HIDE DEF S, f, K
    <3> QED BY <3>1, SumByKey
  <2>6. t = total(b)
    <3>1. \A u : {x \in of(b) : key[x] = u} = in(b, u)
      BY <2>3
    <3> HIDE DEF in
    <3> QED BY <3>1
  <2>7. all(b) \in Nat /\ all(b) = SumFunction(w(b))
    <3>1. Summed(w(b), of(b))
      BY <2>1, <2>2, SumIs
    <3> QED BY <2>2, <3>1 DEF Summed, SumFunction
  <2> HIDE DEF t, total
  <2> QED BY <2>5, <2>6, <2>7
<1>4. /\ DOMAIN g = Build
      /\ \A b \in Build : DOMAIN g[b] = suites(b)
      /\ \A b \in Build : \A u \in suites(b) : g[b][u].total = total(b)[u]
  BY DEF GroupByBuild, AggregateSuiteRuntimes
<1>5. Build # {} <=> series # {}
  OBVIOUS
<1>6. IsFiniteSet(Build)
  <2> DEFINE e == [s \in series |-> s.build]
  <2>1. e = [s \in series |-> e[s]] /\ {e[s] : s \in series} = Build
    OBVIOUS
  <2> HIDE DEF e, Build
  <2> QED BY <1>1, <2>1 DEF IsSeries
<1> HIDE DEF g
<1>7. \A b \in Build : [u \in DOMAIN g[b] |-> g[b][u].total] = total(b)
  <2> HIDE DEF in, w, of, Build, suites
  <2> QED BY <1>4
<1> DEFINE amounts == {0} \union {all(b) : b \in Build}
<1>8. PipelineBudget(series) = Max(amounts)
  <2>1. PipelineBudget(series) =
          Max({0} \union {SumFunction([u \in DOMAIN g[b] |-> g[b][u].total]) : b \in DOMAIN g})
    BY Zenon DEF PipelineBudget, g
  <2> HIDE DEF total, all, Build
  <2> DEFINE whole(b) == SumFunction([u \in DOMAIN g[b] |-> g[b][u].total])
  <2>2. \A b \in Build : whole(b) = SumFunction(total(b))
    BY <1>7
  <2> HIDE DEF whole
  <2>3. \A b \in Build : whole(b) = all(b)
    BY <1>3, <2>2
  <2>4. {whole(b) : b \in DOMAIN g} = {all(b) : b \in Build}
    BY <1>4, <2>3
  <2> QED BY <2>1, <2>4 DEF whole
<1> HIDE DEF total, all, suites, w
<1>10. Max(amounts) \in amounts /\ Max(amounts) \in Nat /\ \A n \in amounts : n <= Max(amounts)
  <2> DEFINE e == [b \in Build |-> all(b)]
  <2>1. e = [b \in Build |-> e[b]] /\ \A b \in Build : e[b] = all(b) /\ e[b] \in Nat
    BY <1>3
  <2> HIDE DEF e, Build
  <2>2. amounts = {0} \union {e[b] : b \in Build}
    BY <2>1
  <2> DEFINE E == {e[b] : b \in Build}
  <2>3. IsFiniteSet(E)
    BY <1>1, <1>6, <2>1
  <2>4. (\A n \in E : n \in Nat) /\ amounts = {0} \union E
    BY <2>1, <2>2
  <2> HIDE DEF E, amounts
  <2>5. Worst(amounts)
    BY <2>3, <2>4, WorstIs
  <2> QED BY <2>5 DEF Worst
<1> DEFINE pipeline == Max(amounts)
<1>11. ASSUME NEW u
       PROVE  SuiteBudget(series, u) <= pipeline
  <2> DEFINE A == {b \in Build : u \in suites(b)}
             e == [b \in A |-> total(b)[u]]
             M == {0} \union {e[b] : b \in A}
  <2>1. SuiteBudget(series, u) =
          Max({0} \union {g[b][u].total : b \in {c \in DOMAIN g : u \in DOMAIN g[c]}})
    BY Zenon DEF SuiteBudget, g
  <2>2. A \in SUBSET Build
    OBVIOUS
  <2>3. IsFiniteSet(A)
    <3> HIDE DEF A, Build
    <3> QED BY <1>6, <2>2, FS_Subset
  <2>4. \A b \in A : /\ b \in Build /\ u \in suites(b) /\ e[b] = total(b)[u]
                     /\ e[b] \in Nat /\ e[b] <= all(b) /\ all(b) \in Nat
    <3> HIDE DEF Build
    <3> QED BY <1>3
  <2>5. e = [b \in A |-> e[b]]
    OBVIOUS
  <2>6. {c \in DOMAIN g : u \in DOMAIN g[c]} = A
    <3> HIDE DEF Build
    <3> QED BY <1>4
  <2> HIDE DEF A, e
  <2>7. {g[b][u].total : b \in {c \in DOMAIN g : u \in DOMAIN g[c]}} = {e[b] : b \in A}
    <3>1. \A b \in A : g[b][u].total = e[b]
      <4> HIDE DEF Build
      <4> QED BY <1>4, <2>4
    <3> QED BY <2>6, <3>1
  <2>8. Max(M) \in M /\ Max(M) \in Nat
    <3> DEFINE E == {e[b] : b \in A}
    <3>1. IsFiniteSet(E)
      BY <1>1, <2>3, <2>5
    <3>2. (\A n \in E : n \in Nat) /\ M = {0} \union E
      BY <2>4
    <3> HIDE DEF E, M
    <3>3. Worst(M)
      BY <3>1, <3>2, WorstIs
    <3> QED BY <3>3 DEF Worst
  <2>9. SuiteBudget(series, u) = Max(M)
    BY <2>1, <2>7
  <2>10. \A n \in M : n \in Nat /\ n <= pipeline
    <3> HIDE DEF pipeline
    <3>1. 0 <= pipeline /\ pipeline \in Nat /\ \A b \in Build : all(b) <= pipeline
      <4> HIDE DEF Build
      <4> QED BY <1>10 DEF pipeline
    <3> HIDE DEF Build, amounts
    <3> QED BY <2>4, <3>1
  <2> HIDE DEF M, pipeline
  <2> QED BY <2>8, <2>9, <2>10
<1>12. ASSUME series # {}
       PROVE  \E b \in Build : pipeline = all(b)
  <2>1. PICK b \in Build : TRUE
    BY <1>5, <1>12
  <2>2. CASE pipeline \in {all(c) : c \in Build}
    <3> HIDE DEF pipeline, Build
    <3> QED BY <2>2
  <2>3. CASE pipeline = 0
    <3>1. all(b) <= pipeline /\ all(b) \in Nat
      <4> HIDE DEF Build
      <4> QED BY <1>3, <1>10
    <3> HIDE DEF pipeline, Build
    <3>2. all(b) = pipeline
      BY <2>3, <3>1
    <3> QED BY <3>2
  <2> QED BY <1>10, <2>2, <2>3
<1> HIDE DEF pipeline, amounts
<1>13. PipelineBudget(series) = pipeline
  BY <1>8 DEF pipeline
<1>14. \A b \in Build : all(b) = SumFunction(Seconds(of(b)))
  BY <1>3 DEF w
<1>15. series # {} => \E b \in Build : PipelineBudget(series) = SumFunction(Seconds(of(b)))
  <2> HIDE DEF Build, of
  <2> QED BY <1>12, <1>13, <1>14
<1> QED BY <1>11, <1>13, <1>15, Zenon DEF BudgetsNest

-----------------------------------------------------------------------------
(***************************************************************************)
(* The assignment of ingresses.                                            *)
(***************************************************************************)

\* A finite set has at most one element if any two of them are the same.
LEMMA AtMostOne ==
    ASSUME NEW S, IsFiniteSet(S)
    PROVE  Cardinality(S) <= 1 <=> \A x, y \in S : x = y
<1>1. Cardinality(S) \in Nat
  BY FS_CardinalityType
<1>2. ASSUME \A x, y \in S : x = y
      PROVE  Cardinality(S) <= 1
  <2>1. CASE S = {}
    BY <2>1, FS_EmptySet
  <2>2. CASE S # {}
    <3>1. PICK x : S = {x}
      BY <1>2, <2>2
    <3> QED BY <3>1, FS_Singleton
  <2> QED BY <2>1, <2>2
<1>3. ASSUME Cardinality(S) <= 1, NEW x \in S, NEW y \in S
      PROVE  x = y
  <2>1. Cardinality(S) # 0
    BY FS_EmptySet
  <2>2. Cardinality(S) = 1
    BY <1>1, <1>3, <2>1
  <2> QED BY <2>2, FS_Singleton
<1> QED BY <1>2, <1>3

\* Ingresses that are valid stay so in any order, and an annotation is for at
\* most one of them.
LEMMA IngressesInReverse ==
    ASSUME NEW Ingress, NEW s \in Seq(Ingress)
    PROVE  /\ Reverse(s) \in Seq(Ingress) /\ Len(Reverse(s)) = Len(s)
           /\ \A n \in 1..Len(s) : /\ Len(s) - n + 1 \in 1..Len(s)
                                    /\ Reverse(s)[n] = s[Len(s) - n + 1]
                                    /\ Reverse(s)[Len(s) - n + 1] = s[n]
<1>1. Len(s) \in Nat /\ DOMAIN s = 1..Len(s) /\ \A n \in 1..Len(s) : s[n] \in Ingress
  OBVIOUS
<1>2. \A n \in 1..Len(s) : Len(s) - n + 1 \in 1..Len(s) /\ Len(s) - (Len(s) - n + 1) + 1 = n
  BY <1>1
<1> QED BY <1>1, <1>2 DEF Reverse

Named(i) == "" \notin {i.name, i.gateway, i.namespace}

LEMMA ValidMeans ==
    ASSUME NEW Ingress, NEW s \in Seq(Ingress)
    PROVE  ValidIngresses(s) <=>
             /\ \A n \in 1..Len(s) : Named(s[n])
             /\ \A m, n \in 1..Len(s) : m # n => /\ s[m].name # s[n].name
                                               /\ s[m].gateway # s[n].gateway
             /\ \A m, n \in 1..Len(s) : s[m].isDefault /\ s[n].isDefault => m = n
<1> DEFINE defaults == {n \in DOMAIN s : s[n].isDefault}
<1>1. DOMAIN s = 1..Len(s) /\ Len(s) \in Nat
  OBVIOUS
<1>2. IsFiniteSet(defaults)
  <2>1. IsFiniteSet(1..Len(s))
    BY <1>1, FS_Interval
  <2> QED BY <1>1, <2>1, FS_Subset
<1>3. Cardinality(defaults) <= 1 <=> \A m, n \in defaults : m = n
  <2> HIDE DEF defaults
  <2> QED BY <1>2, AtMostOne
<1>4. ValidIngresses(s) <=>
        /\ \A n \in DOMAIN s : Named(s[n])
        /\ \A m, n \in DOMAIN s : m # n => /\ s[m].name # s[n].name
                                          /\ s[m].gateway # s[n].gateway
        /\ Cardinality(defaults) <= 1
  BY Zenon DEF ValidIngresses, Named
<1>5. (\A m, n \in defaults : m = n)
        <=> \A m, n \in DOMAIN s : s[m].isDefault /\ s[n].isDefault => m = n
  OBVIOUS
<1> HIDE DEF defaults
<1> QED BY <1>1, <1>3, <1>4, <1>5

LEMMA ValidInReverse ==
    ASSUME NEW Ingress, NEW s \in Seq(Ingress), ValidIngresses(s)
    PROVE  ValidIngresses(Reverse(s))
<1> DEFINE r == Reverse(s)
           back(n) == Len(s) - n + 1
<1>1. /\ r \in Seq(Ingress) /\ Len(r) = Len(s) /\ Len(s) \in Nat
      /\ \A n \in 1..Len(s) : back(n) \in 1..Len(s) /\ r[n] = s[back(n)]
  <2>1. Len(s) \in Nat
    OBVIOUS
  <2> QED BY <2>1, IngressesInReverse, Zenon
<1>2. \A m, n \in 1..Len(s) : back(m) = back(n) => m = n
  BY <1>1
<1> HIDE DEF r, back
<1>3. \A n \in 1..Len(r) : Named(r[n])
  BY <1>1, ValidMeans
<1>4. \A m, n \in 1..Len(r) : m # n => r[m].name # r[n].name /\ r[m].gateway # r[n].gateway
  BY <1>1, <1>2, ValidMeans
<1>5. ASSUME NEW m \in 1..Len(r), NEW n \in 1..Len(r), r[m].isDefault, r[n].isDefault
      PROVE  m = n
  <2>1. s[back(m)].isDefault /\ s[back(n)].isDefault
    BY <1>1, <1>5
  <2>2. back(m) \in 1..Len(s) /\ back(n) \in 1..Len(s)
    BY <1>1
  <2>3. back(m) = back(n)
    BY <2>1, <2>2, ValidMeans, Zenon
  <2> QED BY <1>1, <1>2, <2>3
<1>6. ValidIngresses(r)
  BY <1>1, <1>3, <1>4, <1>5, ValidMeans
<1> QED BY <1>6 DEF r

\* The ingresses an annotation asks for.
AskedFor(s, a) ==
    {n \in DOMAIN s : IF a = "absent" THEN s[n].isDefault ELSE s[n].name = a}

\* Of ingresses that are valid it is the only one.
LEMMA OnlyOneIsWanted ==
    ASSUME NEW Ingress, NEW s \in Seq(Ingress), ValidIngresses(s), NEW a, a # "unreadable",
           NEW n \in AskedFor(s, a)
    PROVE  ResolveIngress(s, a) = Chosen(s[n])
<1>1. \A m \in AskedFor(s, a) : m = n
  BY ValidMeans DEF AskedFor
<1>2. n \in Nat
  BY DEF AskedFor
<1>3. Min(AskedFor(s, a)) = n
  <2>1. n <= n
    BY <1>2
  <2> HIDE DEF AskedFor
  <2>2. \E m \in AskedFor(s, a) : \A l \in AskedFor(s, a) : m =< l
    BY <1>1, <2>1
  <2>3. Min(AskedFor(s, a)) \in AskedFor(s, a)
    BY <2>2, Zenon DEF Min
  <2> QED BY <1>1, <2>3
<1> QED BY <1>3, Zenon DEF ResolveIngress, AskedFor

LEMMA NoneIsWanted ==
    ASSUME NEW s, ValidIngresses(s), NEW a, a # "unreadable", AskedFor(s, a) = {}
    PROVE  ResolveIngress(s, a) = Refused("UnknownIngress")
BY Zenon DEF ResolveIngress, AskedFor

\* For any list of ingresses and any annotations: the assignment does not
\* depend on the order of the list, and namespaces that name different
\* ingresses share no Gateway (assignment.go:66, :101).
THEOREM AssignmentIsAlwaysUnambiguous ==
    ASSUME NEW Ingress, NEW s \in Seq(Ingress), NEW annotations
    PROVE  AssignmentIsUnambiguous(s, annotations)
<1> DEFINE r == Reverse(s)
<1>1. /\ r \in Seq(Ingress) /\ Len(r) = Len(s) /\ Len(s) \in Nat
      /\ \A n \in 1..Len(s) : Len(s) - n + 1 \in 1..Len(s) /\ r[n] = s[Len(s) - n + 1]
                              /\ r[Len(s) - n + 1] = s[n]
  BY IngressesInReverse
<1>2. ValidIngresses(s) <=> ValidIngresses(r)
  <2>1. Reverse(r) = s
    <3>1. Reverse(r) \in Seq(Ingress) /\ Len(Reverse(r)) = Len(s)
          /\ \A n \in 1..Len(s) : Reverse(r)[n] = r[Len(s) - n + 1]
      <4> HIDE DEF r
      <4> QED BY <1>1, IngressesInReverse
    <3> QED BY <1>1, <3>1, SeqEqual
  <2> QED BY <1>1, <2>1, ValidInReverse
<1> HIDE DEF r
<1>3. ASSUME NEW a
      PROVE  ResolveIngress(s, a) = ResolveIngress(r, a)
  <2>1. CASE ~ValidIngresses(s)
    BY <1>2, <2>1, Zenon DEF ResolveIngress
  <2>2. CASE ValidIngresses(s) /\ a = "unreadable"
    BY <1>2, <2>2, Zenon DEF ResolveIngress
  <2>3. CASE ValidIngresses(s) /\ a # "unreadable"
    <3>1. DOMAIN s = 1..Len(s) /\ DOMAIN r = 1..Len(s)
      BY <1>1
    <3>2. CASE AskedFor(s, a) # {}
      <4>1. PICK n \in AskedFor(s, a) : TRUE
        BY <3>2
      <4>2. Len(s) - n + 1 \in AskedFor(r, a) /\ r[Len(s) - n + 1] = s[n]
        BY <1>1, <3>1 DEF AskedFor
      <4> QED BY <1>1, <1>2, <2>3, <4>1, <4>2, OnlyOneIsWanted
    <3>3. CASE AskedFor(s, a) = {}
      <4>1. AskedFor(r, a) = {}
        BY <1>1, <3>1, <3>3 DEF AskedFor
      <4> QED BY <1>2, <2>3, <3>3, <4>1, NoneIsWanted
    <3> QED BY <3>2, <3>3
  <2> QED BY <2>1, <2>2, <2>3
<1>4. ASSUME NEW a, a # "absent", NEW x \in ResolveIngress(s, a).ingress
      PROVE  /\ ValidIngresses(s)
             /\ \E n \in 1..Len(s) : x = s[n] /\ x.name = a
  <2>1. ValidIngresses(s) /\ a # "unreadable" /\ AskedFor(s, a) # {}
    <3>1. \A error : Refused(error).ingress = {}
      BY DEF Refused
    <3> QED BY <1>4, <3>1, Zenon DEF ResolveIngress, AskedFor
  <2>2. PICK n \in AskedFor(s, a) : TRUE
    BY <2>1
  <2>3. ResolveIngress(s, a) = Chosen(s[n])
    BY <2>1, <2>2, OnlyOneIsWanted
  <2>4. Chosen(s[n]).ingress = {s[n]}
    BY Zenon DEF Chosen
  <2>5. x = s[n]
    BY <1>4, <2>3, <2>4
  <2> QED BY <1>4, <2>1, <2>2, <2>5 DEF AskedFor
<1>5. ASSUME NEW a, NEW b, a # "absent", b # "absent", a # b,
             NEW x \in ResolveIngress(s, a).ingress, NEW y \in ResolveIngress(s, b).ingress
      PROVE  x.gateway # y.gateway
  <2>1. PICK m \in 1..Len(s) : x = s[m] /\ x.name = a
    BY <1>4, <1>5
  <2>2. PICK n \in 1..Len(s) : y = s[n] /\ y.name = b
    BY <1>4, <1>5
  <2> QED BY <1>4, <1>5, <2>1, <2>2, ValidMeans
<1> QED BY <1>3, <1>5 DEF AssignmentIsUnambiguous, r

-----------------------------------------------------------------------------
(***************************************************************************)
(* The validator of PlatformObject implementations.                        *)
(***************************************************************************)

\* Objects whose setters are of the kinds considered.
IsPlatformObject(obj, Entry) ==
    /\ obj = [status |-> obj.status, phase |-> obj.phase, setConditions |-> obj.setConditions,
              setReleases |-> obj.setReleases, conditions |-> obj.conditions,
              releases |-> obj.releases]
    /\ obj.status \in {"pointer", "copy", "nil"}
    /\ obj.setConditions \in {"store", "drop", "append", "merge", "first", "inPlace"}
    /\ obj.setReleases \in {"store", "drop", "append", "first", "inPlace", "nil"}
    /\ obj.conditions \in Seq(Entry) /\ obj.releases \in Seq(Entry)
    /\ {"validation", "Ready", "ProvisioningSucceeded"} \subseteq Entry

\* The elements of a finite set are in the sequence made of them.
LEMMA SetToSeqIsSeq ==
    ASSUME NEW S, IsFiniteSet(S)
    PROVE  /\ SetToSeq(S) \in Seq(S)
           /\ \A x \in S : \E n \in 1..Len(SetToSeq(S)) : SetToSeq(S)[n] = x
<1> DEFINE c == Cardinality(S)
           f == SetToSeq(S)
<1>1. c \in Nat /\ ExistsBijection(1..c, S)
  BY FS_CardinalityType
<1>2. \E g \in [1..c -> S] : IsInjective(g)
  BY <1>1 DEF ExistsBijection, Bijection, Injection, IsInjective
<1>3. f \in [1..c -> S] /\ IsInjective(f)
  BY <1>2, Zenon DEF SetToSeq
<1>4. f \in Injection(1..c, S)
  BY <1>3 DEF Injection, IsInjective
<1>5. IsFiniteSet(1..c) /\ Cardinality(1..c) = c
  BY <1>1, FS_Interval
<1>6. f \in Surjection(1..c, S)
  BY <1>4, <1>5, FS_Injection
<1> HIDE DEF f, c
<1>7. f \in Seq(S) /\ Len(f) = c
  BY <1>1, <1>3
<1>8. \A x \in S : \E n \in 1..c : f[n] = x
  BY <1>6 DEF Surjection
<1> QED BY <1>7, <1>8 DEF f

\* The entries of a list are finitely many.
LEMMA ToSetIsFinite ==
    ASSUME NEW Entry, NEW s \in Seq(Entry)
    PROVE  IsFiniteSet(ToSet(s)) /\ ToSet(s) \subseteq Entry
<1>1. Len(s) \in Nat /\ DOMAIN s = 1..Len(s) /\ \A n \in 1..Len(s) : s[n] \in Entry
  OBVIOUS
<1>2. ToSet(s) = {s[n] : n \in 1..Len(s)}
  BY <1>1 DEF ToSet
<1>3. s \in Surjection(1..Len(s), ToSet(s))
  BY <1>1, <1>2 DEF Surjection
<1>4. IsFiniteSet(1..Len(s))
  BY <1>1, FS_Interval
<1> QED BY <1>1, <1>2, <1>3, <1>4, FS_Surjection

\* A merge puts something behind what is there.
LEMMA MergeAdds ==
    ASSUME NEW Entry, NEW old \in Seq(Entry), NEW new \in Seq(Entry)
    PROVE  \E more \in Seq(Entry) : After("merge", old, new) = old \o more
<1> DEFINE more == SetToSeq(ToSet(new) \ ToSet(old))
<1>1. After("merge", old, new) = old \o more
  BY DEF After
<1>2. IsFiniteSet(ToSet(new) \ ToSet(old)) /\ ToSet(new) \ ToSet(old) \subseteq Entry
  BY ToSetIsFinite, FS_Difference
<1>3. more \in Seq(Entry)
  BY <1>2, SetToSeqIsSeq, SeqMonotonic
<1> QED BY <1>1, <1>3

\* What the other setters leave.
LEMMA AfterIs ==
    ASSUME NEW old, NEW new
    PROVE  /\ After("store", old, new) = new /\ After("inPlace", old, new) = new
           /\ After("drop", old, new) = old /\ After("nil", old, new) = old
           /\ After("append", old, new) = old \o new
           /\ new # <<>> => After("first", old, new) = <<Head(new)>>
BY DEF After

\* What the probe says of a setter that is not one that stores: it is caught
\* when the mandatory conditions are tried.
LEMMA OnlyStoringPasses ==
    ASSUME NEW Entry, NEW obj, IsPlatformObject(obj, Entry),
           CheckConditionsRoundTrip(obj), CheckMandatoryConditionTypes(AfterConditions(obj))
    PROVE  obj.setConditions \in {"store", "inPlace"}
<1> DEFINE style == obj.setConditions
           old == obj.conditions
           left == RoundTrip(style, old, Probe)
           got == After(style, left, Mandatory)
<1>1. old \in Seq(Entry) /\ Probe \in Seq(Entry) /\ Mandatory \in Seq(Entry)
  BY DEF IsPlatformObject, Probe, Mandatory
<1>2. /\ Len(Probe) = 1 /\ Probe[1] = "validation" /\ Probe # <<>>
      /\ Len(Mandatory) = 2 /\ Mandatory # <<>>
  BY DEF Probe, Mandatory
<1>3. AfterConditions(obj).conditions = left /\ AfterConditions(obj).setConditions = style
  BY DEF AfterConditions, IsPlatformObject
<1>4. After(style, old, Probe) = Probe
  BY DEF CheckConditionsRoundTrip
<1>5. Len(got) = 2 /\ ToSet(Mandatory) \subseteq ToSet(got)
  BY <1>2, <1>3 DEF CheckMandatoryConditionTypes
<1>6. left = After(style, Probe, Seen(style, old, Probe))
  BY <1>4 DEF RoundTrip
<1>7. style # "inPlace" => Seen(style, old, Probe) = old
  BY DEF Seen
<1>8. {"Ready", "ProvisioningSucceeded"} \subseteq ToSet(got)
  <2>1. DOMAIN Mandatory = 1..2 /\ Mandatory[1] = "Ready"
        /\ Mandatory[2] = "ProvisioningSucceeded"
    BY DEF Mandatory
  <2>2. ToSet(Mandatory) = {Mandatory[n] : n \in 1..2}
    BY <2>1, Zenon DEF ToSet
  <2>3. "Ready" \in ToSet(Mandatory) /\ "ProvisioningSucceeded" \in ToSet(Mandatory)
    BY <2>1, <2>2
  <2> QED BY <1>5, <2>3
<1>9. style \in {"store", "drop", "append", "merge", "first", "inPlace"}
  BY DEF IsPlatformObject
<1> HIDE DEF style, old, left, got
<1>10. CASE style = "drop"
  <2>1. left = Probe
    BY <1>6, <1>10, AfterIs, Zenon
  <2>2. got = Probe
    BY <1>10, <2>1, AfterIs, Zenon DEF got
  <2> QED BY <1>2, <1>5, <2>2
<1>11. CASE style = "append"
  <2>1. left = Probe \o old
    BY <1>6, <1>7, <1>11, AfterIs
  <2>2. got = left \o Mandatory
    BY <1>11, AfterIs DEF got
  <2> QED BY <1>1, <1>2, <1>5, <2>1, <2>2
<1>12. CASE style = "first"
  <2>1. got = <<Head(Mandatory)>>
    BY <1>2, <1>12, AfterIs DEF got
  <2> QED BY <1>5, <2>1
<1>13. CASE style = "merge"
  <2>0. left = After("merge", Probe, old)
    BY <1>6, <1>7, <1>13
  <2>1. PICK a \in Seq(Entry) : left = Probe \o a
    BY <1>1, <2>0, MergeAdds
  <2>2. left \in Seq(Entry)
    BY <1>1, <2>1
  <2>3. PICK b \in Seq(Entry) : got = left \o b
    BY <1>1, <1>13, <2>2, MergeAdds DEF got
  <2>4. got \in Seq(Entry) /\ got[1] = "validation"
    BY <1>1, <1>2, <2>1, <2>2, <2>3
  <2>5. DOMAIN got = 1..2
    BY <1>5, <2>4
  <2>6. ToSet(got) = {got[1], got[2]}
    BY <2>5 DEF ToSet
  <2> QED BY <1>8, <2>4, <2>6
<1> QED BY <1>9, <1>10, <1>11, <1>12, <1>13 DEF style

\* A setter that keeps every list is one that stores it.
LEMMA KeepingIsStoring ==
    ASSUME NEW Entry, NEW style \in {"store", "drop", "append", "merge", "first", "inPlace"},
           {"validation", "Ready", "ProvisioningSucceeded"} \subseteq Entry,
           NEW lists, {<<>>, <<"Ready">>, Mandatory} \subseteq lists, Keeps(style, lists)
    PROVE  style \in {"store", "inPlace"}
<1> DEFINE ready == <<"Ready">>
<1>1. /\ After(style, <<>>, ready) = ready /\ After(style, ready, ready) = ready
      /\ After(style, ready, <<>>) = <<>> /\ After(style, ready, Mandatory) = Mandatory
  BY DEF Keeps
<1>2. /\ ready \in Seq(Entry) /\ Len(ready) = 1 /\ <<>> \in Seq(Entry) /\ Len(<<>>) = 0
      /\ Mandatory # <<>> /\ Len(Mandatory) = 2
  BY DEF Mandatory
<1> HIDE DEF ready
<1>3. CASE style = "drop"
  BY <1>1, <1>2, <1>3, AfterIs
<1>4. CASE style = "append"
  <2>1. ready \o ready = ready
    BY <1>1, <1>4, AfterIs
  <2> QED BY <1>2, <2>1
<1>5. CASE style = "first"
  <2>1. Mandatory = <<Head(Mandatory)>>
    BY <1>1, <1>2, <1>5, AfterIs
  <2> QED BY <1>2, <2>1
<1>6. CASE style = "merge"
  <2>1. PICK a \in Seq(Entry) : ready \o a = <<>>
    BY <1>1, <1>2, <1>6, MergeAdds
  <2> QED BY <1>2, <2>1
<1> QED BY <1>3, <1>4, <1>5, <1>6

\* The list does not hold what the validator tries setters with.
NoProbe(list) == \A n \in 1..Len(list) : list[n] # "validation"

\* For all objects with the setters considered, whatever they hold besides
\* the validator's own entries: accepted are those that keep the contract, and
\* those whose setter keeps the first release only, or appends to none
\* (validate.go:195).
THEOREM VerdictIsAlwaysExact ==
    ASSUME NEW Entry, NEW obj, IsPlatformObject(obj, Entry), NoProbe(obj.releases),
           NEW lists, {<<>>, <<"Ready">>, Mandatory} \subseteq lists
    PROVE  VerdictIsExact(obj, lists)
<1> DEFINE style == obj.setReleases
<1>1. /\ obj.setConditions \in {"store", "drop", "append", "merge", "first", "inPlace"}
      /\ style \in {"store", "drop", "append", "first", "inPlace", "nil"}
      /\ obj.releases \in Seq(Entry) /\ Probe \in Seq(Entry)
      /\ Probe # <<>> /\ Len(Probe) = 1 /\ Probe[1] = "validation" /\ <<Head(Probe)>> = Probe
  BY DEF IsPlatformObject, Probe
<1>2. ASSUME Keeps(style, lists)
      PROVE  style \in {"store", "inPlace"}
  <2>1. style # "nil"
    <3> DEFINE none == <<>>
               ready == <<"Ready">>
    <3>1. After(style, none, ready) = ready
      BY <1>2 DEF Keeps
    <3>2. none # ready
      OBVIOUS
    <3> HIDE DEF none, ready
    <3>3. After("nil", none, ready) = none
      BY AfterIs
    <3> QED BY <3>1, <3>2, <3>3
  <2> QED BY <1>1, <1>2, <2>1, KeepingIsStoring DEF IsPlatformObject
<1>3. ASSUME Keeps(obj.setConditions, lists)
      PROVE  obj.setConditions \in {"store", "inPlace"}
  BY <1>1, <1>3, KeepingIsStoring DEF IsPlatformObject
<1>4. After(style, obj.releases, Probe) = Probe /\ style # "nil"
        <=> style \in {"store", "inPlace"} \/ PassesUnnoticed(obj)
  <2>1. obj.releases # Probe
    BY <1>1 DEF NoProbe
  <2>2. CASE style \in {"store", "inPlace"}
    BY <2>2, AfterIs
  <2>3. CASE style \in {"drop", "nil"}
    BY <2>1, <2>3, AfterIs DEF PassesUnnoticed
  <2>4. CASE style = "first"
    BY <1>1, <2>4, AfterIs DEF PassesUnnoticed
  <2>5. CASE style = "append"
    <3>1. obj.releases \o Probe = Probe <=> obj.releases = <<>>
      <4> DEFINE l == obj.releases
                 p == Probe
      <4>1. l \in Seq(Entry) /\ p \in Seq(Entry)
        BY <1>1
      <4> HIDE DEF l, p
      <4>2. l \o p = p <=> l = <<>>
        BY <4>1, ConcatEqualIffEmpty
      <4> QED BY <4>2 DEF l, p
    <3>2. After("append", obj.releases, Probe) = obj.releases \o Probe
      BY AfterIs
    <3> QED BY <2>5, <3>1, <3>2 DEF PassesUnnoticed
  <2> QED BY <1>1, <2>2, <2>3, <2>4, <2>5
<1>5. ASSUME obj.status = "pointer", Keeps(obj.setConditions, lists),
             style \in {"store", "inPlace"} \/ PassesUnnoticed(obj)
      PROVE  Accepted(obj)
  <2>1. \A old, new : After(obj.setConditions, old, new) = new
    BY <1>3, <1>5, AfterIs
  <2>2. AfterConditions(obj).setConditions = obj.setConditions
    BY DEF AfterConditions, IsPlatformObject
  <2>3. CheckMandatoryConditionTypes(AfterConditions(obj))
    BY <2>1, <2>2, Zenon DEF CheckMandatoryConditionTypes
  <2>4. CheckGetStatus(obj) /\ CheckPhaseValues(obj)
    BY <1>5 DEF CheckGetStatus, CheckPhaseValues
  <2>5. CheckConditionsRoundTrip(obj) /\ CheckReleaseStatusRoundTrip(obj)
    BY <1>4, <1>5, <2>1 DEF CheckConditionsRoundTrip, CheckReleaseStatusRoundTrip
  <2> QED BY <2>3, <2>4, <2>5 DEF Accepted
<1>6. ASSUME Accepted(obj)
      PROVE  /\ obj.status = "pointer" /\ Keeps(obj.setConditions, lists)
             /\ Keeps(style, lists) \/ PassesUnnoticed(obj)
  <2>1. obj.setConditions \in {"store", "inPlace"}
    BY <1>6, OnlyStoringPasses DEF Accepted
  <2>2. \A x \in {"store", "inPlace"} : Keeps(x, lists)
    BY AfterIs DEF Keeps
  <2>3. obj.status = "pointer"
    BY <1>6 DEF Accepted, CheckPhaseValues, IsPlatformObject
  <2>4. style \in {"store", "inPlace"} \/ PassesUnnoticed(obj)
    BY <1>4, <1>6 DEF Accepted, CheckReleaseStatusRoundTrip
  <2> QED BY <2>1, <2>2, <2>3, <2>4
<1> QED BY <1>2, <1>5, <1>6 DEF VerdictIsExact

\* What a round trip leaves of a list, by the setter.
LEMMA RoundTripIs ==
    ASSUME NEW old, NEW new
    PROVE  /\ RoundTrip("store", old, new) = old
           /\ RoundTrip("append", old, new) = (old \o new) \o old
           /\ RoundTrip("first", old, new) = IF old = <<>> THEN <<>> ELSE <<Head(old)>>
<1>1. \A style : style # "inPlace" =>
        RoundTrip(style, old, new) = After(style, After(style, old, new), old)
  BY DEF RoundTrip, Seen
<1>2. \A x, y : After("store", x, y) = y /\ After("append", x, y) = x \o y
  BY AfterIs
<1>3. \A x, y : After("first", x, y) = IF y = <<>> THEN <<>> ELSE <<Head(y)>>
  BY Zenon DEF After
<1>4. RoundTrip("store", old, new) = old
  BY <1>1, <1>2, Zenon
<1>5. RoundTrip("append", old, new) = (old \o new) \o old
  BY <1>1, <1>2, Zenon
<1>6. RoundTrip("first", old, new) = IF old = <<>> THEN <<>> ELSE <<Head(old)>>
  BY <1>1, <1>3, Zenon
<1> QED BY <1>4, <1>5, <1>6

\* In place, the entries tried replace the first ones if they fit.
LEMMA InPlaceIs ==
    ASSUME NEW Entry, NEW old \in Seq(Entry), NEW new \in Seq(Entry)
    PROVE  LET left == RoundTrip("inPlace", old, new)
           IN  /\ left \in Seq(Entry) /\ Len(left) = Len(old)
               /\ \A k \in 1..Len(old) :
                    left[k] = IF Len(new) <= Len(old) /\ k <= Len(new) THEN new[k] ELSE old[k]
<1> DEFINE left == RoundTrip("inPlace", old, new)
           m == Len(new)
           n == Len(old)
           rest == SubSeq(old, m + 1, n)
<1>1. left = IF m <= n THEN new \o rest ELSE old
  BY AfterIs DEF RoundTrip, Seen
<1>2. m \in Nat /\ n \in Nat /\ \A k \in 1..n : old[k] \in Entry
  OBVIOUS
<1> HIDE DEF left
<1>3. CASE m <= n
  <2>1. /\ rest \in Seq(Entry) /\ Len(rest) = n - m
        /\ \A i \in 1..(n - m) : rest[i] = old[m + i]
    <3> HIDE DEF m, n
    <3>1. m + 1 \in Int /\ n \in Int /\ \A i \in (m + 1)..n : old[i] \in Entry
      BY <1>2
    <3>2. /\ rest \in Seq(Entry) /\ Len(rest) = IF m + 1 <= n THEN n - (m + 1) + 1 ELSE 0
          /\ \A i \in 1..(n - (m + 1) + 1) : rest[i] = old[(m + 1) + i - 1]
      BY <3>1, SubSeqProperties
    <3> HIDE DEF rest
    <3> QED BY <1>2, <1>3, <3>2
  <2> HIDE DEF rest
  <2>2. /\ left \in Seq(Entry) /\ Len(left) = m + (n - m)
        /\ \A k \in 1..(m + (n - m)) : left[k] = IF k <= m THEN new[k] ELSE rest[k - m]
    BY <1>1, <1>3, <2>1, ConcatProperties
  <2>3. ASSUME NEW k \in 1..n
        PROVE  left[k] = IF k <= m THEN new[k] ELSE old[k]
    <3> HIDE DEF m, n
    <3>1. k \in 1..(m + (n - m))
      BY <1>2
    <3>2. ~(k <= m) => k - m \in 1..(n - m) /\ m + (k - m) = k
      BY <1>2
    <3> QED BY <2>1, <2>2, <3>1, <3>2
  <2> QED BY <1>2, <1>3, <2>2, <2>3 DEF left
<1>4. CASE ~(m <= n)
  BY <1>1, <1>4 DEF left
<1> QED BY <1>3, <1>4

\* Conditions written in place, tried with one entry and then with two.
LEMMA InPlaceConditions ==
    ASSUME NEW Entry, NEW old \in Seq(Entry), NoProbe(old),
           {"validation", "Ready", "ProvisioningSucceeded"} \subseteq Entry
    PROVE  RoundTrip("inPlace", RoundTrip("inPlace", old, Probe), Mandatory) = old
             <=> old = <<>> \/ IsPrefix(Mandatory, old)
<1> DEFINE n == Len(old)
           one == RoundTrip("inPlace", old, Probe)
           two == RoundTrip("inPlace", one, Mandatory)
<1>1. n \in Nat /\ old \in [1..n -> Entry]
  OBVIOUS
<1>2. /\ Probe \in Seq(Entry) /\ Len(Probe) = 1 /\ Probe # <<>> /\ Probe[1] = "validation"
      /\ Mandatory \in Seq(Entry) /\ Len(Mandatory) = 2 /\ Mandatory # <<>>
      /\ Mandatory[1] = "Ready" /\ Mandatory[2] = "ProvisioningSucceeded"
  BY DEF Probe, Mandatory
<1>3. /\ one \in Seq(Entry) /\ Len(one) = n
      /\ \A k \in 1..n : one[k] = IF k = 1 THEN "validation" ELSE old[k]
  <2>1. /\ one \in Seq(Entry) /\ Len(one) = n
        /\ \A k \in 1..n : one[k] = IF 1 <= n /\ k <= 1 THEN Probe[k] ELSE old[k]
    BY <1>2, InPlaceIs
  <2> HIDE DEF one, n
  <2> QED BY <1>1, <1>2, <2>1
<1> HIDE DEF one
<1>4. /\ two \in Seq(Entry) /\ Len(two) = n
      /\ \A k \in 1..n : two[k] = IF 2 <= n /\ k <= 2 THEN Mandatory[k] ELSE one[k]
  <2> DEFINE L == Len(one)
             M == Len(Mandatory)
  <2>1. /\ two \in Seq(Entry) /\ Len(two) = L
        /\ \A k \in 1..L : two[k] = IF M <= L /\ k <= M THEN Mandatory[k] ELSE one[k]
    BY <1>2, <1>3, InPlaceIs, Zenon
  <2>2. L = n /\ M = 2
    BY <1>2, <1>3
  <2> HIDE DEF L, M, two, n
  <2> QED BY <2>1, <2>2
<1> HIDE DEF two
<1>5. CASE n = 0
  <2>1. old = <<>>
    BY <1>1, <1>5
  <2>2. two = <<>>
    BY <1>4, <1>5
  <2> QED BY <2>1, <2>2 DEF one, two
<1>6. CASE n = 1
  <2>1. 1 \in 1..n /\ ~(2 <= n)
    BY <1>6
  <2>2. two[1] = "validation" /\ old[1] # "validation"
    BY <1>3, <1>4, <2>1 DEF NoProbe
  <2>3. old # <<>> /\ ~IsPrefix(Mandatory, old)
    BY <1>2, <1>6 DEF IsPrefix
  <2> QED BY <2>2, <2>3 DEF one, two
<1>7. CASE n >= 2
  <2>1. 1 \in 1..n /\ 2 \in 1..n
    BY <1>1, <1>7
  <2>2. two[1] = "Ready" /\ two[2] = "ProvisioningSucceeded"
    BY <1>2, <1>4, <1>7, <2>1
  <2>3. ASSUME NEW k \in 3..n PROVE two[k] = old[k]
    <3>1. k \in 1..n /\ ~(k <= 2) /\ k # 1
      BY <1>1
    <3> QED BY <1>3, <1>4, <3>1
  <2>4. two = old <=> old[1] = "Ready" /\ old[2] = "ProvisioningSucceeded"
    <3>1. ASSUME old[1] = "Ready", old[2] = "ProvisioningSucceeded"
          PROVE  two = old
      <4>1. \A k \in 1..n : two[k] = old[k]
        BY <1>1, <1>7, <2>2, <2>3, <3>1
      <4> QED BY <1>4, <4>1, SeqEqual
    <3> QED BY <2>2, <3>1
  <2>5. IsPrefix(Mandatory, old) <=> old[1] = "Ready" /\ old[2] = "ProvisioningSucceeded"
    <3> DEFINE m == SubSeq(Mandatory, 1, 2)
               o == SubSeq(old, 1, 2)
    <3>1. /\ m \in Seq(Entry) /\ Len(m) = 2 /\ m[1] = "Ready" /\ m[2] = "ProvisioningSucceeded"
          /\ o \in Seq(Entry) /\ Len(o) = 2 /\ o[1] = old[1] /\ o[2] = old[2]
      BY <1>1, <1>2, <1>7
    <3>2. IsPrefix(Mandatory, old) <=> m = o
      BY <1>1, <1>2, <1>7 DEF IsPrefix
    <3> HIDE DEF m, o
    <3>3. m = o <=> (\A k \in 1..2 : m[k] = o[k])
      BY <3>1, SeqEqual
    <3> QED BY <3>1, <3>2, <3>3
  <2>6. old # <<>>
    BY <1>7
  <2> QED BY <2>4, <2>5, <2>6 DEF one, two
<1> QED BY <1>1, <1>5, <1>6, <1>7

\* For all of them: an accepted one is left as it was just where setters store
\* what they are given apart from the old list, or there is nothing to lose
\* (validate.go:94).
THEOREM TraceIsAlwaysExact ==
    ASSUME NEW Entry, NEW obj, IsPlatformObject(obj, Entry),
           NoProbe(obj.conditions), NoProbe(obj.releases)
    PROVE  TraceIsExact(obj)
<1> SUFFICES ASSUME Accepted(obj)
             PROVE  Validated(obj) = obj <=>
                        /\ obj.setConditions = "inPlace" =>
                              obj.conditions = <<>> \/ IsPrefix(Mandatory, obj.conditions)
                        /\ obj.setReleases = "inPlace" => obj.releases = <<>>
                        /\ obj.setReleases = "first" => Len(obj.releases) <= 1
                        /\ obj.setReleases # "append"
  BY DEF TraceIsExact
<1> DEFINE c == RoundTrip(obj.setConditions,
                          RoundTrip(obj.setConditions, obj.conditions, Probe), Mandatory)
           rel == RoundTrip(obj.setReleases, obj.releases, Probe)
<1>1. obj.setConditions \in {"store", "inPlace"}
  BY OnlyStoringPasses DEF Accepted
<1>2. /\ obj.releases \in Seq(Entry) /\ obj.conditions \in Seq(Entry)
      /\ Probe \in Seq(Entry) /\ Mandatory \in Seq(Entry) /\ Probe # <<>> /\ Mandatory # <<>>
      /\ Len(Probe) = 1 /\ Probe[1] = "validation"
  BY DEF IsPlatformObject, Probe, Mandatory
<1>3. obj.setReleases \in {"store", "append", "first", "inPlace"}
  <2>1. obj.setReleases \in {"store", "drop", "append", "first", "inPlace"}
    BY DEF Accepted, CheckReleaseStatusRoundTrip, IsPlatformObject
  <2>2. obj.releases # Probe
    BY <1>2 DEF NoProbe
  <2>3. obj.setReleases # "drop"
    BY <2>2, AfterIs DEF Accepted, CheckReleaseStatusRoundTrip
  <2> QED BY <2>1, <2>3
<1>4. Validated(obj) = obj <=> c = obj.conditions /\ rel = obj.releases
  <2>1. Validated(obj) = [obj EXCEPT !.conditions = c, !.releases = rel]
    <3>1. AfterMandatory(AfterConditions(obj)) = [obj EXCEPT !.conditions = c]
      BY DEF AfterMandatory, AfterConditions, IsPlatformObject
    <3> DEFINE o == [obj EXCEPT !.conditions = c]
    <3> HIDE DEF c
    <3>2. o.setReleases = obj.setReleases /\ o.releases = obj.releases
      BY DEF IsPlatformObject
    <3>3. AfterReleases(o) = [o EXCEPT !.releases = rel]
      BY <1>3, <3>2 DEF AfterReleases
    <3> HIDE DEF rel
    <3> QED BY <3>1, <3>3 DEF Validated, IsPlatformObject
  <2> HIDE DEF c, rel
  <2> QED BY <2>1 DEF IsPlatformObject
<1>5. c = obj.conditions <=>
        (obj.setConditions = "inPlace" =>
            obj.conditions = <<>> \/ IsPrefix(Mandatory, obj.conditions))
  <2>1. CASE obj.setConditions = "store"
    BY <1>2, <2>1, RoundTripIs
  <2>2. CASE obj.setConditions = "inPlace"
    BY <1>2, <2>2, InPlaceConditions DEF IsPlatformObject
  <2> QED BY <1>1, <2>1, <2>2
<1>6. CASE obj.setReleases = "store"
  <2>1. rel = obj.releases
    BY <1>2, <1>6, RoundTripIs
  <2> HIDE DEF c, rel
  <2> QED BY <1>4, <1>5, <1>6, <2>1
<1>7. CASE obj.setReleases = "inPlace"
  <2>1. rel = obj.releases <=> obj.releases = <<>>
    <3> DEFINE l == obj.releases
               n == Len(l)
    <3>1. /\ rel \in Seq(Entry) /\ Len(rel) = n
          /\ \A k \in 1..n : rel[k] = IF 1 <= n /\ k <= 1 THEN Probe[k] ELSE l[k]
      <4> DEFINE M == Len(Probe)
      <4>1. rel = RoundTrip("inPlace", l, Probe) /\ l \in Seq(Entry)
        BY <1>2, <1>7, Zenon
      <4> HIDE DEF rel, l
      <4>2. /\ rel \in Seq(Entry) /\ Len(rel) = n
            /\ \A k \in 1..n : rel[k] = IF M <= n /\ k <= M THEN Probe[k] ELSE l[k]
        BY <1>2, <4>1, InPlaceIs, Zenon
      <4>3. M = 1
        BY <1>2
      <4> HIDE DEF M, n
      <4> QED BY <4>2, <4>3
    <3> HIDE DEF rel
    <3>2. CASE l = <<>>
      BY <3>1, <3>2
    <3>3. CASE l # <<>>
      <4>1. n \in Nat /\ n >= 1 /\ 1 \in 1..n /\ l[1] # "validation"
        BY <1>2, <3>3 DEF NoProbe
      <4>2. rel[1] = "validation"
        BY <1>2, <3>1, <4>1
      <4> QED BY <3>3, <4>1, <4>2
    <3> QED BY <3>2, <3>3
  <2> HIDE DEF c, rel
  <2> QED BY <1>4, <1>5, <1>7, <2>1
<1>8. CASE obj.setReleases = "first"
  <2>1. rel = obj.releases <=> Len(obj.releases) <= 1
    <3>1. rel = IF obj.releases = <<>> THEN <<>> ELSE <<Head(obj.releases)>>
      BY <1>2, <1>8, RoundTripIs
    <3> HIDE DEF rel
    <3>2. CASE obj.releases = <<>>
      BY <3>1, <3>2
    <3>3. CASE obj.releases # <<>>
      <4>1. rel = <<obj.releases[1]>> /\ Len(rel) = 1
        BY <3>1, <3>3
      <4>2. Len(obj.releases) = 1 => <<obj.releases[1]>> = obj.releases
        BY <1>2
      <4>3. Len(obj.releases) \in Nat \ {0}
        BY <1>2, <3>3
      <4> DEFINE l == obj.releases
                 e == <<l[1]>>
      <4>4. rel = e /\ Len(rel) = 1 /\ (Len(l) = 1 => e = l) /\ Len(l) \in Nat \ {0}
        BY <4>1, <4>2, <4>3
      <4> HIDE DEF e, l
      <4>5. rel = l <=> Len(l) <= 1
        BY <4>4
      <4> QED BY <4>5 DEF l
    <3> QED BY <3>2, <3>3
  <2> HIDE DEF c, rel
  <2> QED BY <1>4, <1>5, <1>8, <2>1
<1>9. CASE obj.setReleases = "append"
  <2>1. rel # obj.releases
    <3>1. rel = (obj.releases \o Probe) \o obj.releases
      BY <1>2, <1>9, RoundTripIs
    <3>2. /\ obj.releases \o Probe \in Seq(Entry)
          /\ Len(obj.releases \o Probe) = Len(obj.releases) + Len(Probe)
      BY <1>2, ConcatProperties, Zenon
    <3>3. Len(rel) = Len(obj.releases \o Probe) + Len(obj.releases)
      <4> DEFINE l == obj.releases
                 p == obj.releases \o Probe
      <4>1. l \in Seq(Entry) /\ p \in Seq(Entry) /\ rel = p \o l
        BY <1>2, <3>1, <3>2
      <4> HIDE DEF l, p, rel
      <4>2. Len(p \o l) = Len(p) + Len(l)
        BY <4>1, ConcatProperties
      <4>3. Len(rel) = Len(p) + Len(l)
        BY <4>1, <4>2
      <4> QED BY <4>3 DEF l, p
    <3> HIDE DEF rel
    <3> DEFINE l == obj.releases
               n == Len(l)
    <3>4. n \in Nat /\ Len(rel) = n + 1 + n
      BY <1>2, <3>2, <3>3
    <3> HIDE DEF n
    <3>5. Len(rel) # n
      BY <3>4
    <3> QED BY <3>5 DEF n
  <2> HIDE DEF c, rel
  <2> QED BY <1>4, <1>9, <2>1
<1> HIDE DEF c, rel
<1> QED BY <1>3, <1>6, <1>7, <1>8, <1>9

-----------------------------------------------------------------------------
(***************************************************************************)
(* The metadata options.                                                   *)
(***************************************************************************)

\* What the options leave, one after the other.
Runs(g, obj, options) ==
    g = [n \in 0..Len(options) |->
            IF n = 0 THEN Done(obj) ELSE ApplyOption(g[n - 1], options[n])]

LEMMA RunExists ==
    ASSUME NEW Item, NEW options \in Seq(Item), NEW obj
    PROVE  \E g : Runs(g, obj, options) /\ ApplyMetaOptions(obj, options) = g[Len(options)]
<1> DEFINE L == Len(options)
           def(g, N) == [n \in 0..N |->
                           IF n = 0 THEN Done(obj) ELSE ApplyOption(g[n - 1], options[n])]
           P == {N \in 0..L : \E g : g = def(g, N)}
<1>0. L \in Nat
  OBVIOUS
<1>1. 0 \in P
  <2> DEFINE g == [n \in 0..0 |-> Done(obj)]
  <2>1. def(g, 0) = g
    OBVIOUS
  <2> HIDE DEF g, def
  <2> QED BY <1>0, <2>1
<1>2. ASSUME NEW N \in 1..L, N - 1 \in P
      PROVE  N \in P
  <2>1. PICK g : g = def(g, N - 1)
    BY <1>2
  <2> DEFINE h == [n \in 0..N |-> IF n = N THEN ApplyOption(g[N - 1], options[N]) ELSE g[n]]
  <2>2. \A n \in 0..(N - 1) : h[n] = g[n]
    BY <1>0
  <2>3. ASSUME NEW n \in 0..N
        PROVE  h[n] = IF n = 0 THEN Done(obj) ELSE ApplyOption(h[n - 1], options[n])
    <3>1. CASE n = N
      <4>1. N # 0 /\ N - 1 \in 0..(N - 1) /\ N \in 0..N
        BY <1>0
      <4>2. h[N] = ApplyOption(g[N - 1], options[N])
        BY <4>1
      <4> HIDE DEF h
      <4> QED BY <2>2, <3>1, <4>1, <4>2
    <3>2. CASE n # N
      <4>1. n \in 0..(N - 1) /\ (n # 0 => n - 1 \in 0..(N - 1))
        BY <1>0, <3>2
      <4>2. g[n] = IF n = 0 THEN Done(obj) ELSE ApplyOption(g[n - 1], options[n])
        BY <2>1, <4>1
      <4> HIDE DEF h
      <4> QED BY <2>2, <4>1, <4>2
    <3> QED BY <3>1, <3>2
  <2>4. h = def(h, N)
    <3>1. h = [n \in 0..N |-> h[n]]
      OBVIOUS
    <3> HIDE DEF h
    <3> QED BY <2>3, <3>1
  <2> HIDE DEF h, def
  <2> QED BY <2>4
<1>3. \E g : g = def(g, L)
  <2>1. 0..L \subseteq P
    <3> HIDE DEF P, L
    <3> QED BY <1>0, <1>1, <1>2, UpToBound
  <2>2. L \in 0..L
    BY <1>0
  <2> QED BY <2>1, <2>2
<1> DEFINE after == CHOOSE g : g = def(g, L)
<1>4. after = def(after, L)
  <2> HIDE DEF def
  <2> QED BY <1>3, Zenon
<1>5. ApplyMetaOptions(obj, options) = after[L]
  BY Zenon DEF ApplyMetaOptions
<1> HIDE DEF after
<1>6. Runs(after, obj, options)
  BY <1>4 DEF Runs
<1> QED BY <1>5, <1>6

Refs(Uid) == Seq([uid : Uid, controller : BOOLEAN])
OneRefEach(refs) == \A m, n \in DOMAIN refs : refs[m].uid = refs[n].uid => m = n
OneController(refs) ==
    \A m, n \in DOMAIN refs : refs[m].controller /\ refs[n].controller => m = n

\* What an upsert does to references of which no two have the same owner: the
\* new one is there, nothing else changes, and one that was there changes
\* nothing.
LEMMA UpsertIs ==
    ASSUME NEW Uid, NEW refs \in Refs(Uid), OneRefEach(refs),
           NEW ref \in [uid : Uid, controller : BOOLEAN]
    PROVE  LET new == UpsertOwnerRef(refs, ref)
           IN  /\ new \in Refs(Uid) /\ OneRefEach(new)
               /\ \E m \in DOMAIN new : new[m] = ref
               /\ \A m \in DOMAIN new : new[m] = ref \/ (m \in DOMAIN refs /\ new[m] = refs[m])
               /\ \A m \in DOMAIN refs :
                     refs[m].uid # ref.uid => m \in DOMAIN new /\ new[m] = refs[m]
               /\ (\E m \in DOMAIN refs : refs[m] = ref) => new = refs
<1> DEFINE new == UpsertOwnerRef(refs, ref)
<1>0. DOMAIN refs = 1..Len(refs) /\ Len(refs) \in Nat
  BY DEF Refs
<1>1. CASE \E n \in DOMAIN refs : refs[n].uid = ref.uid
  <2>1. PICK n \in DOMAIN refs : refs[n].uid = ref.uid
    BY <1>1
  <2>2. \A m \in DOMAIN refs : refs[m].uid = ref.uid => m = n
    BY <2>1 DEF OneRefEach
  <2>3. \A m \in 1..(n - 1) : refs[m].uid # ref.uid
    BY <1>0, <2>1, <2>2
  <2> DEFINE place == CHOOSE m \in DOMAIN refs :
                      /\ refs[m].uid = ref.uid
                      /\ \A l \in 1..(m - 1) : refs[l].uid # ref.uid
  <2>4. place = n
    <3>1. place \in DOMAIN refs /\ refs[place].uid = ref.uid
      BY <2>1, <2>3, Zenon
    <3> QED BY <2>2, <3>1
  <2>5. new = [refs EXCEPT ![place] = ref]
    BY <1>1, Zenon DEF UpsertOwnerRef
  <2> HIDE DEF place, new
  <2>6. new = [refs EXCEPT ![n] = ref]
    BY <2>4, <2>5
  <2>7. new \in Refs(Uid) /\ DOMAIN new = DOMAIN refs
    BY <1>0, <2>6 DEF Refs
  <2>8. \A m \in DOMAIN refs : new[m] = IF m = n THEN ref ELSE refs[m]
    BY <2>6 DEF Refs
  <2>9. OneRefEach(new)
    BY <2>1, <2>2, <2>7, <2>8 DEF OneRefEach
  <2>10. ASSUME NEW m \in DOMAIN refs, refs[m] = ref
         PROVE  new = refs
    <3>1. m = n
      BY <2>2, <2>10
    <3>2. \A l \in DOMAIN refs : new[l] = refs[l]
      BY <2>8, <2>10, <3>1
    <3> QED BY <2>6, <2>10, <3>1 DEF Refs
  <2> QED BY <2>1, <2>2, <2>7, <2>8, <2>9, <2>10 DEF new
<1>2. CASE \A n \in DOMAIN refs : refs[n].uid # ref.uid
  <2>1. new = Append(refs, ref)
    BY <1>2, Zenon DEF UpsertOwnerRef
  <2> HIDE DEF new
  <2>2. /\ new \in Refs(Uid) /\ DOMAIN new = 1..(Len(refs) + 1) /\ new[Len(refs) + 1] = ref
        /\ \A m \in DOMAIN refs : m \in DOMAIN new /\ new[m] = refs[m]
        /\ \A m \in DOMAIN new : m # Len(refs) + 1 => m \in DOMAIN refs
    BY <1>0, <2>1 DEF Refs
  <2>3. Len(refs) + 1 \in DOMAIN new
    BY <1>0, <2>2
  <2>4. OneRefEach(new)
    BY <1>2, <2>2 DEF OneRefEach
  <2>5. \A m \in DOMAIN refs : refs[m] # ref
    BY <1>2
  <2> QED BY <2>2, <2>3, <2>4, <2>5 DEF new
<1> QED BY <1>1, <1>2

\* The references options ask for, and whether they can fail.
IsRefOption(o) == o.option \in {"OwnedBy", "ControlledBy"}
RefOf(o) == [uid |-> o.owner.uid, controller |-> o.option = "ControlledBy"]

Option(Owner) == [option : {"OwnedBy", "ControlledBy", "WithOwnerAnnotations"}, owner : Owner]

LEMMA OptionsAre ==
    ASSUME NEW Owner, NEW options \in Seq(Option(Owner))
    PROVE  /\ Len(options) \in Nat /\ DOMAIN options = 1..Len(options)
           /\ \A n \in DOMAIN options :
                /\ options[n].option \in {"OwnedBy", "ControlledBy", "WithOwnerAnnotations"}
                /\ options[n].owner \in Owner
<1>1. /\ Len(options) \in Nat /\ DOMAIN options = 1..Len(options)
      /\ \A n \in 1..Len(options) : options[n] \in Option(Owner)
  OBVIOUS
<1> QED BY <1>1 DEF Option

\* The option's owner has what the option asks of it.
Accepts(o) == Complete(o.owner) /\ (IsRefOption(o) => Referable(o.owner))

\* What an option makes of what the ones before it left.
LEMMA OptionIs ==
    ASSUME NEW obj, obj = [refs |-> obj.refs, owner |-> obj.owner], NEW o,
           o.option \in {"OwnedBy", "ControlledBy", "WithOwnerAnnotations"}
    PROVE  LET r == ApplyOption(Done(obj), o)
           IN  \/ /\ r = Failing(obj)
                  /\ \/ ~Accepts(o)
                     \/ o.option = "ControlledBy" /\ OtherController(obj.refs, o.owner.uid)
               \/ /\ Accepts(o) /\ IsRefOption(o)
                  /\ o.option = "ControlledBy" => ~OtherController(obj.refs, o.owner.uid)
                  /\ r = Done([refs |-> UpsertOwnerRef(obj.refs, RefOf(o)), owner |-> obj.owner])
               \/ /\ Accepts(o) /\ o.option = "WithOwnerAnnotations"
                  /\ r = Done([refs |-> obj.refs, owner |-> o.owner])
<1>1. Done(obj).failed = FALSE /\ Done(obj).obj = obj
  BY DEF Done
<1>2. CASE o.option = "OwnedBy"
  <2>1. ApplyOption(Done(obj), o) = OwnedBy(obj, o.owner)
    BY <1>1, <1>2 DEF ApplyOption
  <2>2. RefOf(o) = [uid |-> o.owner.uid, controller |-> FALSE] /\ IsRefOption(o)
    BY <1>2 DEF RefOf, IsRefOption
  <2>3. WithRef(obj, o.owner, FALSE) =
          Done([refs |-> UpsertOwnerRef(obj.refs, RefOf(o)), owner |-> obj.owner])
    BY <2>2 DEF WithRef
  <2> QED BY <1>2, <2>1, <2>2, <2>3 DEF OwnedBy, Accepts, Referable
<1>3. CASE o.option = "ControlledBy"
  <2>1. ApplyOption(Done(obj), o) = ControlledBy(obj, o.owner)
    BY <1>1, <1>3 DEF ApplyOption
  <2>2. RefOf(o) = [uid |-> o.owner.uid, controller |-> TRUE] /\ IsRefOption(o)
    BY <1>3 DEF RefOf, IsRefOption
  <2>3. WithRef(obj, o.owner, TRUE) =
          Done([refs |-> UpsertOwnerRef(obj.refs, RefOf(o)), owner |-> obj.owner])
    BY <2>2 DEF WithRef
  <2> QED BY <1>3, <2>1, <2>2, <2>3 DEF ControlledBy, Accepts, Referable
<1>4. CASE o.option = "WithOwnerAnnotations"
  <2>1. ApplyOption(Done(obj), o) = WithOwnerAnnotations(obj, o.owner)
    BY <1>1, <1>4 DEF ApplyOption
  <2>2. [obj EXCEPT !.owner = o.owner] = [refs |-> obj.refs, owner |-> o.owner]
    OBVIOUS
  <2> QED BY <1>4, <2>1, <2>2 DEF WithOwnerAnnotations, Accepts, IsRefOption
<1> QED BY <1>2, <1>3, <1>4

\* A controller is only added if there is no other.
LEMMA ControllerStaysOne ==
    ASSUME NEW Uid, NEW refs \in Refs(Uid), OneRefEach(refs), OneController(refs),
           NEW o, o.owner.uid \in Uid, IsRefOption(o),
           o.option = "ControlledBy" => ~OtherController(refs, o.owner.uid)
    PROVE  OneController(UpsertOwnerRef(refs, RefOf(o)))
<1> DEFINE ref == RefOf(o)
           new == UpsertOwnerRef(refs, ref)
<1> SUFFICES OneController(new)
  OBVIOUS
<1>1. /\ ref \in [uid : Uid, controller : BOOLEAN] /\ ref.uid = o.owner.uid
      /\ ref.controller <=> o.option = "ControlledBy"
  BY DEF RefOf
<1>2. /\ OneRefEach(new)
      /\ \A m \in DOMAIN new : new[m] = ref \/ (m \in DOMAIN refs /\ new[m] = refs[m])
  <2> HIDE DEF ref
  <2> QED BY <1>1, UpsertIs
<1> HIDE DEF new, ref
<1>3. ASSUME o.option = "ControlledBy", NEW m \in DOMAIN new, new[m].controller
      PROVE  new[m].uid = ref.uid
  BY <1>1, <1>2, <1>3 DEF OtherController
<1>4. CASE o.option = "ControlledBy"
  BY <1>2, <1>3, <1>4 DEF OneController, OneRefEach
<1>5. CASE o.option # "ControlledBy"
  <2>1. \A m \in DOMAIN new : new[m].controller => m \in DOMAIN refs /\ refs[m].controller
    BY <1>1, <1>2, <1>5
  <2> QED BY <2>1 DEF OneController
<1> QED BY <1>4, <1>5

Stamps(options, n) == {k \in 1..n : options[k].option = "WithOwnerAnnotations"}

\* Whom an object is annotated with after n options: the last of their
\* owners, the one before them if there is none.
OwnerIs(owner, options, n, before) ==
    \/ Stamps(options, n) = {} /\ owner = before
    \/ \E k \in Stamps(options, n) :
          (\A l \in Stamps(options, n) : l <= k) /\ owner = options[k].owner

LEMMA OwnerAfterOption ==
    ASSUME NEW n \in Nat \ {0}, NEW options, NEW owner, NEW then, NEW before,
           OwnerIs(owner, options, n - 1, before),
           \/ options[n].option # "WithOwnerAnnotations" /\ then = owner
           \/ options[n].option = "WithOwnerAnnotations" /\ then = options[n].owner
    PROVE  OwnerIs(then, options, n, before)
<1>1. 1..n = 1..(n - 1) \union {n} /\ \A k \in 1..n : k <= n
  OBVIOUS
<1>2. CASE options[n].option # "WithOwnerAnnotations" /\ then = owner
  <2>1. Stamps(options, n) = Stamps(options, n - 1)
    BY <1>1, <1>2 DEF Stamps
  <2> QED BY <1>2, <2>1 DEF OwnerIs
<1>3. CASE options[n].option = "WithOwnerAnnotations" /\ then = options[n].owner
  <2>1. n \in Stamps(options, n) /\ \A l \in Stamps(options, n) : l <= n
    BY <1>1, <1>3 DEF Stamps
  <2> QED BY <1>3, <2>1 DEF OwnerIs
<1> QED BY <1>2, <1>3

\* After n options.  What each of them asked for is still there if no owner
\* is asked for in two ways.
OptionsInv(r, options, n, Uid) ==
    /\ r \in {Done(r.obj), Failing(r.obj)}
    /\ r.obj = [refs |-> r.obj.refs, owner |-> r.obj.owner]
    /\ r.obj.refs \in Refs(Uid) /\ OneRefEach(r.obj.refs) /\ OneController(r.obj.refs)
    /\ ~r.failed =>
        /\ \A k \in 1..n : Accepts(options[k])
        /\ OwnerIs(r.obj.owner, options, n, NoOwner)
        /\ Downgraded(options) = {} =>
              \A k \in 1..n : IsRefOption(options[k]) =>
                  \E m \in DOMAIN r.obj.refs : r.obj.refs[m] = RefOf(options[k])

\* A UID is that of one owner.
UidsIdentify(Owner) ==
    \A a, b \in Owner : Complete(a) /\ Complete(b) /\ a.uid = b.uid => a = b

\* Options that ask for references to the same owner ask for the same one.
LEMMA SameOwnerSameRef ==
    ASSUME NEW Owner, UidsIdentify(Owner), NEW options \in Seq(Option(Owner)),
           Downgraded(options) = {},
           NEW m \in DOMAIN options, NEW n \in DOMAIN options,
           IsRefOption(options[m]), IsRefOption(options[n]),
           Accepts(options[m]), Accepts(options[n]),
           options[m].owner.uid = options[n].owner.uid
    PROVE  RefOf(options[m]) = RefOf(options[n])
<1>1. options[m].owner = options[n].owner
  <2>1. options[m].owner \in Owner /\ options[n].owner \in Owner
    BY OptionsAre
  <2> QED BY <2>1 DEF UidsIdentify, Accepts
<1>2. ASSUME NEW i \in DOMAIN options, NEW j \in DOMAIN options,
             options[i].option = "OwnedBy", options[j].option = "ControlledBy",
             options[i].owner = options[j].owner
      PROVE  FALSE
  <2>1. options[i].owner \in Downgraded(options)
    BY <1>2, Zenon DEF Downgraded
  <2> QED BY <2>1
<1>3. options[m].option = options[n].option
  BY <1>1, <1>2 DEF IsRefOption
<1> QED BY <1>1, <1>3 DEF RefOf

LEMMA OptionsInitially ==
    ASSUME NEW Uid, NEW options
    PROVE  OptionsInv(Done(Bare), options, 0, Uid)
<1>1. Done(Bare).obj = Bare /\ ~Done(Bare).failed
  BY DEF Done
<1>2. Bare = [refs |-> Bare.refs, owner |-> Bare.owner] /\ Bare.refs = <<>>
      /\ Bare.owner = NoOwner
  BY Zenon DEF Bare
<1>3. <<>> \in Refs(Uid) /\ OneRefEach(<<>>) /\ OneController(<<>>)
  BY DEF Refs, OneRefEach, OneController
<1>4. 1..0 = {}
  OBVIOUS
<1>5. OwnerIs(NoOwner, options, 0, NoOwner)
  BY <1>4 DEF OwnerIs, Stamps
<1> QED BY <1>1, <1>2, <1>3, <1>4, <1>5, Zenon DEF OptionsInv

\* One more option keeps what is known.
LEMMA OptionKeepsInv ==
    ASSUME NEW Owner, UidsIdentify(Owner), NEW Uid, \A a \in Owner : a.uid \in Uid,
           NEW options \in Seq(Option(Owner)), NEW n \in 1..Len(options), NEW r,
           OptionsInv(r, options, n - 1, Uid)
    PROVE  OptionsInv(ApplyOption(r, options[n]), options, n, Uid)
<1> DEFINE o == options[n]
           refs == r.obj.refs
           s == ApplyOption(r, o)
<1> SUFFICES OptionsInv(s, options, n, Uid)
  OBVIOUS
<1>1. /\ n \in Nat \ {0} /\ 1..n = 1..(n - 1) \union {n}
      /\ \A k \in 1..n : k \in DOMAIN options
  BY OptionsAre
<1>2. o.option \in {"OwnedBy", "ControlledBy", "WithOwnerAnnotations"} /\ o.owner \in Owner
  BY OptionsAre
<1>3. /\ r.obj = [refs |-> r.obj.refs, owner |-> r.obj.owner]
      /\ refs \in Refs(Uid) /\ OneRefEach(refs) /\ OneController(refs)
      /\ r \in {Done(r.obj), Failing(r.obj)}
  BY DEF OptionsInv
<1>4. \A obj : /\ Done(obj).obj = obj /\ Done(obj).failed = FALSE
              /\ Failing(obj).obj = obj /\ Failing(obj).failed = TRUE
  BY DEF Done, Failing
<1>5. CASE r.failed
  <2>1. s = r
    BY <1>5 DEF ApplyOption
  <2> QED BY <1>3, <1>5, <2>1 DEF OptionsInv
<1>6. CASE ~r.failed
  <2>1. r = Done(r.obj)
    BY <1>3, <1>4, <1>6
  <2>2. /\ \A k \in 1..(n - 1) : Accepts(options[k])
        /\ OwnerIs(r.obj.owner, options, n - 1, NoOwner)
        /\ Downgraded(options) = {} =>
              \A k \in 1..(n - 1) : IsRefOption(options[k]) =>
                  \E m \in DOMAIN refs : refs[m] = RefOf(options[k])
    BY <1>6 DEF OptionsInv
  <2> DEFINE more == UpsertOwnerRef(refs, RefOf(o))
  <2>3. \/ s = Failing(r.obj)
        \/ /\ Accepts(o) /\ IsRefOption(o)
           /\ o.option = "ControlledBy" => ~OtherController(refs, o.owner.uid)
           /\ s = Done([refs |-> more, owner |-> r.obj.owner])
        \/ /\ Accepts(o) /\ o.option = "WithOwnerAnnotations"
           /\ s = Done([refs |-> refs, owner |-> o.owner])
    <3> HIDE DEF o
    <3>1. s = ApplyOption(Done(r.obj), o)
      BY <2>1
    <3> QED BY <1>2, <1>3, <3>1, OptionIs
  <2> HIDE DEF s, more
  <2>4. CASE s = Failing(r.obj)
    BY <1>3, <1>4, <2>4 DEF OptionsInv
  <2>5. CASE /\ Accepts(o) /\ IsRefOption(o)
             /\ o.option = "ControlledBy" => ~OtherController(refs, o.owner.uid)
             /\ s = Done([refs |-> more, owner |-> r.obj.owner])
    <3>1. RefOf(o) \in [uid : Uid, controller : BOOLEAN] /\ RefOf(o).uid = o.owner.uid
      BY <1>2 DEF RefOf
    <3>2. /\ more \in Refs(Uid) /\ OneRefEach(more)
          /\ \E m \in DOMAIN more : more[m] = RefOf(o)
          /\ \A m \in DOMAIN refs :
                refs[m].uid # RefOf(o).uid => m \in DOMAIN more /\ more[m] = refs[m]
      <4> HIDE DEF o, refs
      <4> QED BY <1>3, <3>1, UpsertIs DEF more
    <3>3. OneController(more)
      <4> HIDE DEF o, refs
      <4> QED BY <1>2, <1>3, <2>5, ControllerStaysOne DEF more
    <3>4. OwnerIs(r.obj.owner, options, n, NoOwner)
      <4>1. options[n].option # "WithOwnerAnnotations"
        BY <2>5 DEF IsRefOption
      <4> QED BY <1>1, <2>2, <4>1, OwnerAfterOption
    <3>5. \A k \in 1..n : Accepts(options[k])
      BY <1>1, <2>2, <2>5
    <3>6. ASSUME Downgraded(options) = {}, NEW k \in 1..n, IsRefOption(options[k])
          PROVE  \E m \in DOMAIN more : more[m] = RefOf(options[k])
      <4>1. CASE options[k].owner.uid = o.owner.uid
        <5>1. RefOf(options[k]) = RefOf(o)
          BY <1>1, <2>5, <3>5, <3>6, <4>1, SameOwnerSameRef
        <5> QED BY <3>2, <5>1
      <4>2. CASE options[k].owner.uid # o.owner.uid
        <5>1. k \in 1..(n - 1)
          BY <1>1, <4>2
        <5>2. PICK m \in DOMAIN refs : refs[m] = RefOf(options[k])
          BY <2>2, <3>6, <5>1
        <5>3. RefOf(options[k]).uid = options[k].owner.uid
          BY DEF RefOf
        <5> QED BY <3>1, <3>2, <4>2, <5>2, <5>3
      <4> QED BY <4>1, <4>2
    <3>7. /\ s.obj = [refs |-> more, owner |-> r.obj.owner] /\ s = Done(s.obj)
          /\ s.obj.refs = more /\ s.obj.owner = r.obj.owner /\ ~s.failed
      BY <1>4, <2>5
    <3> HIDE DEF o, refs
    <3> QED BY <3>2, <3>3, <3>4, <3>5, <3>6, <3>7 DEF OptionsInv
  <2>6. CASE /\ Accepts(o) /\ o.option = "WithOwnerAnnotations"
             /\ s = Done([refs |-> refs, owner |-> o.owner])
    <3>1. OwnerIs(o.owner, options, n, NoOwner)
      BY <1>1, <2>2, <2>6, OwnerAfterOption
    <3>2. \A k \in 1..n : Accepts(options[k])
      BY <1>1, <2>2, <2>6
    <3>3. ASSUME Downgraded(options) = {}, NEW k \in 1..n, IsRefOption(options[k])
          PROVE  \E m \in DOMAIN refs : refs[m] = RefOf(options[k])
      <4>1. k \in 1..(n - 1)
        BY <1>1, <2>6, <3>3 DEF IsRefOption
      <4> QED BY <2>2, <3>3, <4>1
    <3>4. /\ s.obj = [refs |-> refs, owner |-> o.owner] /\ s = Done(s.obj)
          /\ s.obj.refs = refs /\ s.obj.owner = o.owner /\ ~s.failed
      BY <1>4, <2>6
    <3> HIDE DEF o, refs
    <3> QED BY <1>3, <3>1, <3>2, <3>3, <3>4 DEF OptionsInv
  <2> QED BY <2>3, <2>4, <2>5, <2>6
<1> QED BY <1>5, <1>6

\* What all the options leave.
LEMMA OptionsLeave ==
    ASSUME NEW Owner, UidsIdentify(Owner), NEW Uid, \A a \in Owner : a.uid \in Uid,
           NEW options \in Seq(Option(Owner))
    PROVE  OptionsInv(ApplyMetaOptions(Bare, options), options, Len(options), Uid)
<1> DEFINE L == Len(options)
<1>1. L \in Nat
  OBVIOUS
<1>2. PICK g : Runs(g, Bare, options) /\ ApplyMetaOptions(Bare, options) = g[L]
  BY RunExists
<1>3. /\ g[0] = Done(Bare)
      /\ \A n \in 1..L : g[n] = ApplyOption(g[n - 1], options[n])
  BY <1>1, <1>2 DEF Runs
<1> DEFINE P == {n \in 0..L : OptionsInv(g[n], options, n, Uid)}
<1>4. 0 \in P
  BY <1>1, <1>3, OptionsInitially
<1>5. ASSUME NEW n \in 1..L, n - 1 \in P
      PROVE  n \in P
  <2>1. OptionsInv(g[n - 1], options, n - 1, Uid)
    BY <1>5
  <2>2. OptionsInv(ApplyOption(g[n - 1], options[n]), options, n, Uid)
    BY <2>1, OptionKeepsInv
  <2>3. n \in 0..L
    BY <1>1
  <2> QED BY <1>3, <2>2, <2>3
<1>6. 0..L \subseteq P
  <2> HIDE DEF P, L
  <2> QED BY <1>1, <1>4, <1>5, UpToBound
<1>7. L \in P
  BY <1>1, <1>6
<1> QED BY <1>2, <1>7

\* Whom an object is annotated with after an option.
Annotated(o, owner) == IF o.option = "WithOwnerAnnotations" THEN o.owner ELSE owner

\* An option whose reference is there already does not fail, and changes no
\* reference.
LEMMA OptionAgain ==
    ASSUME NEW Uid, NEW obj, obj = [refs |-> obj.refs, owner |-> obj.owner],
           obj.refs \in Refs(Uid), OneRefEach(obj.refs), OneController(obj.refs),
           NEW o, o.option \in {"OwnedBy", "ControlledBy", "WithOwnerAnnotations"},
           Accepts(o), o.owner.uid \in Uid,
           IsRefOption(o) => \E m \in DOMAIN obj.refs : obj.refs[m] = RefOf(o)
    PROVE  ApplyOption(Done(obj), o) =
             Done([refs |-> obj.refs, owner |-> Annotated(o, obj.owner)])
<1> DEFINE refs == obj.refs
<1>1. ~(o.option = "ControlledBy" /\ OtherController(refs, o.owner.uid))
  <2> SUFFICES ASSUME o.option = "ControlledBy", NEW n \in DOMAIN refs,
                      refs[n].controller, refs[n].uid # o.owner.uid
               PROVE  FALSE
    BY DEF OtherController
  <2>1. IsRefOption(o) /\ RefOf(o).controller = TRUE /\ RefOf(o).uid = o.owner.uid
    BY DEF IsRefOption, RefOf
  <2>2. PICK m \in DOMAIN refs : refs[m] = RefOf(o)
    BY <2>1
  <2>3. refs[m].controller
    BY <2>1, <2>2
  <2>4. m = n
    BY <2>3 DEF OneController
  <2> QED BY <2>1, <2>2, <2>4
<1>2. \/ /\ IsRefOption(o)
         /\ ApplyOption(Done(obj), o) =
              Done([refs |-> UpsertOwnerRef(refs, RefOf(o)), owner |-> obj.owner])
      \/ /\ o.option = "WithOwnerAnnotations"
         /\ ApplyOption(Done(obj), o) = Done([refs |-> refs, owner |-> o.owner])
  BY <1>1, OptionIs
<1>3. ASSUME IsRefOption(o)
      PROVE  UpsertOwnerRef(refs, RefOf(o)) = refs
  <2>1. RefOf(o) \in [uid : Uid, controller : BOOLEAN]
    BY DEF RefOf
  <2>2. \E m \in DOMAIN refs : refs[m] = RefOf(o)
    BY <1>3
  <2> HIDE DEF refs
  <2>3. refs \in Refs(Uid) /\ OneRefEach(refs)
    BY DEF refs
  <2> QED BY <2>1, <2>2, <2>3, UpsertIs
<1>4. IsRefOption(o) => o.option # "WithOwnerAnnotations"
  BY DEF IsRefOption
<1> QED BY <1>2, <1>3, <1>4 DEF Annotated

\* The same options again change nothing.
LEMMA OptionsAgain ==
    ASSUME NEW Owner, NEW Uid, \A a \in Owner : a.uid \in Uid,
           NEW options \in Seq(Option(Owner)), NEW r, ~r.failed,
           OptionsInv(r, options, Len(options), Uid), Downgraded(options) = {}
    PROVE  ApplyMetaOptions(r.obj, options) = r
<1> DEFINE L == Len(options)
           refs == r.obj.refs
           last == r.obj.owner
<1>1. /\ L \in Nat
      /\ \A n \in 1..L :
           /\ options[n].option \in {"OwnedBy", "ControlledBy", "WithOwnerAnnotations"}
           /\ options[n].owner \in Owner
  BY OptionsAre
<1>2. /\ r = Done(r.obj) /\ r.obj = [refs |-> refs, owner |-> last]
      /\ refs \in Refs(Uid) /\ OneRefEach(refs) /\ OneController(refs)
      /\ \A k \in 1..L : Accepts(options[k])
      /\ OwnerIs(last, options, L, NoOwner)
      /\ \A k \in 1..L : IsRefOption(options[k]) =>
             \E m \in DOMAIN refs : refs[m] = RefOf(options[k])
  <2>1. Failing(r.obj).failed
    BY DEF Failing
  <2> QED BY <2>1 DEF OptionsInv
<1>3. PICK h : Runs(h, r.obj, options) /\ ApplyMetaOptions(r.obj, options) = h[L]
  BY RunExists
<1>4. /\ h[0] = Done(r.obj)
      /\ \A n \in 1..L : h[n] = ApplyOption(h[n - 1], options[n])
  BY <1>1, <1>3 DEF Runs
<1> HIDE DEF L, refs, last
<1> DEFINE same(n) == \E owner : /\ h[n] = Done([refs |-> refs, owner |-> owner])
                                 /\ OwnerIs(owner, options, n, last)
           P == {n \in 0..L : same(n)}
<1>5. 0 \in P
  <2>1. 1..0 = {}
    OBVIOUS
  <2>2. OwnerIs(last, options, 0, last)
    BY <2>1 DEF OwnerIs, Stamps
  <2> QED BY <1>1, <1>2, <1>4, <2>2
<1>6. ASSUME NEW n \in 1..L, n - 1 \in P
      PROVE  n \in P
  <2>1. PICK owner : /\ h[n - 1] = Done([refs |-> refs, owner |-> owner])
                     /\ OwnerIs(owner, options, n - 1, last)
    BY <1>6
  <2> DEFINE obj == [refs |-> refs, owner |-> owner]
  <2>2. obj.refs = refs /\ obj.owner = owner
    OBVIOUS
  <2>3. obj = [refs |-> obj.refs, owner |-> obj.owner]
    BY <2>2
  <2> HIDE DEF obj
  <2> DEFINE o == options[n]
           then == Annotated(o, obj.owner)
  <2>4. ApplyOption(Done(obj), o) = Done([refs |-> obj.refs, owner |-> then])
    <3>1. /\ obj.refs \in Refs(Uid) /\ OneRefEach(obj.refs) /\ OneController(obj.refs)
          /\ Accepts(o)
          /\ IsRefOption(o) => \E m \in DOMAIN obj.refs : obj.refs[m] = RefOf(o)
      BY <1>2, <2>2
    <3>2. /\ o.option \in {"OwnedBy", "ControlledBy", "WithOwnerAnnotations"}
          /\ o.owner.uid \in Uid
      BY <1>1
    <3> HIDE DEF o
    <3> QED BY <2>3, <3>1, <3>2, OptionAgain
  <2>5. h[n] = Done([refs |-> refs, owner |-> then])
    <3>1. h[n - 1] = Done(obj)
      BY <2>1 DEF obj
    <3> QED BY <1>4, <2>2, <2>4, <3>1
  <2>6. n \in Nat \ {0} /\ n \in 0..L
    BY <1>1
  <2>7. OwnerIs(then, options, n, last)
    <3>1. \/ options[n].option # "WithOwnerAnnotations" /\ then = owner
          \/ options[n].option = "WithOwnerAnnotations" /\ then = options[n].owner
      BY <2>2 DEF Annotated
    <3> HIDE DEF then
    <3> QED BY <2>1, <2>6, <3>1, OwnerAfterOption
  <2> QED BY <2>5, <2>6, <2>7
<1>7. PICK owner : /\ h[L] = Done([refs |-> refs, owner |-> owner])
                   /\ OwnerIs(owner, options, L, last)
  <2>1. 0..L \subseteq P
    <3> HIDE DEF P
    <3> QED BY <1>1, <1>5, <1>6, UpToBound
  <2>2. L \in P
    <3> HIDE DEF P
    <3> QED BY <1>1, <2>1
  <2> QED BY <2>2
<1>8. owner = last
  <2>1. CASE Stamps(options, L) = {}
    BY <1>7, <2>1 DEF OwnerIs
  <2>2. CASE Stamps(options, L) # {}
    <3>1. PICK k \in Stamps(options, L) :
            (\A l \in Stamps(options, L) : l <= k) /\ owner = options[k].owner
      BY <1>7, <2>2 DEF OwnerIs
    <3>2. PICK j \in Stamps(options, L) :
            (\A l \in Stamps(options, L) : l <= j) /\ last = options[j].owner
      BY <1>2, <2>2 DEF OwnerIs
    <3>3. k <= j /\ j <= k /\ k \in Nat /\ j \in Nat
      BY <1>1, <3>1, <3>2 DEF Stamps
    <3>4. k = j
      BY <3>3
    <3> QED BY <3>1, <3>2, <3>4
  <2> QED BY <2>1, <2>2
<1> QED BY <1>2, <1>3, <1>7, <1>8 DEF L

\* For any owners, of which no two have the same UID, and any list of metadata
\* options, wherever it fails: the object has one controller at most and one
\* reference to each owner (meta.go:152); if nothing fails it is mapped back
\* to the owner that annotated it last, and the same options applied by the
\* next reconciliation change nothing unless an owner is asked for both as
\* the controller and as a mere owner (meta.go:131).
THEOREM OwnersAreAlwaysConsistent ==
    ASSUME NEW Owner, UidsIdentify(Owner), NEW options \in Seq(Option(Owner))
    PROVE  OwnersAreConsistent(options)
<1> DEFINE Uid == {a.uid : a \in Owner}
           L == Len(options)
           r == ApplyMetaOptions(Bare, options)
           refs == r.obj.refs
           stamped == {n \in DOMAIN options : options[n].option = "WithOwnerAnnotations"}
           latest == {m \in stamped : \A l \in stamped : l <= m}
<1>1. OptionsInv(r, options, L, Uid)
  <2>1. \A a \in Owner : a.uid \in Uid
    OBVIOUS
  <2> HIDE DEF Uid
  <2> QED BY <2>1, OptionsLeave
<1>2. L \in Nat /\ DOMAIN options = 1..L
  BY OptionsAre
<1>3. /\ refs \in Refs(Uid) /\ OneRefEach(refs) /\ OneController(refs)
      /\ ~r.failed => /\ \A k \in 1..L : Accepts(options[k])
                      /\ OwnerIs(r.obj.owner, options, L, NoOwner)
  BY <1>1 DEF OptionsInv
<1>4. ~r.failed /\ Downgraded(options) = {} => ApplyMetaOptions(r.obj, options) = r
  <2>1. \A a \in Owner : a.uid \in Uid
    OBVIOUS
  <2> HIDE DEF Uid, r
  <2> QED BY <1>1, <2>1, OptionsAgain
<1>5. Stamps(options, L) = stamped
  BY <1>2 DEF Stamps
<1> HIDE DEF r, Uid, L
<1>6. Cardinality({n \in DOMAIN refs : refs[n].controller}) <= 1
  <2> DEFINE S == {n \in DOMAIN refs : refs[n].controller}
  <2>1. DOMAIN refs = 1..Len(refs) /\ Len(refs) \in Nat
    BY <1>3 DEF Refs
  <2>2. IsFiniteSet(1..Len(refs))
    BY <2>1, FS_Interval
  <2>3. S \subseteq 1..Len(refs)
    BY <2>1
  <2>4. IsFiniteSet(S)
    <3> HIDE DEF S
    <3> QED BY <2>2, <2>3, FS_Subset
  <2>5. \A x, y \in S : x = y
    BY <1>3 DEF OneController
  <2> HIDE DEF S
  <2>6. Cardinality(S) <= 1
    BY <2>4, <2>5, AtMostOne
  <2> QED BY <2>6 DEF S
<1>7. ASSUME ~r.failed
      PROVE  EnqueueByOwnerAnnotation(r.obj) =
                {<<options[n].owner.namespace, options[n].owner.name>> : n \in latest}
  <2>1. CASE stamped = {}
    <3>1. r.obj.owner = NoOwner
      BY <1>3, <1>5, <1>7, <2>1 DEF OwnerIs
    <3>2. r.obj.owner.name = ""
      <4>1. NoOwner.name = ""
        BY Zenon DEF NoOwner
      <4> QED BY <3>1, <4>1, Zenon
    <3>3. latest = {}
      BY <2>1
    <3> HIDE DEF latest
    <3>4. EnqueueByOwnerAnnotation(r.obj) = {}
      BY <3>2, Zenon DEF EnqueueByOwnerAnnotation
    <3> QED BY <3>3, <3>4, Zenon
  <2>2. CASE stamped # {}
    <3>1. PICK k \in stamped : (\A l \in stamped : l <= k) /\ r.obj.owner = options[k].owner
      BY <1>3, <1>5, <1>7, <2>2 DEF OwnerIs
    <3>2. \A l \in stamped : l \in Nat
      BY <1>2
    <3>3. latest = {k}
      BY <3>1, <3>2
    <3> HIDE DEF latest
    <3>4. r.obj.owner.name # ""
      <4>1. k \in 1..L
        BY <1>2
      <4>2. Accepts(options[k])
        BY <1>3, <1>7, <4>1
      <4> QED BY <3>1, <4>2, Zenon DEF Complete, Accepts
    <3>5. EnqueueByOwnerAnnotation(r.obj) = {<<r.obj.owner.namespace, r.obj.owner.name>>}
      BY <3>4, Zenon DEF EnqueueByOwnerAnnotation
    <3>6. {<<options[n].owner.namespace, options[n].owner.name>> : n \in latest} =
            {<<options[k].owner.namespace, options[k].owner.name>>}
      BY <3>3
    <3> QED BY <3>1, <3>5, <3>6
  <2> QED BY <2>1, <2>2
<1> HIDE DEF latest, stamped, refs
<1>8. \A m, n \in DOMAIN refs : refs[m].uid = refs[n].uid => m = n
  BY <1>3 DEF OneRefEach
<1> QED BY <1>4, <1>6, <1>7, <1>8, Zenon DEF OwnersAreConsistent, r, refs, stamped, latest

-----------------------------------------------------------------------------
(***************************************************************************)
(* The inputs of MCParts are among those the theorems are about.           *)
(***************************************************************************)

Inputs == input \in PartsInput(part)

\* No step of any part changes the input of a function.
LEMMA InputStays == PartsSpec => []Inputs
<1>1. PartsInit => Inputs
  BY DEF PartsInit, Inputs
<1>2. Inputs /\ [PartsNext]_partsVars => Inputs'
  <2> SUFFICES ASSUME Inputs, [PartsNext]_partsVars
               PROVE  part' = part /\ input' = input
    BY DEF Inputs
  <2> QED BY DEF PartsNext, partsVars, InWatches, InTLS, InAdmission, InTool
<1> QED BY <1>1, <1>2, PTL DEF PartsSpec

\* What MCParts checks of the TLS profile on its profiles follows: lenient
\* settings are not weak (profile.go:214), strict ones are those of the
\* cluster (profile.go:325), and flags and configuration agree (config.go:48).
THEOREM TLSSettingsAreAlwaysFaithful == PartsSpec => []TLSSettingsAreFaithful
<1>1. ASSUME Inputs
      PROVE  TLSSettingsAreFaithful
  <2> SUFFICES ASSUME part = "profiles"
               PROVE  input.custom.ciphers \subseteq CipherNames
    BY LenientSettingsAreNeverWeak, StrictSettingsAreTheClusters, FlagsAndConfigAgree
       DEF TLSSettingsAreFaithful
  <2>1. input \in MCAllProfiles
    BY <1>1 DEF Inputs, PartsInput
  <2> QED BY <2>1 DEF MCAllProfiles, MCProfiles, MCCustom, NoSpec, CipherNames
<1> QED BY <1>1, InputStays, PTL

\* What MCParts checks of the decisions on resources on its inputs follows
\* (actions/gc/openshift_rbac.go:68, action_deploy_merge_deployment.go:28).
THEOREM ResourceDecisionsAlwaysAgree == PartsSpec => []ResourceDecisionsAgree
<1>1. ASSUME NEW d \in MCDeployment
      PROVE  IsDeployment(d)
  <2>1. ASSUME NEW q \in MCQuantities
        PROVE  IsQuantities(q)
    <3>1. IsQuantities(NoQuantities)
      BY DEF IsQuantities, NoQuantities
    <3>2. ASSUME NEW S, NEW n \in Nat
          PROVE  IsQuantities([x \in S |-> n])
      BY DEF IsQuantities, Null
    <3>3. q = NoQuantities \/ \E n \in {1, 2} : \E S : q = [x \in S |-> n]
      BY Zenon DEF MCQuantities
    <3>4. CASE \E n \in {1, 2} : \E S : q = [x \in S |-> n]
      <4>1. PICK n \in {1, 2} : \E S : q = [x \in S |-> n]
        BY <3>4
      <4>2. PICK S : q = [x \in S |-> n]
        BY <4>1
      <4> QED BY <3>2, <4>2
    <3> QED BY <3>1, <3>3, <3>4
  <2>2. PICK names \in SUBSET {"a", "b"} : d.containers \in [names -> MCQuantities]
    BY DEF MCDeployment
  <2>3. d = [replicas |-> d.replicas, containers |-> d.containers]
    BY DEF MCDeployment
  <2> QED BY <2>1, <2>2, <2>3 DEF IsDeployment
<1>2. ASSUME Inputs
      PROVE  ResourceDecisionsAgree
  <2>1. ASSUME part = "collectors"
        PROVE  AliasesScannedOnce(input.apis, input.rules)
    <3>1. input \in MCCollectors
      BY <1>2, <2>1 DEF Inputs, PartsInput
    <3>2. input.apis \in MCApis
      BY <3>1 DEF MCCollectors
    <3>3. DOMAIN input.apis \subseteq MCTypes
      BY <3>2 DEF MCApis
    <3>4. \A t \in MCTypes : t = [group |-> t.group, kind |-> t.kind]
      BY DEF MCTypes, MCType
    <3> QED BY <3>3, <3>4, AliasedKindsAreScannedOnce
  <2>2. ASSUME part = "deployments"
        PROVE  IsDeployment(input.desired) /\ IsDeployment(input.live)
    <3>1. input \in MCDeployments
      BY <1>2, <2>2 DEF Inputs, PartsInput
    <3> QED BY <1>1, <3>1 DEF MCDeployments
  <2> QED BY <2>1, <2>2, CollectorsAgree, DriftIsAlwaysReverted, TuningIsAlwaysKept,
             DeployersAgree DEF ResourceDecisionsAgree
<1> QED BY <1>2, InputStays, PTL

\* What MCParts checks of the detection of the platform on its clusters
\* follows (platform.go:88, :102).
THEOREM PlatformIsAlwaysKnown == PartsSpec => []PlatformIsKnown
<1>1. ASSUME Inputs
      PROVE  PlatformIsKnown
  <2> SUFFICES ASSUME part = "clusters"
               PROVE  /\ input.establishedAt \in Nat \ {0}
                      /\ DOMAIN input.extensions \subseteq Nat
    BY DetectionIsAlwaysTruthful, EstablishedIsAlwaysFound, DetectionsAlwaysAgree
       DEF PlatformIsKnown
  <2>1. input \in MCCatalogs \union MCOpenShifts
    BY <1>1 DEF Inputs, PartsInput
  <2>2. input \in MCCatalogs => input.establishedAt \in {2} /\ input.extensions \in MCExtensionLists
    BY Zenon DEF MCCatalogs
  <2>3. input \in MCOpenShifts => input.establishedAt \in 1..6 /\ input.extensions \in {<<>>}
    BY Zenon DEF MCOpenShifts
  <2>4. \A l \in MCExtensionLists : DOMAIN l \subseteq Nat
    BY DEF MCExtensionLists
  <2> QED BY <2>1, <2>2, <2>3, <2>4
<1> QED BY <1>1, InputStays, PTL

\* What MCParts checks of the assignment on its ingresses follows
\* (assignment.go:66).
THEOREM IngressIsAlwaysUnambiguous == PartsSpec => []IngressIsUnambiguous
<1>1. ASSUME Inputs
      PROVE  IngressIsUnambiguous
  <2> SUFFICES ASSUME part = "ingresses"
               PROVE  \E Ingress : input \in Seq(Ingress)
    BY AssignmentIsAlwaysUnambiguous DEF IngressIsUnambiguous
  <2>1. input \in MCIngresses
    BY <1>1 DEF Inputs, PartsInput
  <2>2. 3 \in Nat /\ \A n \in 0..2 : n \in Nat
    OBVIOUS
  <2>3. \E n \in Nat : \E Ingress : input \in [1..n -> Ingress]
    BY <2>1, <2>2, Zenon DEF MCIngresses
  <2> QED BY <2>3, SeqDef
<1> QED BY <1>1, InputStays, PTL

\* What MCParts checks of the validator on its implementations follows
\* (validate.go:91, :94).
THEOREM ValidatorIsAlwaysExact == PartsSpec => []ValidatorIsExact
<1> DEFINE Entry == {"validation", "Ready", "ProvisioningSucceeded", "x", "y", "z"}
<1>1. ASSUME NEW l \in MCLists
      PROVE  l \in Seq(Entry) /\ NoProbe(l)
  <2>1. \/ l = <<>> \/ l = <<"Ready">> \/ l = <<"Ready", "ProvisioningSucceeded">>
        \/ l = <<"x", "y", "z">>
    BY DEF MCLists
  <2>2. CASE l = <<>>
    BY <2>2 DEF NoProbe
  <2>3. CASE l = <<"Ready">>
    BY <2>3 DEF NoProbe
  <2>4. CASE l = <<"Ready", "ProvisioningSucceeded">>
    BY <2>4 DEF NoProbe
  <2>5. CASE l = <<"x", "y", "z">>
    BY <2>5 DEF NoProbe
  <2> QED BY <2>1, <2>2, <2>3, <2>4, <2>5
<1>2. {<<>>, <<"Ready">>, Mandatory} \subseteq MCLists
  BY DEF MCLists, Mandatory
<1>3. {"validation", "Ready", "ProvisioningSucceeded"} \subseteq Entry
  OBVIOUS
<1> HIDE DEF Entry
<1>4. ASSUME NEW obj \in MCPlatformObjects
      PROVE  /\ IsPlatformObject(obj, Entry)
             /\ NoProbe(obj.conditions) /\ NoProbe(obj.releases)
  <2>1. obj = [status |-> obj.status, phase |-> obj.phase, setConditions |-> obj.setConditions,
               setReleases |-> obj.setReleases, conditions |-> obj.conditions,
               releases |-> obj.releases]
    BY Zenon DEF MCPlatformObjects
  <2>2. /\ obj.status \in {"pointer", "copy", "nil"}
        /\ obj.setConditions \in {"store", "drop", "append", "merge", "first", "inPlace"}
        /\ obj.setReleases \in {"store", "drop", "append", "first", "inPlace", "nil"}
        /\ obj.conditions \in MCLists /\ obj.releases \in MCLists
    BY Zenon DEF MCPlatformObjects
  <2> QED BY <1>1, <1>3, <2>1, <2>2 DEF IsPlatformObject
<1>5. ASSUME Inputs
      PROVE  ValidatorIsExact
  <2> SUFFICES ASSUME part = "contract"
               PROVE  input \in MCPlatformObjects
    BY <1>2, <1>4, VerdictIsAlwaysExact, TraceIsAlwaysExact DEF ValidatorIsExact
  <2> QED BY <1>5 DEF Inputs, PartsInput
<1> QED BY <1>5, InputStays, PTL
\* What MCParts checks of the metadata options on its lists follows
\* (meta.go:131, :152).
THEOREM OptionsAlwaysKeepOneController == PartsSpec => []OptionsKeepOneController
<1> DEFINE Owner == MCOwners
<1>1. UidsIdentify(Owner)
  <2> DEFINE x == MCOwner("v1", "x", "u1")
             y == MCOwner("v1", "y", "u2")
             z == MCOwner("v1", "z", "")
             w == MCOwner("", "w", "u3")
  <2>1. ~Complete(z) /\ x.uid = "u1" /\ y.uid = "u2" /\ w.uid = "u3"
    BY Zenon DEF Complete, MCOwner
  <2>2. Owner = {x, y, z, w}
    BY DEF MCOwners
  <2> HIDE DEF x, y, z, w, Owner
  <2> QED BY <2>1, <2>2 DEF UidsIdentify
<1>2. MCOption \subseteq Option(Owner)
  BY Zenon DEF MCOption, Option
<1> HIDE DEF Owner
<1>3. ASSUME Inputs
      PROVE  OptionsKeepOneController
  <2> SUFFICES ASSUME part = "owners"
               PROVE  input \in Seq(Option(Owner))
    BY <1>1, OwnersAreAlwaysConsistent DEF OptionsKeepOneController
  <2>1. input \in MCOptions
    BY <1>3 DEF Inputs, PartsInput
  <2>2. PICK n \in 0..3 : input \in [1..n -> MCOption]
    BY <2>1 DEF MCOptions
  <2>3. input \in [1..n -> Option(Owner)]
    BY <1>2, <2>2
  <2> QED BY <2>3, SeqDef
<1> QED BY <1>3, InputStays, PTL
\* What MCParts checks of the flakiness tool's configuration, histories,
\* reports and runtimes on its inputs follows (config.go:143,
\* analyzer.go:203, report.go:114, runtime.go:245, budget.go:135, :265).
THEOREM FlakinessReportsAreAlwaysSound == PartsSpec => []FlakinessReportsAreSound
<1>1. ASSUME Inputs, part = "config"
      PROVE  LoadedIsSafe(input.file, input.env, MCShortHistories)
  <2> DEFINE Percent == {-1, 0, 50, 101, NaN}
  <2>1. \A f \in MCFileValues : f[1] = "threshold" => f[2] \in Percent
    <3> SUFFICES ASSUME NEW f \in MCFileValues, f[1] = "threshold"
                 PROVE  f[2] \in Percent
      OBVIOUS
    <3>1. \/ f \in {"component", "bucket", "prefixes", "apiURL", "tokenEnv"} \X BOOLEAN
          \/ f \in {"threshold", "warning"} \X Percent
          \/ f \in {"windowDays", "minRuns"} \X {-1, 0, 3}
          \/ f \in {"patterns", "expires", "timeouts"} \X {"good", "bad"}
      BY Zenon DEF MCFileValues
    <3> QED BY <3>1
  <2>2. \A e \in MCEnvValues : e[1] = "threshold" => e[2] \in {Bad, 0, 50, 101, NaN}
    <3> SUFFICES ASSUME NEW e \in MCEnvValues, e[1] = "threshold"
                 PROVE  e[2] \in {Bad, 0, 50, 101, NaN}
      OBVIOUS
    <3>1. \/ e \in {"component", "bucket", "apiURL", "tokenEnv"} \X {TRUE}
          \/ e \in {"threshold"} \X {Bad, 0, 50, 101, NaN}
          \/ e \in {"windowDays", "minRuns"} \X {Bad, -1, 3}
          \/ e \in {"expires"} \X {"good", "bad"}
      BY Zenon DEF MCEnvValues
    <3> QED BY <3>1
  <2>3. "threshold" \in DOMAIN MCConfig /\ MCConfig.threshold = 20
    BY Zenon DEF MCConfig
  <2>4. input \in MCConfigs
    BY <1>1 DEF Inputs, PartsInput
  <2>5. PICK f \in MCFileValues, g \in MCFileValues, e \in MCEnvValues :
          input = [file |-> MCFile(f, g), env |-> MCEnv(e)]
    BY <2>4 DEF MCConfigs
  <2>6. /\ input.file = [MCConfig EXCEPT ![f[1]] = f[2], ![g[1]] = g[2]]
        /\ input.env = [k \in {e[1]} |-> e[2]]
    BY <2>5 DEF MCFile, MCEnv
  <2> HIDE DEF Percent
  <2>7. "threshold" \in DOMAIN input.file /\ input.file.threshold \in Percent \union {20}
    BY <2>1, <2>3, <2>6
  <2>8. "threshold" \in DOMAIN input.env => input.env["threshold"] \in {Bad, 0, 50, 101, NaN}
    BY <2>2, <2>6
  <2>9. input.file.threshold \in Int \union {NaN}
    BY <2>7 DEF Percent
  <2>10. "threshold" \in DOMAIN input.env => input.env["threshold"] \in Int \union {NaN, Bad}
    BY <2>8
  <2> DEFINE file == input.file
             env == input.env
  <2> HIDE DEF file, env
  <2>11. /\ "threshold" \in DOMAIN file /\ file.threshold \in Int \union {NaN}
         /\ "threshold" \in DOMAIN env => env["threshold"] \in Int \union {NaN, Bad}
    BY <2>7, <2>9, <2>10 DEF file, env
  <2>12. LoadedIsSafe(file, env, MCShortHistories)
    BY <2>11, LoadedIsAlwaysSafe
  <2> QED BY <2>12 DEF file, env
<1>2. ASSUME NEW h, NEW m \in Nat, h \in UNION {[1..n -> BOOLEAN] : n \in 0..m}
      PROVE  h \in Seq(BOOLEAN)
  <2>1. PICK n \in 0..m : h \in [1..n -> BOOLEAN]
    BY <1>2
  <2> QED BY <2>1
<1>3. ASSUME Inputs, part = "histories"
      PROVE  input \in Seq(BOOLEAN)
  <2>1. input \in MCHistories
    BY <1>3 DEF Inputs, PartsInput
  <2> QED BY <1>2, <2>1 DEF MCHistories
<1>4. ASSUME Inputs, part = "reports"
      PROVE  \A t \in DOMAIN input : input[t] \in Seq(BOOLEAN)
  <2>1. input \in [{"t", "u"} -> MCShortHistories]
    BY <1>4 DEF Inputs, PartsInput
  <2> QED BY <1>2, <2>1 DEF MCShortHistories
<1>5. ASSUME Inputs, part = "runtimes"
      PROVE  IsSeries(input)
  <2>1. input \in MCSeriesSets
    BY <1>5 DEF Inputs, PartsInput
  <2>2. PICK r \in MCSeries, s \in MCSeries, t \in MCSeries : input = {r, s, t}
    BY <2>1 DEF MCSeriesSets
  <2> DEFINE one == <<9>>
             slowing == <<0, 0, 0, 0, 1>>
             steady == <<2, 1, 1, 3, 1>>
  <2>3. \A x \in MCSeries : x.values \in {one, slowing, steady}
    BY DEF MCSeries
  <2>4. \A x \in MCSeries : x.values \in Seq(Nat) /\ x.values # <<>>
    <3>1. one \in Seq(Nat) /\ slowing \in Seq(Nat) /\ steady \in Seq(Nat)
      OBVIOUS
    <3>2. Len(one) > 0 /\ Len(slowing) > 0 /\ Len(steady) > 0
      OBVIOUS
    <3> HIDE DEF one, slowing, steady
    <3>3. \A v \in Seq(Nat) : Len(v) > 0 => v # <<>>
      OBVIOUS
    <3>4. one # <<>> /\ slowing # <<>> /\ steady # <<>>
      BY <3>1, <3>2, <3>3, Zenon
    <3> QED BY <2>3, <3>1, <3>4, Zenon
  <2>5. IsFiniteSet({r, s, t})
    <3>1. IsFiniteSet({r} \union {s}) /\ {r} \union {s} = {r, s}
      BY FS_Singleton, FS_AddElement
    <3>2. IsFiniteSet({r, s} \union {t}) /\ {r, s} \union {t} = {r, s, t}
      BY <3>1, FS_AddElement
    <3> QED BY <3>2
  <2> QED BY <2>2, <2>4, <2>5 DEF IsSeries
<1>6. ASSUME Inputs
      PROVE  FlakinessReportsAreSound
  <2>1. part = "config" => LoadedIsSafe(input.file, input.env, MCShortHistories)
    BY <1>1, <1>6
  <2>2. part = "histories" => \A minRuns \in {1, 5} : HidesNoRegression(input, 20, minRuns)
    BY <1>3, <1>6, RegressionsAreNeverHidden
  <2>3. part = "reports" => \A minRuns \in {1, 3} : ReportsAgree(input, 20, minRuns)
    BY <1>4, <1>6, ReportsAlwaysAgree
  <2> DEFINE timeouts == {0, 30000, 90000}
             thresholds == {20, 50, 80, NaN}
  <2>4. timeouts \subseteq Nat /\ thresholds \subseteq (Nat \ {0}) \union {NaN}
    OBVIOUS
  <2> HIDE DEF timeouts, thresholds
  <2>5. part = "runtimes" =>
          /\ PercentilesOrdered(input) /\ BudgetsNest(input)
          /\ \A timeout \in timeouts, threshold \in thresholds :
                SuggestionsSettle(AggregateRuntimes(input), timeout, threshold)
    BY <1>5, <1>6, <2>4, PercentilesAreAlwaysOrdered, BudgetsAlwaysNest, SuggestionsAlwaysSettle
  <2> QED BY <2>1, <2>2, <2>3, <2>5 DEF FlakinessReportsAreSound, timeouts, thresholds
<1> QED BY <1>6, InputStays, PTL
=============================================================================
