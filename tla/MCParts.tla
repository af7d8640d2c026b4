------------------------------ MODULE MCParts -------------------------------
(***************************************************************************)
(* The parts that share no state, in one model: the watches a controller   *)
(* registers, the TLS profile it serves with, the admission of the         *)
(* singleton it reconciles, the flakiness tool; and the functions without  *)
(* state, each on every input of a bounded set.  A behaviour is one of one *)
(* of them.                                                                *)
(***************************************************************************)
EXTENDS Watches, TLSStartup, SingletonAdmission, FlakinessTool,
        FrameworkResources, ClusterDetection, OwnerMetadata, IngressAssignment, PlatformContract

VARIABLES
    part,   \* the part the behaviour is one of
    input   \* of a function without state

MCRendered == <<CRD, "Role", "ConfigMap", "Deployment", "Widget">>
MCDynamicWatches == <<"Secret">>

MCBuildResults ==
    {[t1 |-> r[1], t2 |-> r[2], t3 |-> r[1]] :
        r \in {<<"pass", "error">>, <<"fail", "pass">>, <<"fail", "skip">>}}

MCCustom(min, ciphers, groups) ==
    [type |-> "Custom", custom |-> [min |-> min, ciphers |-> ciphers, groups |-> groups]]
MCProfiles ==
    {[type |-> t, custom |-> NoSpec] : t \in {"Old", "Modern", "Future", "Custom"}}
      \union {MCCustom("1.2", {"tls12", "unknown"}, {"curve", "unknown"}),
              MCCustom("1.2", {"rc4"}, {}), MCCustom("1.4", {"tls12"}, {})}
MCAllProfiles ==
    MCProfiles \union
        [type : {"Custom"},
         custom : [min : {"1.0", "1.1", "1.2", "1.3", "1.4"},
                   ciphers : SUBSET {"tls12", "tls13", "rc4", "unknown"},
                   groups : SUBSET {"curve", "unknown"}]]

MCHistories == UNION {[1..n -> BOOLEAN] : n \in 0..8}
MCShortHistories == UNION {[1..n -> BOOLEAN] : n \in 0..4}

MCConfig ==
    [component |-> TRUE, bucket |-> TRUE, prefixes |-> TRUE, threshold |-> 20,
     windowDays |-> 7, minRuns |-> 5, patterns |-> "", expires |-> "", apiURL |-> FALSE,
     tokenEnv |-> FALSE, warning |-> 80, timeouts |-> ""]
\* Values of the fields a file, and the environment, may have.
MCFileValues ==
    UNION {{"component", "bucket", "prefixes", "apiURL", "tokenEnv"} \X BOOLEAN,
           {"threshold", "warning"} \X {-1, 0, 50, 101, NaN},
           {"windowDays", "minRuns"} \X {-1, 0, 3},
           {"patterns", "expires", "timeouts"} \X {"good", "bad"}}
MCEnvValues ==
    UNION {{"component", "bucket", "apiURL", "tokenEnv"} \X {TRUE},
           {"threshold"} \X {Bad, 0, 50, 101, NaN},
           {"windowDays", "minRuns"} \X {Bad, -1, 3},
           {"expires"} \X {"good", "bad"}}
MCFile(f, g) == [MCConfig EXCEPT ![f[1]] = f[2], ![g[1]] = g[2]]
MCEnv(e) == [k \in {e[1]} |-> e[2]]
MCConfigs ==
    {[file |-> MCFile(f, g), env |-> MCEnv(e)] :
        f \in MCFileValues, g \in MCFileValues, e \in MCEnvValues}

\* At most three series, of three tests in two suites.
MCSeries ==
    {[name |-> k[1], suite |-> k[2], build |-> b, values |-> v] :
        k \in {<<"a", "s1">>, <<"b", "s1">>, <<"c", "s2">>}, b \in {"1", "2", "_unknown"},
        v \in {<<9>>, <<0, 0, 0, 0, 1>>, <<2, 1, 1, 3, 1>>}}
MCSeriesSets == {{r, s, t} : r \in MCSeries, s \in MCSeries, t \in MCSeries}

\* Two views of one kind and a kind of its own, served with some verbs or
\* not at all; up to two rules.
MCType(group, kind) == [group |-> group, kind |-> kind]
MCTypes == {MCType(KubernetesRBAC, "Role"), MCType(OpenShiftRBAC, "Role"), MCType("apps", "Deployment")}
MCApis == UNION {[types -> SUBSET {"list", "delete"}] : types \in SUBSET MCTypes}
MCRules ==
    [groups : {{KubernetesRBAC}, {OpenShiftRBAC}, {"*"}}, kinds : {{"*"}},
     verbs : {{"list"}, {"delete"}, {"*"}}, named : BOOLEAN]
MCCollectors == {[apis |-> a, rules |-> {r, q}] : a \in MCApis, r \in MCRules, q \in MCRules}

MCQuantities ==
    {NoQuantities, [x \in {<<"limits", "cpu">>} |-> 1],
     [x \in {<<"limits", "cpu">>, <<"requests", "cpu">>} |-> 2]}
MCDeployment ==
    [replicas : 0..2, containers : UNION {[names -> MCQuantities] : names \in SUBSET {"a", "b"}}]
MCDeployments == {[desired |-> d, live |-> l] : d \in MCDeployment, l \in MCDeployment}

\* The catalog and package APIs of a cluster, and the OpenShift ones.
MCExtension(pkg, installed, malformed) ==
    [package |-> pkg, catalog |-> TRUE, installed |-> installed, malformed |-> malformed]
MCExtensions ==
    {MCExtension(Rhods, TRUE, FALSE), MCExtension(Rhods, FALSE, FALSE),
     MCExtension("other", TRUE, FALSE), MCExtension("", FALSE, TRUE),
     [MCExtension(Rhods, TRUE, FALSE) EXCEPT !.catalog = FALSE]}
MCExtensionLists == {<<>>} \union {<<e, f>> : e \in MCExtensions, f \in MCExtensions}
MCSubscriptionLists ==
    {<<>>, <<"other", Rhods>>, <<Malformed, Rhods>>, <<Rhods, Malformed>>}
MCCatalogs ==
    [olm0 : BOOLEAN, olm1 : BOOLEAN, catalogSource : BOOLEAN, clusterCatalog : BOOLEAN,
     conditions : SUBSET {Rhods}, subscriptions : MCSubscriptionLists,
     extensions : MCExtensionLists,
     version : {"4.17"}, fips : {"true"}, topology : {"SingleReplica"}, nodes : {1},
     establishedAt : {2}]
MCOpenShifts ==
    [olm0 : {TRUE}, olm1 : {FALSE}, catalogSource : {FALSE}, clusterCatalog : {FALSE},
     conditions : {{}}, subscriptions : {<<>>}, extensions : {<<>>},
     version : {"none", "4.17"}, fips : {"true", "false", "malformed"},
     topology : {"SingleReplica", "HighlyAvailable"}, nodes : 0..2, establishedAt : 1..6]
\* Up to two reads that fail.
MCReads ==
    {"catalogSource", "clusterCatalog", "extensions", "conditions", "subscriptions",
     "clusterVersion", "clusterConfig", "infrastructure", "nodes"}
MCFailingReads == {{r, q} : r \in MCReads, q \in MCReads}

MCOwner(version, name, uid) ==
    [apiVersion |-> version, kind |-> "Module", name |-> name, namespace |-> "ns", uid |-> uid]
MCOwners == {MCOwner("v1", "x", "u1"), MCOwner("v1", "y", "u2"),
             MCOwner("v1", "z", ""), MCOwner("", "w", "u3")}
MCOption ==
    [option : {"OwnedBy", "ControlledBy", "WithOwnerAnnotations"},
     owner : MCOwners]
MCOptions == UNION {[1..n -> MCOption] : n \in 0..3}

MCIngress(names, gateways, namespaces) ==
    [name : names, gateway : gateways, namespace : namespaces, isDefault : BOOLEAN]
MCIngresses ==
    (UNION {[1..n -> MCIngress({"", "a", "b"}, {"", "g", "h"}, {"", "n"})] : n \in 0..2})
      \union [1..3 -> MCIngress({"a", "b", "c"}, {"g", "h", "i"}, {"n"})]

MCLists == {<<>>, <<"Ready">>, <<"Ready", "ProvisioningSucceeded">>, <<"x", "y", "z">>}
MCPlatformObjects ==
    [status : {"pointer", "copy", "nil"}, phase : {"", "Ready", "NotReady"},
     setConditions : {"store", "drop", "append", "merge", "first", "inPlace"},
     setReleases : {"store", "drop", "append", "first", "inPlace", "nil"},
     conditions : MCLists, releases : MCLists]

PartsInput(p) ==
    CASE p = "histories" -> MCHistories
      [] p = "reports" -> [{"t", "u"} -> MCShortHistories]
      [] p = "config" -> MCConfigs
      [] p = "runtimes" -> MCSeriesSets
      [] p = "profiles" -> MCAllProfiles
      [] p = "collectors" -> MCCollectors
      [] p = "deployments" -> MCDeployments
      [] p = "clusters" -> MCCatalogs \union MCOpenShifts
      [] p = "owners" -> MCOptions
      [] p = "ingresses" -> MCIngresses
      [] p = "contract" -> MCPlatformObjects
      [] OTHER -> {<<>>}

PartsInit ==
    /\ part \in {"watches", "tls", "admission", "flakiness",
                 "histories", "reports", "config", "runtimes", "profiles", "collectors",
                 "deployments", "clusters", "owners", "ingresses", "contract"}
    /\ input \in PartsInput(part)
    /\ WatchesInit /\ TLSInit /\ AdmissionInit /\ ToolInit
    /\ part # "tls" => ~apiServer.served

InWatches(A) == part = "watches" /\ A /\ UNCHANGED <<part, input, tlsVars, admissionVars, toolVars>>
InTLS(A) == part = "tls" /\ A /\ UNCHANGED <<part, input, watchVars, admissionVars, toolVars>>
InAdmission(A) == part = "admission" /\ A /\ UNCHANGED <<part, input, watchVars, tlsVars, toolVars>>
InTool(A) == part = "flakiness" /\ A /\ UNCHANGED <<part, input, watchVars, tlsVars, admissionVars>>

PartsNext ==
    InWatches(WatchesNext) \/ InTLS(TLSNext) \/ InAdmission(AdmissionNext) \/ InTool(ToolNext)

partsVars == <<part, input, watchVars, tlsVars, admissionVars, toolVars>>

\* Definitions are established and workers go on, also after a failure:
\* the queue hands out what is put back.  The process is started again
\* whenever it ends, and the TLS watcher is told of what has changed.  The
\* flakiness tool is run again and again.
PartsFairness ==
    /\ WF_partsVars(InWatches(Establish))
    /\ \A w \in Workers : WF_partsVars(InWatches(WatchStep(w)))
    /\ WF_partsVars(InTLS(StartReads)) /\ WF_partsVars(InTLS(WatcherNotices))
    /\ WF_partsVars(InTool(ToolStep))

PartsSpec == PartsInit /\ [][PartsNext]_partsVars /\ PartsFairness

\* Every kind that is deployed ends up with a watch, whatever failed on the
\* way, and a child of an owned kind that is deleted once its kind is
\* watched does not stay away.  A kind whose definition was not served when
\* it was checked is reached through the watch of that definition
\* (action_dynamic_ownership.go:196).
EverythingIsWatched == <>[](part = "watches" => AllWatched /\ NoneGone)

\* Once a profile and a policy that can be honoured stay, the servers end
\* up with them for good: after changes between loading and watching, after
\* a fallback for a read that failed or an object that was not there yet
\* (apiserver.go:140), and without restarting for ever.
FollowsTheCluster == <>[](part = "tls" => Following)

\* Once builds and faults are over, the quarantine file says what follows
\* from all the builds, and every quarantined test has a ticket: what a
\* partial scrape or a failing call left wrong is made up for
\* (flakiness.go:266).
ListConverges == <>[](part = "flakiness" => UpToDate)

-----------------------------------------------------------------------------
(***************************************************************************)
(* The properties of the functions without state, each on the inputs of    *)
(* its part.                                                               *)
(***************************************************************************)

\* What the flakiness tool works with and reports is sound: a configuration
\* it loads is complete and its threshold in range, or one with which
\* nothing is quarantined (config.go:166), quarantine hides no regression
\* (analyzer.go:203), file and lists of a report agree (report.go:114),
\* percentiles are in order (runtime.go:245), budgets are those of one build
\* (budget.go:135), and suggested timeouts come to rest and, with a warning
\* threshold above two thirds, those to be raised are (budget.go:265).
FlakinessReportsAreSound ==
    /\ part = "config" => LoadedIsSafe(input.file, input.env, MCShortHistories)
    /\ part = "histories" => \A minRuns \in {1, 5} : HidesNoRegression(input, 20, minRuns)
    /\ part = "reports" => \A minRuns \in {1, 3} : ReportsAgree(input, 20, minRuns)
    /\ part = "runtimes" =>
          /\ PercentilesOrdered(input) /\ BudgetsNest(input)
          /\ LET runtimes == AggregateRuntimes(input)
             IN  \A timeout \in {0, 30000, 90000}, threshold \in {20, 50, 80, NaN} :
                    SuggestionsSettle(runtimes, timeout, threshold)

\* Lenient settings are never weak (profile.go:214), strict ones are those
\* of the cluster (profile.go:325), and manager and operands get the same of
\* what a server can choose (config.go:25).
TLSSettingsAreFaithful ==
    part = "profiles" =>
        LenientIsNeverWeak(input) /\ StrictIsTheCluster(input) /\ FlagsAgreeWithConfig(input)

\* gc action and collector scan the same types, one view of every aliased
\* kind among them (actions/gc/openshift_rbac.go:68); both deployers do the
\* same with a Deployment (action_deploy_merge_deployment.go:28): a revert
\* leaves what the manifest says (drift.go:32), a merge what users have set
\* (merge.go:23).
ResourceDecisionsAgree ==
    /\ part = "collectors" =>
          /\ AliasesScannedOnce(input.apis, input.rules)
          /\ CollectorMirrorsAgree(input.apis, input.rules)
    /\ part = "deployments" =>
          /\ DriftIsReverted(input.desired, input.live)
          /\ TuningIsKept(input.desired, input.live)
          /\ DeploymentMirrorsAgree(input.desired, input.live)

\* A failing read is never taken for an absence (platform.go:88), only a
\* context that ends is, for a definition that is waited for (crd.go:89);
\* and the ways to find the operator agree (platform.go:102).
PlatformIsKnown ==
    part = "clusters" =>
        /\ \A fails \in MCFailingReads : DetectionIsTruthful(input, fails)
        /\ EstablishedIsFound(input) /\ DetectionsAgree(input)

\* One controller, and options that can be applied again (meta.go:152).
OptionsKeepOneController == part = "owners" => OwnersAreConsistent(input)

\* Ingresses are assigned without ambiguity (assignment.go:66).
IngressIsUnambiguous ==
    part = "ingresses" => AssignmentIsUnambiguous(input, {"", "a", "b", "c", "absent", "unreadable"})

\* The validator accepts the implementations that keep the contract and the
\* two kinds of setters of releases it cannot tell from them (validate.go:195),
\* and leaves an object as it was just where its setters store what they are
\* given apart from the old list, or there is nothing to lose (validate.go:94).
ValidatorIsExact ==
    part = "contract" => VerdictIsExact(input, MCLists) /\ TraceIsExact(input)
=============================================================================
