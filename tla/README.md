# TLA+ models of odh-platform-utilities

Models, TLC checks and TLAPS proofs of the library Open Data Hub operators are
built with. The repository is three Go modules: `framework/` (a generic
reconciler, the actions it runs and what they need), the root module (`pkg/`,
`api/`: the same services as free-standing packages, and the API contract), and
`flakiness/` (statistics on CI test runs).

## 1. Inventory

| Part | State it keeps | Operations | Interacts with | What is hard | What makes it correct |
|---|---|---|---|---|---|
| **Condition manager** (`framework/controller/conditions`) | the list of conditions of one object, the set of types written since `Reset` | `Mark*`, `SetCondition`, `ClearCondition`, `RecomputeHappiness`, `Reset`, `CleanupStaleConditions` | called by actions and by the reconciler on the status of its copy | any order of calls; conditions inherited from the stored object | the target is a function of its dependents; no inherited health; honest transition times |
| **Generic reconciler** (`framework/controller/reconciler/reconciler.go`) | none of its own between calls: a copy of the object, the pipeline's position, the error so far | `Reconcile`, `addFinalizer`, `delete`, `removeFinalizer`, `apply` | informer cache (reads), API server (writes), work queue, actions, finalizers, hooks | stale reads, crashes between steps, failing actions, lost wake-ups | no external state outlives its object; an honest status; nothing forgotten |
| **Render actions and cache** (`actions/render`, `actions/cacher`, `actions/resourcecacher`) | caching key and cached resources | `Render`, `InvalidateCache` | fills `rr.Resources`, sets `rr.Generated`, which gc reads | the key is stored before deploy and gc have succeeded | a new generation is rendered |
| **Deploy action** (`actions/deploy`) | the deploy cache (TTL store) | `run` per child: look up, disown, skip, apply or create | informer cache, API server | decisions on stale copies, partial failure, cache hits | owned children end up as rendered |
| **GC action** (`actions/gc`) | none | discover kinds, list, delete | API server directly | list and delete are two steps; it reads past the cache deploy reads | only stale children go, and all of them |
| **Dynamic watches and ownership** (`reconciler_actions.go`, `actions/dynamicownership`) | sets of watched kinds and CRDs | register watch | controller, several workers | two workers at once, failing registration | each watch is registered once, and retried |
| **Builder, predicates, handlers** (`reconciler_support.go`, `predicates`, `handlers`) | none at run time | which events enqueue what | work queue | a filtered event that mattered | every relevant change leads to a reconciliation |
| **Status actions** (`actions/status`) | none | derive a condition from Deployments, ImageStreams | condition manager | zero replicas, missing objects | the condition says what the objects say |
| **Root condition manager and preconditions** (`pkg/controller/conditions`, `precondition`) | list of conditions | as above, with other rules; `RunAll` | status of the object | random map order, missing dependents count as healthy | result independent of the order |
| **Root deployer and collector** (`pkg/deploy`, `pkg/controller/gc`) | deploy cache | `Deploy`, `Run` | API server | as the actions | as the actions |
| **Status update** (`pkg/status`) | none | `Update` with conflict retries | API server, other writers | conflicts, exhausted retries | a mutation is stored exactly once or an error is returned |
| **Singleton webhook** (`pkg/webhook`) | none | admit one creation | API server | two admissions at once | at most one object |
| **API contract** (`api/common`) | none | validation | - | - | accepted statuses satisfy the contract |
| **TLS profile** (`framework/tls`) | the profile loaded at start | load, fall back, watch | API server configuration | transient failures at start, a change while running | the process runs with the current profile or restarts |
| **Rules, RBAC, ingress assignment, cluster and client helpers** | none | pure selections | gc, deploy | aliases of kinds, preference order | result equals a reference definition |
| **Flakiness tool** (`flakiness`) | a time-series store, a quarantine list | scrape, analyse, report, push back | CI buckets, issue tracker | partial scrapes, repeated scrapes | classification and quarantine agree with the samples |

PROJECT.json lists each part with its sources, and the hazards line by line.

## 2. Modules

| Module | Models |
|---|---|
| `Conditions` | pure operators of the framework's conditions: aggregation by polarity, severity and order (`conditions_aggregator.go`), `SetStatusCondition`, and the manager's operations as functions of a list |
| `ConditionsManager` | the manager as a state machine: one action per method, reconciliation after reconciliation |
| `FinalizerContract` | what a finalizer promises, without caches, workers or failures |
| `Reconciler` | `Reconciler` with one object, its informer cache, the work queue and a worker; extends `Conditions` |
| `Pipeline` | render, deploy and gc over the children of one object, with the informer's view, both caches and users |
| `Watches` | dynamic watches and the dynamic ownership action, run by several workers for several instances |
| `RootConditions` | the root module's condition manager, preconditions and CRD monitor, as functions |
| `StandaloneStatus` | a reconciler without the framework: conditions, `RunAll`, `status.Update` against another writer; extends `RootConditions` |
| `RootResources` | decisions of the root deployer and collector: stamps, collectability, scanned types, merging and reverting Deployments |
| `StandaloneDeploy` | passes of the root `Deployer` and `Collector`, one step per API call; extends `RootResources` |
| `FrameworkResources` | the framework's own copies of those decisions, compared with `RootResources` |
| `SingletonAdmission` | concurrent creations through the singleton webhook, and `GetSingleton` |
| `TLSProfile`, `TLSStartup` | the conversions of the cluster's TLS profile; start, fallback and watcher of a manager that follows it |
| `ClusterDetection`, `OwnerMetadata`, `IngressAssignment`, `PlatformContract` | functions without state: what the cluster is, owner references and annotations, the ingress of a namespace, the validator of the API contract |
| `Flakiness`, `FlakinessTool` | classification, reports, configuration and budgets as functions; the periodic runs of the tool with push-back |
| `MCConditionsManager`, `MCReconciler`, `MCPipeline`, `MCStandaloneStatus`, `MCStandaloneDeploy` | constants for TLC |
| `MCParts` | the parts that share no state in one model (see below) |
| `ConditionsProofs`, `ConditionsManagerProofs`, `ReconcilerProofs`, `PipelineProofs` | theorems on the framework's conditions, reconciler and pipeline |
| `WatchesProofs`, `StandaloneStatusProofs`, `StandaloneDeployProofs` | theorems on watches, and on the root module's status, deployer and collector |
| `PartsProofs` | theorems on the parts without shared state: singleton webhook, TLS, resource decisions, cluster detection, flakiness tool and reports, ingresses, validator, metadata options |

### Conditions and ConditionsManager

A list of conditions is a function from types to slots (`Absent` or a record of
status, reason, severity and observed generation). The order of the list and
the message are left out; a transition time is reduced to whether it is the one
the stored object came with (`fresh` holds the types whose time was set anew).
`Aggregate` is total: it explains an unhappy target by the first unhealthy
condition in the order of `compareConditions`, which needs the relative order of
type names, the constant `Rank`. `overridden` remembers that the target itself
was the last thing written, which the code allows (`MarkTrue(Ready)`).

### Reconciler

The worker's program counter follows `Reconcile`: `idle`, `addFinalizer`,
`apply` (the preconditions), `action` (one step per action), `status`
(everything from the provisioning condition to `ApplyStatus`), and `finalize`,
`removeFinalizer` for an object that is being deleted. Each step that reads or
writes outside the process is one action; between them the object may be
changed, deleted and created again, and the process may die (`Crash`). An
action's outcome is one of those the code tells apart (nil,
`RequeueAfterError`, `StopError` with and without delay, other errors), and it
may mark any one condition. Every action leaves external state, and finalizer
`k` removes the `k`-th part of it (`effects`). `run` is a history variable: what
the last published reconciliation did.

### Pipeline

A child has a resource version, a stamp (the lifecycle annotations, which name a
generation), whether it drifted from its manifest, the managed annotation, the
part-of label, its owners and a deletion mark. What is rendered for a generation
is the constant `Desired`. Users drift, release (`managed=false`), take back,
unstamp or delete children, as the constant `Edits` allows. Deploy works on the
informer's view, gc on the API server, as in the code. Each child is of a kind
of its own; patch mode, CRDs and the merging of Deployments are left out. The
watch on an owned kind delivers every version; a change of owners alone is not
an event (`DefaultPredicate`).

### Watches

Workers take instances from the queue and run, in the order of the builder, the
dynamic watch action and the ownership action. Reading the action's map,
registering and storing are separate steps in `reconciler_actions.go`, which has
no lock; another worker at that map may end the process (`MapRace`). The
ownership action checks outside and again inside its mutex, so `Register` is one
step. A kind is one of the action's watch keys, so the children of a kind are
either all owned or all create-only. A late kind gets its definition only after the first reconciliation;
definitions and children are deleted by users, registrations fail, the process
restarts. A deletion is an event only if a watch was registered before it.

### StandaloneStatus and StandaloneDeploy

Both follow the reconciler that `docs/module-operator-scenarios.md` shows as
option B. In `StandaloneStatus` the results of `RunAll` are written one by one
in any order, as from a Go map, with a clock for transition times; then
`status.Update` mutates, writes, re-reads and retries while another actor writes
a condition of its own and users change the spec. `Mutation` says whether the
caller's function sets what was computed or assigns the status of the object
`Update` re-reads. The client is an argument of `Update`: one that re-reads from
the API server (`"direct"`), or a manager's, which re-reads the informer's copy
(`"cached"`); `contention` counts the writes of others that the reconciler's
first copy has not seen. In `StandaloneDeploy` each Get, Update, Patch, List and Delete
is a step; users, restarts with the next release and a re-created instance come
between. What a merge strategy preserves (`tuned`) and what it does not
(`drift`) are told apart.

### TLSStartup, SingletonAdmission, FlakinessTool

`TLSStartup` is the wiring of `framework/tls/doc.go`: load, serve, watch, end
the process when what is watched differs from what was loaded. Administrators
change profile and policy, the APIServer object may not exist yet, a read may
fail. `SingletonAdmission` separates the webhook's list, its answer and the
storage of the object. `FlakinessTool` runs scrape, analysis, tickets, commit and
push against builds that go on; artifacts are unreadable or recorded in part,
Jira fails or answers too late, pushes fail, the job is ended anywhere.

### MCParts

Seven stateless modules and four small machines share no variables, so one
model holds them all: `part` names the one a behaviour belongs to, `input` is the
argument of a stateless function, and the others stutter. Every property is
guarded by its part. The state space is the sum, not the product.

## 3. Runs

| Run | Bounds | Shows |
|---|---|---|
| `conditions` | 3 types, two dependents of opposite polarity, 2 sets of options | after any sequence of calls the target reflects its dependents, times are honest, and a cleanup leaves the object happy only if every dependent was set |
| `lifecycle` | 2 finalizers, 1 action, 2 creations, 2 or 3 generations, failures bounded | no orphans, the pipeline is guarded, the finalizer contract is implemented, deletions complete, the last generation is processed |
| `status` | preconditions, all outcomes, skipped status, 3 condition types | Ready is honest and current, failures are reported, a quiet controller has processed the last generation |
| `pipeline` | 2 children, one adopted and one dropped, 2 edits, 1 failure, both caches | gc deletes only what the manifests dropped; owned children are current when the controller is quiet |
| `pipeline_converges` | 3 children: create-only, kept, dropped; every kind of edit, 1 of them, 1 failure, no caches | the children converge to the manifests, and those the manifests dropped go |
| `standalone_status` | 4 types, 6 sets of checks, 3 inherited lists, retries -1, 0 and 1, a direct and a caching client | a stop is reported and an unhappy dependent visible in whatever order results are written; another writer's condition survives; success means stored; who gives up was overtaken by one write more than it had retries, or, with a caching client, by at least one |
| `standalone_deploy` | 4 children (legacy-owned and merged, dropped, CRD, create-only), 2 releases, 2 instances, 2 edits, 1 fault | the collector spares what is rendered, tuning is lost only in races, passes settle and come to rest |
| `parts` | 2 workers and instances; 2 TLS changes, 1 load error; 3 creations; 5 builds, window of 4, 2 faults; all inputs of the sets in `MCParts` | see the next table |

Two generations and two creations are enough for every case the code
distinguishes (same, newer, other UID); one failure or restart is enough because
failures interact only through what they leave in the caches and the API
server, which the next reconciliation starts from. Two edits are needed for a
change between reading a child and deciding about it, and one after. Three
creations let a webhook meet a stored object and one under way; five builds are
one more than the window, so that a build leaves it; two faults allow a ticket
that is filed twice. Two writes of others, one of the spec and one of the status,
are what it takes to exhaust one retry of `status.Update`. Every bound is a constant named `Max...`.

| Part of `parts` | Properties |
|---|---|
| watches | `RegistersOnce`: once per kind, and only what is registered counts as watched; `EverythingIsWatched`: every kind ends up watched and deleted children return |
| TLS | `FailsClosed`, `FollowsTheCluster`; on all profiles `TLSSettingsAreFaithful`: lenient settings are never weak, strict ones are the cluster's, manager and operands get the same version, curves and, below TLS 1.3, suites |
| admission | `OnlyOverlapsDuplicate`: two objects exist only if their creations overlapped |
| flakiness | `QuarantineIsEarned`: quarantine is backed by builds, tickets are filed twice only for a reason; `ListConverges`; `FlakinessReportsAreSound`: configurations, classifications, lists, percentiles, budgets and suggestions |
| collectors and Deployments | `ResourceDecisionsAgree`: the framework and the root module scan the same types, one view of each, and merge and revert Deployments alike, to what users or manifest say |
| clusters | `PlatformIsKnown`: a failing read is no absence, `HasCRD` tells what was established before its context ended, and the ways to find the operator agree |
| owners, ingresses, contract | `OptionsKeepOneController`, `IngressIsUnambiguous`; `ValidatorIsExact`: just which implementations the validator accepts, and which it leaves as they were |

Where a run has `CHECK_DEADLOCK FALSE`, the system may really stop: all bounds
are used up and the controller is quiet.

Runs that expect a violation state what a document says and show that the code
does something else:

| Run | Shows |
|---|---|
| `stop_in_finalizer` | a `StopError` in a finalizer leaves the later finalizers undone, for good |
| `stale_after_failure` | after a failure between rendering and gc, the retry hits the render cache and gc is skipped: a dropped child stays |
| `status_lost` | `status.Update` called as the documentation shows loses the computed conditions after a conflict, and returns nil |
| `sample_collects_all` | the documented standalone reconciler has a release without a type, so its collector deletes what its deployer has just deployed |

### What the models show besides

Behaviours TLC finds on variations of these instances, or that the models leave
out. They have no run of their own.

* `observedGeneration` is set only by a happy reconciliation, and an unhappy one
  of a stale copy moves the stored value back (`reconciler.go:562`), while
  `docs/platform-object-contract.md:42` calls it the latest generation processed.
* Deploy skips a child its cache shows as being deleted; gc, reading the API
  server, deletes the re-created child for its old stamp (`action_deploy.go:359`).
  Stripping annotations or taking a release back does the same, and so does,
  without any user, a child that one generation drops and a later one renders
  again while the informer still shows it terminating. So `CollectsOnlyStale`
  is checked and proved with users who change or release children and manifests
  in which no dropped child comes back; the deletion is an event, and the next
  pass repairs it.
* A user who releases a child, takes it back and releases it again while deploy
  is about to apply it ends up with a released child that the object owns: the
  apply adds only the owner reference, and `DefaultPredicate` filters that change
  out, so nothing removes it until the next reconciliation. `OwnedIsCurrent` is
  proved for users who do not take back what they released; three edits are
  needed to see it, one more than the run has.
* A create-only child is created without its annotation, and gc without
  `WithOnlyCollectOwned` deletes it with the next generation
  (`action_deploy.go:485`); `docs/module-operator-scenarios.md:468` says otherwise.
* `Converges` is checked with one edit. With two, a child that was released,
  loses its owner and is then deleted by a user is not noticed until the next
  reconciliation.
* With a caching client, which the documentation passes (`r.Client`), a single
  write of another actor that the informer has not seen exhausts all the retries
  of `status.Update`: every attempt re-reads the same copy. The error says that
  "the object was modified by another actor on every attempt" (`update.go:15`);
  `ExhaustedMeansContention` states both bounds. A negative number of
  retries is reported as exhausted without an attempt. `Reset` of the root
  manager drops conditions other actors wrote.
* A dropped, owned child whose generation annotation is not a number makes every
  pass of the root collector fail. A crash between removing a legacy owner and
  the apply, followed by a generation that drops the child, leaves the child
  without owner for good. A NotFound is ignored for CRDs, which `Settled`
  therefore exempts.
* `HasCRD` reports a definition as absent when its context ends while it waits,
  as its comment says (`crd.go:93`): `EstablishedIsFound` says for which contexts
  "no" is an absence. `IsSingleNodeCluster` returns an error for an
  Infrastructure that may not be read; its comment says that it counts nodes
  under "RBAC restrictions" (`openshift.go:95`).
* Below TLS 1.3 operands and manager get the same cipher suites. With a minimum
  of 1.3 the manager's configuration has none, since Go does not let servers
  choose them (`config.go:25`), while operands get the profile's as flags.
* A threshold of NaN passes both comparisons of `Validate` (`config.go:166`),
  which demands (0, 1]; nothing is quarantined with it (`LoadedIsSafe`).
  A suggestion to "raise" is P99 times 1.5 whatever the timeout, so that for
  warning thresholds up to two thirds it can be shorter than the timeout it is to
  replace (`budget.go:265`); what is always true is that following suggestions
  comes to rest after two of them (`SuggestionsSettle`).
* The validator tries releases with a single entry: a setter that keeps only the
  first, or appends to none, passes. And "doesn't leave side effects"
  (`validate.go:94`, `:192`) is not true of all it accepts: what it read before may
  share an array with what it sets, and an appending setter keeps everything.
  `VerdictIsExact` and `TraceIsExact` name the cases, in both directions.
* A list of metadata options that makes one owner the controller and a mere
  owner cannot be applied again (`meta.go:131`).

## 4. Fairness

`Reconciler!FairSpec` and `Pipeline!FairSpec` assume weak fairness of the
informer (a watch delivers in the end), of the worker (controller-runtime's work
queue hands out every key, and user actions return), and, in `Pipeline`, of
Kubernetes finishing a foreground deletion. Users, failures, restarts and the
expiry of cache entries owe nothing. Failures are bounded, which is what "once
failures cease" means in `DeletionCompletes`, `EventuallyProcessed` and
`Converges`.

`StandaloneDeploy!Spec` assumes the same of its worker. `MCParts!PartsFairness`
assumes that definitions are established, that workers take what is queued,
that Kubernetes starts an ended process again and the TLS watcher is told of
changes, and that the flakiness tool is run again (it is a periodic job). Its
faults are bounded in the same way.

## 5. Proofs

All theorems hold for every value of the constants that satisfies the named
assumptions of the modules (`TypesAssumption`, `ValuesAssumption`, ... in
`Conditions`, `OptionsAssumption`, `ReconcilerAssumption`, `PipelineAssumption`,
`WatchesAssumption`, ...), which TLC evaluates on the constants of the runs. So
they hold for any number of children, workers, kinds, generations, failures and
edits, and for condition types that are no dependents, which no run has. A
theorem of the form `H => (Spec => []P)` needs more than the assumptions; why
is said below and at the theorem. The inductive invariants were checked with
TLC on small instances before they were proved.

### Conditions

* `ConditionsProofs`: lemmas on the operators. Priorities make `Before` pick a
  first element of every non-empty set of conditions, so `Aggregate` is
  defined; each operation returns a list, keeps a target, and leaves it derived
  (`Derived`) unless it changed nothing.
* `ConditionsManagerProofs`: `ManagerInv` (types, the target is there, derived
  unless overridden, inherited times) is inductive; `TypeCorrect`,
  `TargetIsDerived` and `TransitionTimesAreHonest` follow. `HappinessIsEarned`
  is an action property: a cleanup replaces every dependent that was not set by
  an unhealthy one, and the recomputation then cannot find the object happy.

### Reconciler

* `PipelineIsGuarded` is not inductive. `GuardInv` adds that
  copies are not newer than the object (`CopiesAge`), that a finalizer seen in a
  copy of the living object is still there unless it is being deleted
  (`CacheGuards`), and what the worker knows while it adds the finalizer or runs
  finalizers. `EffectsInv` adds that external state is behind the finalizer and
  that finalizers work through it in order; its steps need that no finalizer
  returns a `StopError`, so `NothingIsOrphaned` and `ImplementsContract`
  (`Spec => Contract!Spec`) assume that. The run `stop_in_finalizer` shows that
  the assumption is needed.
* `QuietMeansProcessed`: `AgeInv` orders the copies by UID, generation and
  deletion. `NothingIsForgotten` then says that the generation in the cache is
  queued, under way, published without a failure, or of an object that has gone;
  every event puts it into the first case, and every end of a reconciliation
  into the first or the third.
* `ReadyIsAlwaysCurrent`, `ReadyIsAlwaysHonest`, `FailureIsAlwaysReported`: the
  stored status changes only when it is published, so the work is in
  `PublishStatus`, with the lemmas of `ConditionsProofs` on what a cleanup and a
  recomputation leave. The last two assume that the provisioning condition is
  a dependent, or that there are none and every condition counts
  (`ProvisioningCounts`), as `ReconcilerFor` makes it: otherwise a failed pipeline
  can be Ready.

### Pipeline

What each write does to a child in the API server is a lemma of its own
(`UserEditEffect`, `DisownEffect`, `ApplyEffect`, `CollectEffect`, ...);
`StepKinds` says that every other step leaves the children alone.

* `TypeCorrect` from `TypeInv`: the copies of the informer and the keys of the
  deploy cache are of versions that were given out.
* `OwnedIsAlwaysCurrent` from `CurrentInv`. Its core is `NoWorkIsForgotten`: an
  owned child that is not as its manifest says is queued, or the watch has a
  version to deliver that its predicate lets through, or the run under way has
  it still to deploy, or has failed. That needs what the worker's copy tells
  (`CursorInv`), that a key of the deploy cache for the current version speaks of
  its content (`KeysAreHonest`), that versions identify contents (`ViewsLag`), who
  may own a child (`OwnersInv`), and that pending versions of owned children are
  noticed, because a change of owners alone, which is filtered, is never the
  only difference (`ChangesAreNoticed`). The last fails for users who take back a
  released child, hence `NoTakeBack`.
* `OnlyStaleIsCollected` from `CollectInv`. `DoneInv` says that a child the run
  is done with is stamped with its generation, released, only created, or gone,
  and that gc is about to delete a child that some generation dropped.
  A skip must therefore be right: the keys of the deploy cache are not newer
  than the stamp (`KeptKeys`), and no copy shows a child that no generation
  dropped as terminating, or as released when it is not (`KeptInv`,
  `HeldStays`). `KeepsChildren` is what this needs: users only change or release,
  no dropped child comes back, and gc keeps to owned children, its default,
  unless there are no create-only ones. Section 3 says what happens otherwise.

### Standalone deployer and collector

`BaseInv` is inductive: what an instance owns carries its label and a stamp of a
generation that rendered it (`MarksInv`), what the cache remembers of the
current version of a child is true (`CacheInv`), and a copy of the current
version is the child (`CopyInv`). Every step that changes a child does one of
three things to it (`StepKinds`): it keeps its marks, goes, or is applied.

* `RestIsSettled` from `SettleInv`: as long as nothing has happened since the pass
  began it works for the current instance, what it has deployed is as rendered,
  and what it has scanned and is not rendered is not owned. Any step that
  changes a child sets `dirty`, so the steps that matter are the ones that do
  not: a child is skipped only for a fingerprint that is true, and kept by the
  collector only if its stamp is of the pass's generation, which `MarksInv` rules
  out for one that is not rendered.
* `RenderedIsSpared` from `SpareInv`: a child the pass is done with carries its
  stamp, is skipped, or is of a kind that is never collected, and no step of
  users or of the cluster makes that untrue (a user may only turn the stamp's
  generation into no number, on which the collector fails). It assumes
  `Identified`: releases have a type and a version, which `sample_collects_all`
  shows to be needed, and create-only children are protected by
  `WithOnlyCollectOwned`, since their stamps are not renewed.
* `OnlyRacesLoseTuning` is an action property and follows from `CopyInv`: only an
  apply drops tuning, and it carries what the copy had.

### Watches, status update, TLS, admission, functions

* `WatchesAreRegisteredOnce`: `WatchesInv` counts. A registration by the dynamic
  action is one of a worker that has yet to store it or of the one that did; a
  worker that has seen the map without the kind registers at most once.
* `StandaloneStatusProofs`: `UnhappyIsAlwaysVisible` (`VisibleInv`: everywhere a list
  of conditions is kept, an unhealthy dependent keeps the target from being
  true), `StopIsAlwaysReported` (`WrittenInv`: what of the results has been
  written so far), `ForeignAlwaysSurvives` (`CopiesLag`: a copy with the current
  version has the other actor's current condition, or a `Reset` took it). `SuccessIsAlwaysStored` assumes that the caller's function sets
  what was computed (`Mutation = "own"`); `status_lost` shows what happens
  otherwise. `ExhaustedAlwaysMeansContention` holds for both clients: what the
  copies are behind has been written since the reconciler's first read
  (`LagIsContention`), and with a client that reads from the API server each
  attempt so far was overtaken by a write of its own (`AttemptsContended`).
* `PartsProofs`, TLS: three theorems on the conversions, for every profile, and
  `StrictLoadsFailClosed` for every behaviour of a start.
* `PartsProofs`, admission: `OnlyOverlapsGetThrough`, for any number of creations:
  a creation that was admitted saw no object, so every object stored since was
  under way with it.
* `PartsProofs`, flakiness tool: `QuarantineIsAlwaysEarned` from `ToolInv`: what a
  run works on is as well founded as what is published; entries are empty unless
  a run is filing or pushing; an entry still to be filed has no ticket in the
  repository, and a test has at most as many tickets as it had lapses, and the
  one on file. The history of a test is selected from the builds, so that a
  failure in it is a failure of a build is a lemma on the `k`-th smallest element
  of a set (`SortedRun`).
* `PartsProofs`, functions, for every input and not only those of `MCParts`:
  * resource decisions: collector and gc action scan the same types
    (`CollectorsAgree`) and one view of an aliased kind
    (`AliasedKindsAreScannedOnce`); a revert leaves the manifest
    (`DriftIsAlwaysReverted`), a merge what users have set
    (`TuningIsAlwaysKept`), and both deployers decide alike (`DeployersAgree`);
  * cluster detection: a failing read is never taken for an absence
    (`DetectionIsAlwaysTruthful`), a context that ends is, where a definition is
    waited for (`EstablishedIsAlwaysFound`), and the ways to find the operator agree
    (`DetectionsAlwaysAgree`), because a search for installed extensions
    stumbles over the same ones as one for requested ones;
  * flakiness reports: a test that was reliable up to some build and has failed
    ever since is not quarantined (`RegressionsAreNeverHidden`): the streak of
    failures is found at that build or before it, and failures that move into the
    streak only lower the rate of the builds before; quarantine file, classification and lists agree
    (`ReportsAlwaysAgree`); whatever file and environment say, a configuration
    that loads is complete, and its threshold in range or one that quarantines
    nothing (`LoadedIsAlwaysSafe`); percentiles are ordered
    (`PercentilesAreAlwaysOrdered`); suggested timeouts come to rest after two of
    them, since neither depends on the timeout there is
    (`SuggestionsAlwaysSettle`); the budget of the pipeline is the whole of one build and
    that of no suite is larger (`BudgetsAlwaysNest`), which takes a sum regrouped by
    key. A series is never empty (`runtime.go:190`);
  * ingresses: `AssignmentIsAlwaysUnambiguous`, whatever the order of the list;
  * validator: which implementations it accepts (`VerdictIsAlwaysExact`) and which of
    those it leaves as they were (`TraceIsAlwaysExact`), both as equivalences;
  * metadata options: `OwnersAreAlwaysConsistent`, from `OptionsInv` over the
    options applied so far. It assumes that a UID is that of one owner
    (`UidsIdentify`), as it is in a cluster.
* What `MCParts` checks of these functions (`FlakinessReportsAreSound`,
  `OptionsKeepOneController`, ...) is derived for the whole of its specification:
  the inputs TLC chose stay in their sets (`InputStays`), and the theorems hold of
  those.

Induction over data is written out: a set of naturals has a first element
(`NaturalsHaveFirst`), so a property that is carried from `n` to `n + 1` has no
least counterexample (`UpToBound`), and one that is carried from a finite set to
the set with one element more holds of all (`OverSubsets`). Both take the set of
the cases that hold as a parameter instead of an operator. The sums of the
budgets (`SumFunction`) and what a list of options does are reasoned about
through these.

### Model-checked only

Liveness and everything under fairness: `DeletionCompletes`,
`EventuallyProcessed`, `Converges`, `EverythingIsWatched`, `FollowsTheCluster`,
`ListConverges`, `ComesToRest`. The prover knows neither fairness nor ENABLED. Every
safety property and every action property of a passing run is stated by a
theorem, some of them under assumptions that are named above. No module uses
recursive operators, which the prover's SMT backend does not support.

## 6. Plan

Left: what `Pipeline` and `StandaloneDeploy` both promise of a child, as one abstract
specification that both implement; and patch mode of the framework's deploy
action.

## 7. Not modelled

Rendering engines (kustomize, helm, Go templates) and file handling are third
party text processing; metrics, events, logging, generated code (deep copies,
lists of kinds) and test helpers do not affect the state. The status, sanity and
delete actions are single calls and appear as outcomes of an action of
`Reconciler`. Webhook helpers, client and manager wrappers convert and pass on.
Patch mode of the framework's deploy action and the merging of monitoring
objects are left out; patch mode of the root deployer is in `StandaloneDeploy`
(`Mode`), checked by hand with the constants of its run. The store of the
flakiness tool (Prometheus), its retention and its treatment of samples out of
order are external. Delays are not modelled: a key that is queued after a delay
is queued (so that a later `RequeueAfterError` replaces the delay of an earlier
one, `reconciler.go:524`, does not show). In `Watches` the statically owned
kinds and the dynamically watched ones are disjoint and distinct:
`Owns(..., Dynamic(...))`, whose kinds count as watched before they are
(`reconciler_support.go:510`), and two dynamic watches of one kind, of which only
the first is registered (`reconciler_actions.go:45`), are left out. So is the
installation of the APIServer API after the start, which the TLS fallback does
not watch for (`apiserver.go:142`), and that the deployments status action does
not look at `observedGeneration`. Metadata options with a reference the caller
has put together (`WithOwnerReference`, which checks nothing of it) are left out,
and malformed Deployment manifests, on which the framework's deploy action goes
on (`action_deploy_remove_deployment_resources.go:18`) where the root deployer
returns an error (`merge.go:171`). The root module's conditions of severity
"Error" and of none, which mean the same, are not told apart.
