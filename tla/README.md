# service-provider-otel-operator in TLA+

The service provider gives every `OtelOperator` on the onboarding cluster an
OpenTelemetry operator: CRDs and access rights on the tenant's control plane
(CP), the operator itself on a workload cluster, and the Flux objects that
install both on the platform cluster. The specifications here model what the
provider does with these objects while users, administrators, Flux, the API
servers and restarts act between any two of its API calls. Paths below are
relative to the repository.

## 1. Inventory

| Part | Source | State | Operations |
|---|---|---|---|
| Object manager | `pkg/oteloperator/resources/manager.go`, `managedobject.go`, `managedcluster.go` | lists of clusters, objects, cleaners; results of one pass | `AddCluster`, `AddObject`, `AddCleaner`, `Apply`, `Delete`, `AllDeleted` |
| Object catalogue | `internal/controller` (`createObjectManager`), `authn`, `authz`, `secret`, `configmap`, `flux` | none: a function of the OtelOperator and the ProviderConfig | which objects exist, their order, dependencies, namespaces, cleaners |
| Reconciler | `internal/controller/oteloperator_controller.go`, `cpresources`, `instance` | label, `status.installedVersion`, conditions of the OtelOperator | `CreateOrUpdate`, `Delete`, `ensureInstanceID`, `prepareInputs`, `BlockingKinds` |
| Service account token | `authn/serviceaccount.go` | token Secret with an expiry annotation | request, keep or renew a token |
| Pull secrets, CA bundle | `secret/secret.go`, `configmap/configmap.go` | copies on workload and platform cluster | copy, status, `Cleanup` |
| Flux resources | `flux/flux.go` | OCIRepository, two HelmReleases | write specs, read readiness |
| Helm values | `helm/helm.go` | none | pure transformation of a JSON tree |
| Start-up | `cmd/service-provider-otel-operator/main.go` | CRDs, registered kind, processes, lease | `init`, `run` |
| API types | `api/v1alpha1` | OtelOperator, ProviderConfig | generated DeepCopy, defaults |
| Runtime | external (openmcp service provider framework) | work queue, finalizer | calls a handler, saves the status, removes the finalizer |

How they interact: the runtime calls `CreateOrUpdate` or `Delete` with a copy
of the OtelOperator and of the ProviderConfig. The handler builds a manager
(the catalogue for the chosen version) and runs one pass, which is a sequence
of API calls against three clusters. The answers become the status; the
runtime saves it, and removes the finalizer when `Delete` returns neither an
error nor a requeue. Nothing but the label, the saved status and the objects
themselves survives between two calls.

What is hard: passes are not transactions (a failure or a restart can come
between any two calls, and a failed call may have taken effect); deletion is
asynchronous (namespaces and Flux objects wait for finalizers, namespaces take
their content along, Flux creates missing target namespaces again); the set of
objects depends on configuration that changes between and during passes;
completion is inferred from answers given at different moments; the guard reads
three lists one after the other; what was installed is remembered only in a
status that may be lost.

What makes each part correct:

* manager: dependents go before what they depend on; completion means nothing
  is left and nothing returns; orphans are removed or an error is reported;
  a retried teardown ends;
* catalogue: everything a configuration manages is managed or cleaned up by
  the next one;
* reconciler: the finalizer outlives every object; a teardown does not start
  over existing user resources; `Ready` is true when it is reported; what is
  recorded as installed was written without an error, and the record stays
  available to `Delete`; a deletion ends;
* token: never expired before the next pass; an outage that nobody reports is
  bounded; access comes back after any disturbance;
* Flux and readiness: `Ready` means installed; the operator comes after the
  CRDs; an instance comes to rest in the state its settings and failures imply;
* helm values: the provider's own values win and the user's others survive;
  the CA bundle is named, mounted and copied together or not at all;
* start-up: `init` ends, one process at a time handles objects, some process
  does in the end.

The hazards at their lines, with the properties that cover them, are in
`PROJECT.json`; those without a property say why.

## 2. Modules

| Module | What it is |
|---|---|
| `Teardown` | abstract specification: objects may come and go until a teardown starts, after that they only go (except namespaces Flux restores for a release that still exists), and the teardown is finished only when nothing is left |
| `ResourceManager` | the manager and its passes, generic in the catalogue |
| `ObjectCatalog` | the catalogue of `createObjectManager` as operators |
| `OtelOperatorReconciler` | the handlers, extends `ResourceManager` |
| `TokenRefresh` | the ServiceAccount token over time: kept or renewed by passes that come late, fail or are refused |
| `HelmValues` | the transformation of the helm values, the patches beside it, and the passes that write both and the CA bundle |
| `Readiness` | the passes with the statuses they read, while Flux fetches, installs and fails |
| `Startup` | the commands `init` and `run`, replicas, leader election |
| `MCResourceManager`, `MCOtelOperatorReconciler`, `MCHelmValues` | instances for TLC |
| `ResourceManager_proofs` | theorems about the manager |
| `OtelOperatorReconciler_proofs` | theorems about the reconciler, built on those about the manager |
| `ObjectCatalog_proofs` | the catalogue meets the assumptions of the modules above, so their theorems hold of this program's objects |
| `HelmLists_proofs` | theorems about the lists of variables, mounts and volumes, for lists of any length |
| `TokenRefresh_proofs`, `HelmValues_proofs`, `Readiness_proofs`, `Startup_proofs` | theorems about these modules |

`OtelOperatorReconciler` composes the handlers with the manager and the
catalogue. The four other modules each look at one aspect of an apply pass (or
of the process that runs it) that the composition abstracts from: there `Ready`
is Flux's choice, a token is kept or written, values are opaque. Together they
would be one product of independent details; apart, each is small enough to
be checked with the faults that matter to it.

### ResourceManager

`world[o]` is the state of an object on its cluster: absent, present, or
terminating; `content[o]` is the configuration it was last written from. A
*configuration* is everything `createObjectManager` reads that changes the set
of objects (namespaces, CA bundle, pull secrets). `mode`, `cfg`, `stage`,
`pos`, `todo`, `blocked`, `result`, `cleanErr` are the locals of
`reconcileObjects`; they are forgotten at the end of a pass and in a crash.
`deleting` and `done` record that `Delete` was called and that it reported
completion.

| Action | Code |
|---|---|
| `StartApply`, `StartDelete` | `Apply`, `Delete` (manager.go:64-70) with a manager built from any configuration |
| `CheckDependent` | one `Get` of `checkForDependents` (117-132); found, or failed: both are errors |
| `LeaveBlocked` | the object keeps that error (97-99) |
| `DeleteObject`, `DeleteObjectFails` | `cl.Delete` (103-107); only NotFound counts as deleted |
| `ApplyObject`, `ApplyObjectFails` | `CreateOrUpdate` (110-114); a namespaced object needs its namespace, the token Secret its ServiceAccount; a token that exists may be kept |
| `ListOrphans`, `CleanOrphan`, `...Fails` | `Cleanup` of `secret.go:121-140` and `configmap.go:128-149` |
| `EndPass` | the handlers' evaluation of the results (controller 78-88, 126-140) |
| `Crash` | restart in a pass |
| `SweepNamespace`, `Finalize`, `FluxCreatesNamespace`, `Drift` | the clusters: external |

A failed call has two outcomes, with and without effect. Failed calls, restarts
and deletions by third parties share the budget `MaxFaults`.

Assumptions about the surroundings, all named in the module: an object that
waits for a finalizer is finalized once what it contains is gone; an existing
release may put its target namespace back; nobody but the provider deletes a
HelmRelease *during a delete pass* (without this, completion can be reported
while Flux restores a namespace for a release that was read as present and then
vanished between two calls); API reads are not stale.

### OtelOperatorReconciler

`handler` is the program counter of the handler under way, `seen` its copy of
the settings, bundle and label, `draft` the status it has set, `outcome`
whether the runtime may remove the finalizer. The code's `Begin...` reads the
object and the ProviderConfig once; later edits go unseen, except that the
label update of `ensureInstanceID` conflicts with them (`edited`, the
resourceVersion). A pass of the manager runs between `Begin...Pass` and
`End...Pass`, step by step. `SaveStatus` is the runtime's; `StatusLost` and
`CrashInPass` lose the draft. `StatusLost` and failed calls of the handlers
themselves have the budget `MaxLosses`.

`Lifecycle` instantiates `Teardown` once more, now for the life of an instance
as a whole: it is closing from its first delete pass on, and closed when its
finalizer is gone (`FinalizerEndsTeardown`).

Only the installed version of the status is kept between handlers: no handler
reads the saved phase or the list of managed resources back. `draft.phase` is
the phase that is about to be saved. `Ready` needs all results to be good and
then is Flux's choice.

`Orderly = TRUE` restricts users and administrators: the version asked for is
offered, or an installed version is recorded, at all times (`Recoverable`), and
nobody changes the instance-id label by hand. Without it, `NothingLeftBehind`
fails, and the run `withdrawn_version` shows how.

### TokenRefresh

Time is relative: `secret.left` is what is left of the token, `idle` the time
since the last pass, `gap` the wait the last pass asked for. `secret.from` is
the account the token was issued for, and `None` once that very account is
gone: one created later under the same name has another UID.

| Action | Code |
|---|---|
| `Pass`, `PassFails` | one apply pass over ServiceAccount, ClusterRoleBinding and token Secret (`serviceaccount.go`, `clusterrolebinding.go`); an object that fails does not stop the others; `RenewalDue` is the comparison of the annotation with the next poll plus a minute |
| `PassRefused` | `prepareInputs` fails as invalid user input: nothing is written, and the next pass comes after the poll interval |
| `Tick`, `LoseAccount`, `LoseBinding`, `LoseSecret`, `ChangeSettings` | time, deletions on either cluster, edits of `namespaceOverride` and of the versions offered |

`TimingAssumption` states what the code takes for granted: a pass is late by
less than the slack (`Late < Slack`) and a fresh token outlives the wait
(`PollInterval + Late < Lifetime`). Nothing in the code enforces the second: a
ProviderConfig with a poll interval of an hour leaves every instance without
access for some time before each pass.

### HelmValues

A JSON object is a function, a list a sequence, a scalar a model value; `Null`
and `Malformed` (a value of another type than the code reads there) are kept
apart from an absent key, because `unmarshalIfPresent` treats the three
differently. `Build`, `AddAuth` and `AddCA` are the three steps in which
`createObjectManager` makes the workload values; `Refuse` and `Panic` the
inputs for which it does not get that far; `ApplyAll`, `ApplySome` write the
two releases and the bundle, `Clean`, `CleanFails` are the bundle's cleaner,
which runs whatever the writes did. The tree has the keys the code reads or
writes plus keys of the user it must leave alone.

helm.go has one helper that removes a name from a list and appends an item under
it for each of variables, mounts and volumes; `RemoveConflictingAndAppend` is
all three, with the loop over the list as the recursive function `Without`. Where
the code adds several variables one after the other, the model removes all their
names and appends them in one step (`OneByOne` proves the two equal).
`ListsAssumption` says that the variables of a user are a sequence of
name-value pairs, which is what a list that could be decoded is.

Mounts and volumes are identified by their volume's name. Settings are edited
between passes only: the handler reads them once, so an edit during a pass acts
like one after it.

### Readiness

`object[o]` is the spec an object was last written with, Flux's last verdict
(`ready`, and `observed`, the configuration it is about), whether it is
terminating, and `effect`: what is fetched or installed. A pass goes through
`Order`, writes each object and at once reads the phase it reports
(`ApplyObject`, `ApplyFails`); `EndPass` is `allResourcesReady` and the phase
of the instance, after which what the pass has read is forgotten (`Forget`). As
in the code, the phase of a written object is that of the
object the API server returned, so a changed spec comes with the condition of
the old one.

Flux is external and modelled from how `flux.go` configures it: the repository
needs the pull secret; a release runs only if its chart is fetched and the
releases in `DependsOn` are ready; installations are retried, upgrades are not
(only `Install.Remediation` is set); deletion waits for the uninstall
(`Finalize`). The values of the CRD release do not depend on the settings, and
the target namespaces are left to the other modules.

### Startup

`init` is a job that the runtime starts again after an exit code or a panic:
`InitAccessFails`, `InitCRDsFails` and `InitGVKFails` are errors that main.go
logs and goes on from, `InitPanics` is the nil cluster that is used after the
first of them, `InitExits` the errors that call `os.Exit(1)`. `run` has one
process per replica, from `access` through `waiting` (for the lease) to
`active`; `stopping` is the time between a signal and the return of `Start`.
The lease is that of client-go: renewed by its holder, taken by others when it
is older than `LeaseDuration`; a holder that could not renew it within
`RenewDeadline`, which is shorter, ends. `Deploy` starts a version after its
`init` job has ended.

## 3. Runs

| Run | Question | Bounds |
|---|---|---|
| `manager_safety` | `DoneMeansGone`, `DependentsFirst`, `OrphansCleaned`, `RefinesTeardown`, `TypeOK` | the real catalogue: 10 of its objects on three clusters, two configurations (an image pull secret comes and goes), one fault |
| `manager_liveness` | `TeardownCompletes` | same catalogue, one configuration, two faults |
| `reconciler_orderly` | `NothingLeftBehind`, `ReadyMeansPresent`, `InstalledIsWritten`, `ManagerSpec`, `FinalizerEndsTeardown`, `ReconcilerTypeOK` | three objects (namespace, ServiceAccount in it, pull secret), two interchangeable versions (symmetry), two settings, one fault, one loss |
| `reconciler_guard` | `GuardStops` in a hostile environment | the three list calls, both kinds, broken settings, label edits, CA bundle changes; one object and no fault of the manager, since the guard ends where the pass begins |
| `reconciler_liveness` | `DeletionCompletes` | one kind, one version, usable and broken settings, one fault, one loss |
| `token` | `TokenAlive`, `OutageBounded`, `AccessRecovers`, `TokenTypeOK` | two namespaces, lifetime 7, poll interval 2, slack 2, lateness 1, backoff 3, three disturbances |
| `helm_values` | `SplitTopology`, `InjectedWins`, `UserValuesKept`, `BundleMentioned`, `BundleMounted`, `SuccessMeansCurrent`, `CurrentStays`, `Converges` | 14 inputs: absent, null, mistyped and user-set values at the operator, its manager and its variables, with duplicates and names that collide; no, an unnamed and a proper CA reference; one fault |
| `startup` | `OneActive`, `InitEnds`, `Serves`, `StartupTypeOK` | two replicas, leader election, two CRDs of which one is remote, two versions, three faults |
| `readiness` | `ReadyMeansInstalled`, `OperatorAfterCRDs`, `Settles`, `RolloutGoesOn`, `ReadinessTypeOK` | two charts, two sets of values, one retry, two edits (of the settings or of the pull secret), two faults, three of both together |
| `withdrawn_version`, `moved_namespace`, `helm_null` | expected violations, see section 5 | as above, or smaller |

Why these bounds are enough: the manager handles objects one at a time and
compares only an object with its dependents and its namespace, so a catalogue
with every kind of relation (dependency inside a cluster, across clusters, of
two on one; namespace; created by Flux; cleaned) contains every local case.
One fault reaches every single failure at every call; two faults in the liveness
run add a failure during the retry of another one. In the reconciler runs the
catalogue is cut down to objects that differ in what matters there (one that
waits for a finalizer, one that depends, one that only some settings manage),
because the full catalogue is covered by the manager runs and by the theorems.
Passes, edits and retries of these runs are not bounded. No run disables the
deadlock check: passes can always be started again, and leases renewed.

The durations of the token runs are the smallest that keep their order
(`Late < Slack`, and a token that survives one pass before it is renewed, so
that both branches of the comparison are taken with each remainder); three
disturbances can delete the account, move the settings and fail the next pass.
In the helm runs each function reads at most three levels and each list at most
two entries matter to a merge (one that collides, one that does not, and a
duplicate); `MaxFaults` there allows one failed write or cleaner at a time, after
which a pass finds any mixture of old and new objects, and longer lists and more
failures are the theorems' to cover. Two replicas suffice for exclusion, since the lease has one holder;
three faults allow a crash, a lost lease and a failed call of `init` in one
behaviour. In the readiness runs two faults make an installation fail beyond
its one retry, or a release disappear and its return fail. Two edits, before,
during or after a pass, make the old and the new configuration meet, let the
pull secret be gone while a setting changes (the case of `RolloutGoesOn`), and
take it away and put it back. `MaxTogether` bounds the sum: any two of one kind
meet any one of the other, and four disturbances in one behaviour are left to
the theorems.

Every property has a mutant in `PROJECT.json`: a definition marked "Mutation"
or "Mutant" that a plausible mistake would produce and that violates the
property.

Fairness. `Fairness` and `ReconcilerFairness` are weak: the work queue of
controller-runtime hands a requeued key to a worker again, a handler that runs
goes on running, and namespace controller and Flux finish finalizers. Nothing
is assumed of users and administrators; `DeletionCompletes` has the hypothesis
that user resources are gone and that the settings `Delete` would pick
(`ForDelete`: those on offer, else the recorded ones) are usable from some time
on, because the code waits for exactly these two. Faults are finitely many; under
infinitely many no retry loop terminates.

The fairness of the other modules is weak as well. `TokenRefresh`: time goes on
and a pass is run when it is due (nothing else is required of the offered
version than to be offered for good). `HelmValues`: a key is handled again
after its poll interval or backoff, and a handler that runs goes on; that a
handler ends is not enough for `Converges` if it only ever fails, hence
`ApplyAll` and `Clean`, against finitely many faults. `Readiness`: passes are
repeated and Flux's controllers act on what they watch; a failed reconciliation
is a fault. `Startup`: the runtime and the Deployment start processes again
that ended, and time passes; a lease that may be taken stays so until it is.

## 4. Theorems

TLAPS checks, for every catalogue, every set of configurations and any number
of faults (and, of the other modules, for all durations, inputs, replicas,
versions and bounds that satisfy the assumptions named in them):

| Theorem | States |
|---|---|
| `TypeCorrect` | `Spec => []TypeOK` |
| `CompletionIsFinal` | `Covered`: `Spec => []DoneMeansGone` |
| `CleanersComplete` | `Spec => []OrphansCleaned` |
| `DependentsGoFirst` | `Spec => DependentsFirst` |
| `ImplementsTeardown` | `Covered`: `Spec => RefinesTeardown` |
| `UsesManager` | `ReconcilerSpec => ManagerSpec`: every theorem about the manager holds of the reconciler |
| `ReconcilerTypeCorrect` | `ReconcilerSpec => []ReconcilerTypeOK` |
| `FinalizerOutlivesObjects` | `Orderly`, `CoveredAtHome`: `ReconcilerSpec => []NothingLeftBehind` |
| `ImplementsLifecycle` | `Orderly`, `CoveredAtHome`: `ReconcilerSpec => FinalizerEndsTeardown` |
| `RealNothingLeftBehind`, `RealLifecycle` | `Sensible`, `OneHome`, `Orderly`: the last two, of the real catalogue |
| `RealOrphansCleaned` | `Sensible`: `ReconcilerSpec => []OrphansCleaned`, of the real catalogue |
| `RegisteredInOrder` | `InOrder`: every object is registered after all it needs |
| `RecordIsTrue` | `ReconcilerSpec => InstalledIsWritten`, with or without `Orderly` |
| `GuardStopsTeardown` | `ReconcilerSpec => GuardStops` |
| `ReadyIsTrue` | `ReconcilerSpec => []ReadyMeansPresent` |
| `TokenTypes`, `TokenStaysAlive`, `OutageStaysBounded` | `TokenRefresh`: `Spec => []TokenTypeOK`, `[]TokenAlive`, `[]OutageBounded` |
| `TopologyIsSplit`, `BundleIsMounted` | `HelmValues`: `Spec => []SplitTopology`, `[]BundleMounted` |
| `InjectedVariablesWin`, `UsersValuesAreKept` | `HelmValues`: `Spec => []InjectedWins`, `[]UserValuesKept` |
| `BundleIsMentioned` | `OwnBundle`: `Spec => []BundleMentioned` |
| `SuccessIsCurrent`, `CurrentIsStable` | `HelmValues`: `Spec => SuccessMeansCurrent`, `CurrentStays` |
| `OneByOne` | removing and appending several variables at once is what the code's calls one by one give |
| `StartupTypes`, `OnlyOneActive` | `Startup`: `Spec => []StartupTypeOK`, `[]OneActive` |
| `ReadinessTypes`, `ReadyIsInstalled`, `OperatorFollowsCRDs` | `Readiness`: `Spec => []ReadinessTypeOK`, `ReadyMeansInstalled`, `OperatorAfterCRDs` |

Those about the manager and the reconciler rest on the assumptions named in
`ResourceManager` and `OtelOperatorReconciler` (`ShapeAssumption`,
`PlanAssumption`, `CreatorAssumption`, `CleanerAssumption`,
`ReconcilerAssumption`), and those about completion also on `Covered` or
`CoveredAtHome`: what one configuration manages and another does not is listed
by a cleaner. TLC evaluates all of them on the instances it checks.
`ObjectCatalog_proofs` proves them of the catalogue of `createObjectManager`, for
any set of namespaces and labels: `Real` is the reconciler with that catalogue,
so `RealNothingLeftBehind` and `RealLifecycle` have no hypothesis about objects
left. What they still assume is `Sensible` (the remaining constants have their
types, and every kind is listed by the guard), `Orderly`, and `OneHome`: no
version names another control-plane namespace. `OneHome` is what the code lacks:
once `namespaceOverride` changes, the cleaners cover too little and the run
`moved_namespace` shows what stays behind. `RealOrphansCleaned` needs neither of
the last two. Along a plan the ranks of the objects' kinds go up
(`Climbs`), which gives both that a configuration names an object once and that
all it needs comes before it (`RegisteredInOrder`).

The argument for `CompletionIsFinal` needs more than the property. `IInv` adds:
where a pass stands (`PassShape`); that whatever exists belongs to some
configuration (`KnownObjects`); that objects not reached yet have no result
(`PendingResults`); that a dependent that was read as absent in a delete pass
is still absent, or is a namespace that a release still to be dealt with may
restore (`CheckedDependents`); that an object reported as deleted is absent,
or is such a namespace (`DeletedResults`); that the cleaners passed so far
left no orphan unless one of them failed (`CleanedScopes`); and that, if
`Covered`, completion was final (`NothingAfterDone`). At the end of a
pass in which everything is deleted, the releases are deleted as well, so
nothing is left that could restore a namespace; the cleaners cover the objects
of other configurations; hence `done` implies that nothing exists, and since
Apply is not called again nothing comes back.

For the reconciler, `RInv` adds to the types where the handlers and the manager
stand relative to each other (`HandlerShape`): a pass runs exactly while a
handler waits for it, `Delete` is called only with a deletion timestamp, and a
handler about to apply started before any deletion. From it, every step of the
reconciler is a step of the manager or none, which is `UsesManager`; so every
theorem and invariant of the manager carries over.

`FinalizerOutlivesObjects` has two parts. `Kept`: the finalizer goes, and a
handler reports the end, only after `done`; a draft never drops a recorded
version; settings for `Delete` always exist. The first and the last need
`Orderly`. `Home`: what exists was written for the generated label, belongs to
one of its configurations (`OwnConfigs`), and a delete pass works either with
such a configuration or before anything was written; nothing exists after
`done`. Here the cleaners have to cover only what `OwnConfigs` differ in
(`CoveredAtHome`), which is true of the real catalogue while `namespaceOverride`
does not change (`CatalogCovered`); what a `Delete` with a missing label would
look for does not matter. `ImplementsLifecycle` uses the same invariants.
`NextMoves`, shared with `ImplementsTeardown`, says that a step of the manager
makes at most one object appear or go and applies none after the first delete
pass; `FinalizerMoves` says that only the save of a finished deletion touches
the finalizer, when `done` holds and, by `Home`, nothing exists.

`RecordIsTrue` says when a version becomes the recorded one, whatever anybody
edits: the pass of the very handler that saves it has written every object from
those settings, and cleaned up. `Attempted` says what an apply pass has got
through so far: every object it has come by has failed, was written from the
configuration of the pass, or is one whose existing content may be kept. At the
end of a pass without an error this and `OrphansCleaned` give `AsWritten`, and
`Recorded` carries it to the save: in between no pass runs, and neither losses
nor Flux change what an object was written from or bring an orphan back.

`GuardStopsTeardown` needs no hypothesis on the environment: by `GuardSound` the
lists made so far have found every listed kind that has had instances ever since
the guard began, and every kind is in some list (`ReconcilerAssumption`).
`ReadyIsTrue` rests on `Untouched` (without faults and before a teardown nothing
terminates, what a pass applied stays, and its cleaners leave its own objects
alone) and on `Reported`, which carries this over the end of the pass.

The invariants behind the other theorems are smaller.

* `TokenStaysAlive` and `OutageStaysBounded`: `Timing` says what the last pass
  without an error left behind and what the time since has used up. A stamped
  token's remaining life and `idle` add up to at least the lifetime (the pass
  wrote it) or the poll interval and the slack (the pass kept it); either
  exceeds the longest wait, by `PollInterval + Late < Lifetime` and
  `Late < Slack`. The outage and the remaining life never exceed the lifetime
  together, and the outage before a pass is at most as long as a token may be
  kept.
* `TopologyIsSplit` follows the values through the stages: each stage is shown
  to keep what an earlier one forced, for any input. `BundleIsMounted` adds what
  holds between the writes of a pass that succeeded and its cleaner.
* The theorems about lists (`HelmLists_proofs`) are by induction on their length.
  The library's induction rule takes an operator; `SetOfAllNat` states it for a
  *set* of numbers instead and follows from the well-foundedness of `<`, and
  `SetOfAllSeq` derives from it that a set that holds the empty list and is closed
  under `Append` holds every list. They give `Without` its recursion
  (`WithoutFilters`) and its laws.
* `InjectedVariablesWin` and `UsersValuesAreKept`: `PreparedWell` states both of
  every value the three steps can prepare, from any input; `AsPrepared` is the
  invariant that a handler holds a stage of what is to be prepared from the
  current settings, and that once they are applied both releases and the bundle
  are as those settings say. With it, `SuccessIsCurrent` and `CurrentIsStable`
  follow: a pass without an error leaves releases and bundle as the current
  settings say, and no pass, failed ones included, disturbs that.
* `BundleIsMentioned` needs `OwnBundle`: no user writes the very variable, name
  and value, that the provider adds for the bundle. With such a variable and
  without a bundle the property is false, and harmless.
* `OnlyOneActive` needs that a process that handles objects holds the lease
  and that its lease is younger than the deadline; a taker finds it older.
* `ReadyIsInstalled`: a Ready condition implies an installed release
  (`ReadyReleases`), and `Reported` carries what a pass has read to its end: as
  long as nobody deletes an object, a release that was seen ready stays
  installed, though perhaps not ready. `OperatorFollowsCRDs` needs the same of
  `DependsOn`.

Only model-checked: liveness (`TeardownCompletes`, `DeletionCompletes`,
`AccessRecovers`, `Converges`, `InitEnds`, `Serves`, `Settles`,
`RolloutGoesOn`), which is outside the prover's reach. Every invariant and action
property of the passing runs is a theorem.

## 5. Where the code and its documents disagree

* `withdrawn_version`: `Delete` returns success when the version is not offered
  and no installed version is recorded (controller 121-125); after a partial
  apply everything stays behind. README line 74 promises deletion, the
  controller test at line 192 an error.
* `moved_namespace`: after a change of `namespaceOverride` nothing removes the
  old control-plane namespace and ServiceAccount.
* `helm_null`: with `{"opentelemetry-operator": null}` the handler writes to a
  nil map and panics in every pass (`helm.go:79`).

Six more promises are stated as properties in the modules, under the words that
make them, and are not kept by the code. TLC refutes each when it takes the
place of the properties in the configuration named:

* `DeleteBuildsInstalled` (`ReconcilerOrderly.cfg`): the comment at controller
  89-90 says a failed upgrade does not make deletion assume the new
  configuration; `prepareInputs` takes the new one whenever it is offered (a
  test asks for that).
* `BlockedWhileResourcesExist` (`ReconcilerGuard.cfg`): "Deletion is blocked
  while any of these resources exist" holds at the time of the list calls; a
  resource created afterwards does not block.
* `PassGivesAccess` (`TokenRefresh.cfg`): a token that has not expired is kept
  although its account was deleted and created again, or the binding has moved
  to the account of another namespace (`serviceaccount.go:155`): the pass
  succeeds, and the operator has no access until the renewal. `OutageBounded`
  says how long that may be.
* `CollectorSettingsKept` (`HelmValues.cfg`): the user's `defaultCRConfig` is
  replaced before the function that merges the kubeconfig into it runs
  (`helm.go:343`), so the variables it would keep are gone.
* `InitRegisters` (`Startup.cfg`): errors of the installation and registration
  are logged and the job succeeds (`main.go:240-252`); `run` is started all the
  same. README line 100 says that `init` registers them first.
* `ReadyMeansCurrent` (`Readiness.cfg`): `Status` does not compare
  `observedGeneration` (`flux.go:215`), so the pass that changes a release
  reports `Ready` with the condition of the old one; `ReadyMeansInstalled` is
  what remains true, and `Settles` says that it is put right.

The instance-id label is not restored on `Delete`; an edited label is the third
way to leave objects behind and is excluded by `Orderly`.

## 6. Not modelled

* The order of the two *upgrades* when the chart changes: both releases refer to
  the same repository, and nothing in the code orders them (`OperatorAfterCRDs`
  is about the CRDs being installed at all).
* What helm leaves behind when the workload namespace goes before the release
  in it is uninstalled, or when `namespaceOverride` moves the target of the CRD
  release.
* Each image pull secret by itself: in the catalogue, and so in the theorems about
  it, those of one workload namespace are one object that comes and goes.
* Two objects of one name (an image pull secret called like the token Secret),
  and objects that existed before the instance (a namespace named by
  `namespaceOverride` would be adopted): in the models every object has its own
  name and starts absent.
* `DeletionPolicy` Orphan, which the manager supports and no object uses; the
  list of managed resources in the status, which nothing reads back; shortened
  names of copied secrets.
* Flags, TLS, metrics and webhook set-up, scopes of the cluster access
  requests, the kubeconfig file, logging, wording of messages, generated
  DeepCopy, CRD validation, e2e tests.
* The moment between the release of the lease and the end of a process whose
  handlers outlive the manager's grace period (`Stopped` does both in one step),
  and so what they could still write beside the next leader.
* Several instances at once: they share nothing but the CA bundle's and pull
  secrets' sources, which no handler writes.

What could come next: the cluster access requests of `main.go` and the
`AccessFor` calls of the handlers; `Readiness` under deletion; a catalogue in
which two objects share a name.
