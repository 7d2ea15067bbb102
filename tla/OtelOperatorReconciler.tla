------------------------ MODULE OtelOperatorReconciler ------------------------
(***************************************************************************)
(* internal/controller: the two handlers of the reconciler, CreateOrUpdate *)
(* and Delete, around the passes of ResourceManager.  A handler works on   *)
(* what it was handed when it started - the OtelOperator and the           *)
(* ProviderConfig - while users and administrators go on editing both, and *)
(* users create and delete OpenTelemetry resources between any two of its  *)
(* API calls.  What it writes into the status is kept only when the        *)
(* runtime saves it after the handler has returned; a restart loses it.    *)
(*                                                                         *)
(* The runtime (openmcp's service provider framework) is external: it adds *)
(* the finalizer before the first call, calls one handler at a time for an *)
(* object, calls again after a requeue or an error, and removes the        *)
(* finalizer when Delete returns neither an error nor a requeue.           *)
(***************************************************************************)
EXTENDS ResourceManager

CONSTANTS
  Versions,    \* names of opentelemetry-kube-stack versions
  Settings,    \* contents of a KubeStackVersion
  NoSettings,  \* "no such version", "no installed version"
  Broken,      \* settings createObjectManager fails on (malformed helm values)
  Bundles,     \* values of ProviderConfig.spec.caBundleRef
  Labels,      \* values of the instance-id label
  GeneratedID, \* the one GenerateID returns
  ConfigOf,    \* ConfigOf[s][b][l]: the configuration built from the three
  Kinds,       \* kinds of user-owned OpenTelemetry resources
  GuardLists,  \* otelListGVKs: the kind behind each list call
  Orderly,     \* see Recoverable
  MaxLosses    \* bound on failed calls of the handlers and lost statuses

ASSUME ReconcilerAssumption ==
  /\ NoSettings \notin Settings
  /\ Broken \subseteq Settings
  /\ GeneratedID \in Labels
  /\ ConfigOf \in [Settings -> [Bundles -> [Labels -> Configs]]]
  /\ GuardLists \in Seq(Kinds)
  /\ \A k \in Kinds : \E i \in 1..Len(GuardLists) : GuardLists[i] = k
  /\ Orderly \in BOOLEAN
  /\ MaxLosses \in Nat

VARIABLES
  \* the OtelOperator on the onboarding cluster
  deletion,   \* it has a deletionTimestamp
  finalizer,  \* it still exists: the runtime's finalizer is on it
  version,    \* spec.version
  label,      \* the instance-id label
  installed,  \* status.installedVersion
  edited,     \* it was changed since the handler got its copy
  \* the ProviderConfig and the user's resources
  offered,    \* the settings of every version that is offered
  bundle,     \* spec.caBundleRef
  users,      \* kinds with instances on the control plane
  \* the handler under way
  handler,    \* "idle", "label", "build", "guard", "pass", "save"
  seen,       \* settings, bundle and label the handler works with
  lists,      \* list calls of the guard made so far
  blocking,   \* kinds the guard has found
  steady,     \* history: kinds with instances since the guard began
  draft,      \* the status to be saved: installed version and phase
  outcome,    \* "again" or "finish"
  losses      \* calls and statuses lost so far

objectVars   == <<deletion, finalizer, version, label, installed, edited>>
providerVars == <<offered, bundle>>
handlerVars  == <<handler, seen, lists, blocking, draft, outcome>>
lvars == <<vars, objectVars, providerVars, users, steady, handlerVars, losses>>

SettingsOrNone == Settings \cup {NoSettings}

Views  == [settings : SettingsOrNone, bundle : Bundles, label : Labels]
Drafts == [installed : SettingsOrNone,
           phase : {"Progressing", "Ready", "Terminating"}]

\* Between two handlers.
NoView  == CHOOSE view \in Views : TRUE
NoDraft == [installed |-> NoSettings, phase |-> "Progressing"]

ReconcilerTypeOK ==
  /\ TypeOK
  /\ deletion \in BOOLEAN /\ finalizer \in BOOLEAN /\ edited \in BOOLEAN
  /\ version \in Versions
  /\ label \in Labels
  /\ installed \in SettingsOrNone
  /\ offered \in [Versions -> SettingsOrNone]
  /\ bundle \in Bundles
  /\ users \subseteq Kinds
  /\ handler \in {"idle", "label", "build", "guard", "pass", "save"}
  /\ seen \in Views
  /\ lists \in 0..Len(GuardLists)
  /\ blocking \subseteq Kinds
  /\ steady \subseteq Kinds
  /\ draft \in Drafts
  /\ outcome \in {"again", "finish"}
  /\ losses \in 0..MaxLosses

\* The settings Delete can build a manager from exist: the version asked for
\* is offered, or one is recorded as installed.  An orderly environment keeps
\* it so, and leaves the instance-id label alone.
Recoverable(v, o) == Orderly => o[v] # NoSettings \/ installed # NoSettings

ReconcilerInit ==
  /\ Init
  /\ deletion = FALSE /\ finalizer = TRUE /\ edited = FALSE
  /\ version \in Versions
  /\ label \in Labels
  /\ installed = NoSettings
  /\ offered \in [Versions -> SettingsOrNone]
  /\ Recoverable(version, offered)
  /\ bundle \in Bundles
  /\ users = {}
  /\ handler = "idle"
  /\ seen = NoView
  /\ lists = 0
  /\ blocking = {}
  /\ steady = {}
  /\ draft = NoDraft
  /\ outcome = "again"
  /\ losses = 0

Loss == losses < MaxLosses /\ losses' = losses + 1

-----------------------------------------------------------------------------
(* Parts shared by both handlers.                                          *)

\* The handler starts on its own copies of the object and the ProviderConfig;
\* settings is what prepareInputs selects from them.
Begin(stage0, settings) ==
  /\ handler = "idle"
  /\ finalizer
  /\ handler' = stage0
  /\ seen' = [settings |-> settings, bundle |-> bundle, label |-> label]
  /\ draft' = [installed |-> installed, phase |-> "Progressing"]
  /\ outcome' = "again"
  /\ edited' = FALSE
  /\ lists' = 0
  /\ blocking' = {}
  /\ UNCHANGED <<vars, deletion, finalizer, version, label, installed,
                 providerVars, losses, users>>

\* The handler returns; its status is still to be saved.
Return(phase, installedVersion, next) ==
  /\ handler' = "save"
  /\ draft' = [installed |-> installedVersion, phase |-> phase]
  /\ outcome' = next
  /\ UNCHANGED <<seen, lists, blocking>>

\* createObjectManager.
Buildable == seen.settings # NoSettings /\ seen.settings \notin Broken

Built == ConfigOf[seen.settings][seen.bundle][seen.label]

-----------------------------------------------------------------------------
(* CreateOrUpdate.                                                         *)

\* Mutation: deletionTimestamp is not looked at.
BeginCreateOrUpdateAlways ==
  /\ Begin(IF label = GeneratedID THEN "build" ELSE "label", offered[version])
  /\ UNCHANGED steady

BeginCreateOrUpdate ==
  /\ ~deletion
  /\ Begin(IF label = GeneratedID THEN "build" ELSE "label", offered[version])
  /\ UNCHANGED steady

\* Mutation: the id is derived from the spec.
SetInstanceIDFromSpec ==
  /\ handler = "label"
  /\ ~edited
  /\ label' = version
  /\ seen' = [seen EXCEPT !.label = version]
  /\ handler' = "build"
  /\ UNCHANGED <<vars, deletion, finalizer, version, installed, edited,
                 providerVars, losses, users, steady, lists, blocking, draft,
                 outcome>>

\* ensureInstanceID: the update carries the resourceVersion of the copy.
SetInstanceID ==
  /\ handler = "label"
  /\ ~edited
  /\ label' = GeneratedID
  /\ seen' = [seen EXCEPT !.label = GeneratedID]
  /\ handler' = "build"
  /\ UNCHANGED <<vars, deletion, finalizer, version, installed, edited,
                 providerVars, losses, users, steady, lists, blocking, draft,
                 outcome>>

\* Mutation: the error of the update is only logged.
SetInstanceIDFailsGoesOn ==
  /\ handler = "label"
  /\ IF edited THEN UNCHANGED losses ELSE Loss
  /\ seen' = [seen EXCEPT !.label = GeneratedID]
  /\ handler' = "build"
  /\ UNCHANGED <<vars, objectVars, providerVars, users, steady, lists, blocking,
                 draft, outcome>>

SetInstanceIDFails ==
  /\ handler = "label"
  /\ IF edited THEN UNCHANGED losses ELSE Loss
  /\ Return("Progressing", draft.installed, "again")
  /\ UNCHANGED <<vars, objectVars, providerVars, users, steady>>

\* The version is not offered, or its settings cannot be used.
ApplyNotBuilt ==
  /\ handler = "build"
  /\ ~Buildable
  /\ Return("Progressing", draft.installed, "again")
  /\ UNCHANGED <<vars, objectVars, providerVars, losses, users, steady>>

BeginApplyPass ==
  /\ handler = "build"
  /\ Buildable
  /\ StartPass("apply", Built)
  /\ handler' = "pass"
  /\ UNCHANGED <<deleting, objectVars, providerVars, losses, users, steady, seen, lists,
                 blocking, draft, outcome>>

\* Mutation: the version is recorded whether the pass failed or not.
EndApplyPassRecords ==
  /\ handler = "pass"
  /\ mode = "apply"
  /\ EndPass
  /\ Return("Progressing", seen.settings, "again")
  /\ UNCHANGED <<objectVars, providerVars, losses, users, steady>>

\* InstalledVersion is recorded only after a pass without errors; Ready needs
\* every object to be ready, which for the Flux objects is Flux's to say.
EndApplyPass ==
  /\ handler = "pass"
  /\ mode = "apply"
  /\ EndPass
  /\ IF PassFailed
     THEN Return("Progressing", draft.installed, "again")
     ELSE \/ Return("Progressing", seen.settings, "again")
          \/ /\ \A o \in Desired(cfg) : result[o] = "applied"
             /\ Return("Ready", seen.settings, "again")
  /\ UNCHANGED <<objectVars, providerVars, losses, users, steady>>

-----------------------------------------------------------------------------
(* Delete.                                                                 *)

\* Mutation: no fallback to the recorded version.
BeginDeleteLiveOnly ==
  /\ deletion
  /\ Begin("guard", offered[version])
  /\ steady' = users

\* prepareInputs(forDelete): the version asked for while it is offered, then
\* the one recorded as installed.
ForDelete ==
  IF offered[version] = NoSettings THEN installed ELSE offered[version]

BeginDelete ==
  /\ deletion
  /\ Begin("guard", ForDelete)
  /\ steady' = users

\* Mutation: only the last list counts.
ListKindOverwrites ==
  /\ handler = "guard"
  /\ lists < Len(GuardLists)
  /\ lists' = lists + 1
  /\ blocking' = {GuardLists[lists + 1]} \cap users
  /\ UNCHANGED <<vars, objectVars, providerVars, losses, users, steady,
                 handler, seen, draft, outcome>>

\* BlockingKinds lists one kind after the other; a kind whose CRD is missing
\* has no instances.
ListKind ==
  /\ handler = "guard"
  /\ lists < Len(GuardLists)
  /\ lists' = lists + 1
  /\ blocking' = blocking \cup ({GuardLists[lists + 1]} \cap users)
  /\ UNCHANGED <<vars, objectVars, providerVars, losses, users, steady,
                 handler, seen, draft, outcome>>

ListKindFails ==
  /\ handler = "guard"
  /\ lists < Len(GuardLists)
  /\ Loss
  /\ Return("Progressing", draft.installed, "again")
  /\ UNCHANGED <<vars, objectVars, providerVars, users, steady>>

GuardDone == handler = "guard" /\ lists = Len(GuardLists)

UserResourcesExist ==
  /\ GuardDone
  /\ blocking # {}
  /\ Return("Terminating", draft.installed, "again")
  /\ UNCHANGED <<vars, objectVars, providerVars, losses, users, steady>>

\* IgnoreInvalidUserInput turns "version not available" into success: the
\* runtime takes the deletion for finished.  Other errors are retried.
DeleteNotBuilt ==
  /\ GuardDone
  /\ blocking = {}
  /\ ~Buildable
  /\ Return("Progressing", draft.installed,
            IF seen.settings = NoSettings THEN "finish" ELSE "again")
  /\ UNCHANGED <<vars, objectVars, providerVars, losses, users, steady>>

BeginDeletePass ==
  /\ GuardDone
  /\ blocking = {}
  /\ Buildable
  /\ StartDelete(Built)
  /\ handler' = "pass"
  /\ UNCHANGED <<objectVars, providerVars, losses, users, steady, seen, lists,
                 blocking, draft, outcome>>

\* Mutation: a pass without errors is taken for the end, whatever still waits
\* for a dependent or a finalizer.
EndDeletePassEarly ==
  /\ handler = "pass"
  /\ mode = "delete"
  /\ EndPass
  /\ IF PassFailed
     THEN Return("Progressing", draft.installed, "again")
     ELSE Return("Terminating", draft.installed, "finish")
  /\ UNCHANGED <<objectVars, providerVars, losses, users, steady>>

EndDeletePass ==
  /\ handler = "pass"
  /\ mode = "delete"
  /\ EndPass
  /\ IF PassFailed
     THEN Return("Progressing", draft.installed, "again")
     ELSE Return("Terminating", draft.installed,
                 IF AllDeleted THEN "finish" ELSE "again")
  /\ UNCHANGED <<objectVars, providerVars, losses, users, steady>>

-----------------------------------------------------------------------------
(* The runtime.                                                            *)

\* The handler's locals and its copy of the status are gone.
HandlerOver ==
  /\ handler' = "idle"
  /\ seen' = NoView
  /\ lists' = 0
  /\ blocking' = {}
  /\ steady' = {}
  /\ draft' = NoDraft
  /\ outcome' = "again"

\* The status is saved and, when Delete is finished, the finalizer removed.
SaveStatus ==
  /\ handler = "save"
  /\ installed' = draft.installed
  /\ finalizer' = (outcome # "finish")
  /\ HandlerOver
  /\ UNCHANGED <<vars, deletion, version, label, edited, providerVars, losses,
                 users>>

\* The status cannot be saved, or the provider restarts before it is.
StatusLost ==
  /\ handler \notin {"idle", "pass"}
  /\ Loss
  /\ HandlerOver
  /\ UNCHANGED <<vars, objectVars, providerVars, users>>

CrashInPass ==
  /\ handler = "pass"
  /\ Crash
  /\ HandlerOver
  /\ UNCHANGED <<objectVars, providerVars, losses, users>>

-----------------------------------------------------------------------------
(* Users and administrators.                                               *)

\* A change of the OtelOperator by its user.
Edit ==
  /\ finalizer
  /\ edited' = TRUE
  /\ UNCHANGED <<vars, finalizer, installed, providerVars, losses, users,
                 steady, handlerVars>>

RequestDeletion ==
  /\ ~deletion
  /\ deletion' = TRUE
  /\ Edit
  /\ UNCHANGED <<version, label>>

ChangeVersion(v) ==
  /\ v # version
  /\ Recoverable(v, offered)
  /\ version' = v
  /\ Edit
  /\ UNCHANGED <<deletion, label>>

EditLabel(l) ==
  /\ l # label
  /\ ~Orderly
  /\ label' = l
  /\ Edit
  /\ UNCHANGED <<deletion, version>>

\* An administrator offers, changes or withdraws a version.
ChangeOffer(v, s) ==
  /\ s # offered[v]
  /\ offered' = [offered EXCEPT ![v] = s]
  /\ Recoverable(version, offered')
  /\ UNCHANGED <<vars, objectVars, losses, bundle, users, steady, handlerVars>>

ChangeBundle(b) ==
  /\ b # bundle
  /\ bundle' = b
  /\ UNCHANGED <<vars, objectVars, losses, offered, users, steady, handlerVars>>

UserCreates(k) ==
  /\ k \notin users
  /\ users' = users \cup {k}
  /\ UNCHANGED <<vars, objectVars, providerVars, losses, steady, handlerVars>>

UserDeletes(k) ==
  /\ k \in users
  /\ users' = users \ {k}
  /\ steady' = steady \ {k}
  /\ UNCHANGED <<vars, objectVars, providerVars, losses, handlerVars>>

-----------------------------------------------------------------------------

CreateOrUpdateStep ==
  \/ BeginCreateOrUpdate
  \/ SetInstanceID
  \/ SetInstanceIDFails
  \/ ApplyNotBuilt
  \/ BeginApplyPass
  \/ EndApplyPass

DeleteStep ==
  \/ BeginDelete
  \/ ListKind
  \/ ListKindFails
  \/ UserResourcesExist
  \/ DeleteNotBuilt
  \/ BeginDeletePass
  \/ EndDeletePass

\* The steps of the manager and of its surroundings leave the rest alone.
restVars == <<objectVars, providerVars, losses, users, steady, handlerVars>>

ManagerStep == (PassStep \/ EnvironmentStep) /\ UNCHANGED restVars

PeopleStep ==
  \/ RequestDeletion
  \/ \E v \in Versions : ChangeVersion(v)
  \/ \E l \in Labels : EditLabel(l)
  \/ \E v \in Versions, s \in SettingsOrNone : ChangeOffer(v, s)
  \/ \E b \in Bundles : ChangeBundle(b)
  \/ \E k \in Kinds : UserCreates(k) \/ UserDeletes(k)

ReconcilerNext ==
  \/ CreateOrUpdateStep
  \/ DeleteStep
  \/ SaveStatus
  \/ StatusLost
  \/ CrashInPass
  \/ ManagerStep
  \/ PeopleStep

ReconcilerSpec == ReconcilerInit /\ [][ReconcilerNext]_lvars

\* The work queue keeps handing the key to a worker, a handler and a pass run
\* to their end, and the controllers of the clusters finish what they started.
\* Nothing is assumed of users and administrators.
ReconcilerFairness ==
  /\ WF_lvars(CreateOrUpdateStep)
  /\ WF_lvars(DeleteStep)
  /\ WF_lvars(SaveStatus)
  /\ WF_lvars(PassStep /\ UNCHANGED restVars)
  /\ \A o \in Objects :
       WF_lvars((SweepNamespace(o) \/ Finalize(o)) /\ UNCHANGED restVars)

FairReconcilerSpec == ReconcilerSpec /\ ReconcilerFairness

-----------------------------------------------------------------------------
(* Properties.                                                             *)

\* The configurations of an instance that has its generated label.
OwnConfigs == {ConfigOf[s][b][GeneratedID] : s \in Settings \ Broken, b \in Bundles}

\* Whatever one of them manages and another does not is listed by some cleaner.
CoveredAtHome ==
  \A c, d \in OwnConfigs : Desired(c) \ Desired(d) \subseteq Cleanable(d)

\* Once the finalizer is gone, none of the objects that any pass created on
\* any cluster exists, and none comes back ("After the block is cleared, the
\* service provider deletes its managed Flux/authentication resources").
NothingLeftBehind == ~finalizer => \A o \in Objects : world[o] = "absent"

\* A kind that has had instances ever since the guard started stops Delete
\* before the first object is touched, however the lists interleave with
\* what users create and delete meanwhile.
GuardStops == [][BeginDeletePass => steady = {}]_lvars

\* "Deletion is blocked while any of these resources exist."
BlockedWhileResourcesExist == [][BeginDeletePass => users = {}]_lvars

\* Ready is reported only when the objects of the configuration the handler
\* worked with all exist, none of them terminating and none removed by the
\* pass's own cleaners, as long as no call failed and nobody interfered.
ReadyMeansPresent ==
  handler = "save" /\ draft.phase = "Ready" /\ faults = 0 =>
    \A o \in Desired(cfg) : world[o] = "present"

\* The clusters are as a pass for c that failed nowhere leaves them: its objects
\* were written from c last, and its cleaners have nothing left to clean.
AsWritten(c) ==
  /\ \A o \in Desired(c) \ Keeps : content[o] = c
  /\ \A o \in Cleanable(c) \ Desired(c) : world[o] = "absent"

\* A version becomes the recorded one only when a pass of the handler that
\* saves it has written every object of it, and cleaned up, without an error,
\* whatever was edited or lost meanwhile.  No save takes the record away, so a
\* later withdrawal of the version leaves Delete something to fall back to.
InstalledIsWritten ==
  [][installed' # installed =>
       /\ installed' = seen.settings
       /\ Buildable
       /\ AsWritten(Built)]_lvars

\* "a failed upgrade doesn't make deletion assume resources exist under the
\* new version's config": when a version is recorded, Delete is built from it.
DeleteBuildsInstalled ==
  [][BeginDeletePass /\ draft.installed # NoSettings
       => seen.settings = draft.installed]_lvars

\* The handlers use the manager as ResourceManager describes it: one pass at
\* a time, no Apply after a Delete, in every interleaving with users,
\* administrators and restarts.
ManagerSpec == Spec

\* What an instance promises as a whole: objects are applied only before its
\* first delete pass, whatever its user and the administrators edit, and its
\* finalizer is removed only when a teardown has left nothing behind.
Lifecycle == INSTANCE Teardown WITH
  exists  <- {o \in Objects : world[o] # "absent"},
  Creates <- [h \in Objects |-> UNION {Creates[c][h] : c \in Configs}],
  closing <- deleting,
  closed  <- ~finalizer

FinalizerEndsTeardown == Lifecycle!TSpec

\* When the user's resources are gone for good, and the settings Delete would
\* work with are usable from some time on, a deletion is carried through.
DeletionCompletes ==
  <>[](deletion /\ users = {} /\ ForDelete \in Settings \ Broken)
    => <>~finalizer
=============================================================================
