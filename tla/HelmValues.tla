----------------------------- MODULE HelmValues -----------------------------
(***************************************************************************)
(* From the values of a ProviderConfig to the values of the two releases   *)
(* (pkg/oteloperator/helm/helm.go), the patches that go with them          *)
(* (flux.go) and the copy of the CA bundle they refer to (configmap.go),   *)
(* over passes whose settings change and whose calls fail.                 *)
(*                                                                         *)
(* A JSON object is a function from its keys, a list a sequence, and an    *)
(* environment variable, a mount or a volume a record with its name.       *)
(***************************************************************************)
EXTENDS Naturals, Sequences, FiniteSets

CONSTANTS
    Inputs,      \* what spec.versions[].helmValues may hold
    CARefs,      \* what spec.caBundleRef may hold: None, Unnamed or a reference
    None,        \* no value, no reference
    Unnamed,     \* a reference whose name or key is empty
    Malformed,   \* a value of another type than the code reads at its place
    MaxFaults    \* bound: passes in which a call fails

ASSUME FaultsAssumption == MaxFaults \in Nat

VARIABLES
    values, caRef,    \* the settings of the ProviderConfig
    settled,          \* the administrators edit them no more
    stage,            \* of the pass: "idle", then "workload", "auth", "built",
                      \* then "applied" or "failed"
    built,            \* the workload values of the pass under way, so far
    workloadRelease,  \* spec of the workload HelmRelease: values, patches
    crdRelease,       \* values of the CRD HelmRelease
    bundle,           \* is the copy of the CA bundle on the workload cluster?
    outcome,          \* how the last pass ended
    faults

settings == <<values, caRef, settled>>
cluster == <<workloadRelease, crdRelease, bundle>>
vars == <<settings, stage, built, cluster, outcome, faults>>

Operator == "opentelemetry-operator"

-----------------------------------------------------------------------------
(* JSON *)

Empty == <<>>

(* The JSON null; no object the code builds has this key only.             *)
Null == [k \in {"null"} |-> TRUE]

Merge(new, old) ==
    [k \in DOMAIN new \cup DOMAIN old |-> IF k \in DOMAIN new THEN new[k] ELSE old[k]]

Set(object, key, value) ==
    [k \in DOMAIN object \cup {key} |-> IF k = key THEN value ELSE object[k]]

(* unmarshalIfPresent, with the fallback of its callers: an absent value   *)
(* and null read as an empty object or list.                               *)
Open(object, key) ==
    IF key \notin DOMAIN object \/ object[key] = Null THEN Empty ELSE object[key]

IsMalformed(object, key) == key \in DOMAIN object /\ object[key] = Malformed

Root(input) == IF input \in {None, Null} THEN Empty ELSE input

(* The loop of the three removeConflicting functions: kept[i] is what is   *)
(* left of the first i entries.                                            *)
Without(list, names) ==
    LET kept[i \in 0..Len(list)] ==
            IF i = 0 THEN <<>>
            ELSE IF list[i].name \in names THEN kept[i - 1]
            ELSE Append(kept[i - 1], list[i])
    IN  kept[Len(list)]

NamesOf(new) == {new[i].name : i \in DOMAIN new}

(* Mutant: entries of the user with the name of a new one stay.            *)
JustAppend(list, new) == list \o new

(* The code makes one call for each new entry; their names differ, so the  *)
(* order of removing and appending does not matter.                        *)
RemoveConflictingAndAppend(list, new) == Without(list, NamesOf(new)) \o new

-----------------------------------------------------------------------------
(* The values of the two releases *)

DisabledComponents == {"cleanupJob", "clusterRole", "defaultCRConfig",
    "instrumentation", "kubeStateMetrics", "nodeExporter", "collectors"}

SetKubeStackDisabledDefaults(root) ==
    Merge([c \in DisabledComponents |->
              IF c = "collectors" THEN [daemon |-> [enabled |-> FALSE]]
                                  ELSE [enabled |-> FALSE]], root)

ForcedOperator(manager) ==
    [enabled |-> TRUE,
     crds |-> [create |-> FALSE],
     automountServiceAccountToken |-> FALSE,
     manager |-> Merge([featureGatesMap |-> [networkpolicy |-> FALSE]], manager)]

(* The CRDs and the operator are the two values the releases differ in.    *)
Topology(root, installOtel, operatorValues) ==
    Set(Set(SetKubeStackDisabledDefaults(root), "crds",
            [installOtel |-> installOtel, installPrometheus |-> FALSE]),
        Operator, operatorValues)

(* Mutants: what the user set at the operator wins, but for the manager;   *)
(* it is not looked at.                                                    *)
WorkloadHelmValuesOfUser(root) ==
    LET op == Open(root, Operator)
        forced == ForcedOperator(Open(op, "manager"))
    IN  Topology(root, FALSE, Set(Merge(op, forced), "manager", forced.manager))
WorkloadHelmValuesAnew(root) == Topology(root, FALSE, ForcedOperator(Empty))

WorkloadHelmValues(root) ==
    LET op == Open(root, Operator)
    IN  Topology(root, FALSE, Merge(ForcedOperator(Open(op, "manager")), op))

CRDHelmValues == Topology(Empty, TRUE, [enabled |-> FALSE])

(* extraEnvs of the operator's manager, with the given variables added.    *)
InjectIntoManager(root, new) ==
    LET op == Open(root, Operator)
        manager == Open(op, "manager")
        envs == RemoveConflictingAndAppend(Open(manager, "extraEnvs"), new)
    IN  Set(root, Operator, Set(op, "manager", Set(manager, "extraEnvs", envs)))

HostEnv == [name |-> "KUBERNETES_SERVICE_HOST", value |-> "host of the CP"]
PortEnv == [name |-> "KUBERNETES_SERVICE_PORT", value |-> "port of the CP"]
KubeconfigEnv == [name |-> "KUBECONFIG", value |-> "access-token"]
CollectorEnv == [name |-> "KUBECONFIG", value |-> "cp-kubeconfig"]
CAEnv == [name |-> "SSL_CERT_DIR", value |-> "custom-ca-bundle"]
KubeconfigVolume == [name |-> "cp-kubeconfig"]

AuthEnvs == <<HostEnv, PortEnv, KubeconfigEnv>>

(* Mounts and volumes are known by the volume's name alone: the mount path *)
(* of the one added belongs to no other.                                   *)
InjectKubeconfigIntoDefaultCRConfig(root) ==
    LET config == Open(root, "defaultCRConfig")
        With(key, new) == RemoveConflictingAndAppend(Open(config, key), <<new>>)
        added == [env |-> With("env", CollectorEnv),
                  volumeMounts |-> With("volumeMounts", KubeconfigVolume),
                  volumes |-> With("volumes", KubeconfigVolume)]
    IN  Set(root, "defaultCRConfig", Merge(added, config))

AddAuthToHelmValues(root) ==
    InjectKubeconfigIntoDefaultCRConfig(InjectIntoManager(root, AuthEnvs))

AddCAHelmValues(root) == InjectIntoManager(root, <<CAEnv>>)

(* ExtractHelmValues reads two values that decide about other objects.     *)
Extractable(input) ==
    /\ input # Malformed
    /\ ~IsMalformed(Root(input), "namespaceOverride")
    /\ ~IsMalformed(Root(input), "imagePullSecrets")

(* A null turns the map for the operator's values into a nil map, and the  *)
(* next statement writes to it.                                            *)
WritesToNilMap(input) ==
    Operator \in DOMAIN Root(input) /\ Root(input)[Operator] = Null

Buildable(input, ref) ==
    LET op == Open(Root(input), Operator)
        manager == Open(op, "manager")
    IN  /\ Extractable(input)
        /\ ~WritesToNilMap(input)
        /\ ~IsMalformed(Root(input), Operator)
        /\ ~IsMalformed(op, "manager")
        /\ ~IsMalformed(manager, "extraEnvs")
        /\ ref # Unnamed

(* What json.Unmarshal does not take for a list of variables is Malformed. *)
EnvVar == [name : STRING, value : STRING]

UserEnvs(input) == Open(Open(Open(Root(input), Operator), "manager"), "extraEnvs")

ASSUME ListsAssumption ==
    \A input \in Inputs, ref \in CARefs :
        Buildable(input, ref) => UserEnvs(input) \in Seq(EnvVar)

-----------------------------------------------------------------------------
(* Passes *)

NoRelease == [values |-> Empty, patches |-> {}]

Init ==
    /\ values \in Inputs /\ caRef \in CARefs /\ settled = FALSE
    /\ stage = "idle" /\ built = Empty
    /\ workloadRelease = NoRelease /\ crdRelease = Empty /\ bundle = FALSE
    /\ outcome = "none" /\ faults = 0

(* The handler reads the settings once, so an edit during a pass acts like *)
(* one after it.                                                           *)
Edit ==
    /\ ~settled /\ stage = "idle"
    /\ values' \in Inputs /\ caRef' \in CARefs /\ settled' \in BOOLEAN
    /\ UNCHANGED <<stage, built, cluster, outcome, faults>>

(* createObjectManager: the values are made in three steps, before any     *)
(* call to a cluster.                                                      *)
Build ==
    /\ stage = "idle" /\ Buildable(values, caRef)
    /\ stage' = "workload"
    /\ built' = WorkloadHelmValues(Root(values))
    /\ UNCHANGED <<settings, cluster, outcome, faults>>

AddAuth ==
    /\ stage = "workload"
    /\ stage' = "auth"
    /\ built' = AddAuthToHelmValues(built)
    /\ UNCHANGED <<settings, cluster, outcome, faults>>

AddCA ==
    /\ stage = "auth"
    /\ stage' = "built"
    /\ built' = IF caRef = None THEN built ELSE AddCAHelmValues(built)
    /\ UNCHANGED <<settings, cluster, outcome, faults>>

Panics(input) == Extractable(input) /\ WritesToNilMap(input)

Refuse ==
    /\ stage = "idle" /\ ~Buildable(values, caRef) /\ ~Panics(values)
    /\ outcome' = "refused"
    /\ UNCHANGED <<settings, stage, built, cluster, faults>>

(* The panic ends the handler; the runtime recovers and tries again.       *)
Panic ==
    /\ stage = "idle" /\ Panics(values)
    /\ outcome' = "panicked"
    /\ UNCHANGED <<settings, stage, built, cluster, faults>>

(* The patches of the post renderers: the access token always, the bundle  *)
(* with a reference.                                                       *)
Patches(ref) ==
    {"access-token"} \cup (IF ref = None THEN {} ELSE {"custom-ca-bundle"})

(* Mutant: the spec is merged into the one there, which keeps its patches. *)
MergeSpec(values_, ref) ==
    [values |-> values_,
     patches |-> Patches(ref) \cup workloadRelease.patches]

WorkloadSpec(values_, ref) == [values |-> values_, patches |-> Patches(ref)]

(* One object failing does not stop the others; a release is written as a  *)
(* whole.  Copying the bundle fails as well while its source is missing.   *)
Apply(failing) ==
    /\ stage = "built"
    /\ bundle' = (bundle \/ (caRef # None /\ "bundle" \notin failing))
    /\ crdRelease' = IF "crds" \in failing THEN crdRelease ELSE CRDHelmValues
    /\ workloadRelease' = IF "workload" \in failing THEN workloadRelease
                          ELSE WorkloadSpec(built, caRef)
    /\ built' = Empty
    /\ UNCHANGED <<settings, outcome>>

ApplyAll == Apply({}) /\ stage' = "applied" /\ UNCHANGED faults

ApplySome ==
    /\ faults < MaxFaults /\ faults' = faults + 1
    /\ \E failing \in (SUBSET {"bundle", "crds", "workload"}) \ {{}} : Apply(failing)
    /\ stage' = "failed"

(* Mutant: the cleaner is left out when there is nothing to keep.          *)
KeepBundle == bundle' = bundle

(* Mutant: the copy goes as if every pass had made a new one.               *)
CleanAnyBundle == bundle' = FALSE

CleanBundle == bundle' = (bundle /\ caRef # None)

(* The cleaner runs whatever the objects' results are.                     *)
Clean ==
    /\ stage \in {"applied", "failed"}
    /\ CleanBundle
    /\ outcome' = IF stage = "applied" THEN "ok" ELSE "errors"
    /\ stage' = "idle"
    /\ UNCHANGED <<settings, built, workloadRelease, crdRelease, faults>>

CleanFails ==
    /\ stage \in {"applied", "failed"}
    /\ faults < MaxFaults /\ faults' = faults + 1
    /\ outcome' = "errors" /\ stage' = "idle"
    /\ UNCHANGED <<settings, built, cluster>>

Next == Edit \/ Build \/ AddAuth \/ AddCA \/ Refuse \/ Panic \/ ApplyAll
        \/ ApplySome \/ Clean \/ CleanFails

Spec == Init /\ [][Next]_vars

(* A key that was handled is handled again after the poll interval, or     *)
(* after the backoff of the queue, and a handler that runs goes on.        *)
FairSpec == Spec /\ WF_vars(Build \/ AddAuth \/ AddCA) /\ WF_vars(ApplyAll) /\ WF_vars(Clean)

-----------------------------------------------------------------------------
(* Properties *)

EnvsOf(operatorValues) == operatorValues["manager"]["extraEnvs"]

(* Exactly one of the two releases installs the CRDs and the other runs    *)
(* the operator, without its own token and the network policies; nothing   *)
(* in the user's values and no later stage changes that.                   *)
Forced(v) ==
    LET op == v[Operator]
    IN  /\ v["crds"] = [installOtel |-> FALSE, installPrometheus |-> FALSE]
        /\ op["enabled"] = TRUE /\ op["crds"] = [create |-> FALSE]
        /\ op["automountServiceAccountToken"] = FALSE
        /\ op["manager"]["featureGatesMap"] = [networkpolicy |-> FALSE]
        /\ \A c \in DisabledComponents \ {"collectors", "defaultCRConfig"} :
                v[c] = [enabled |-> FALSE]
        /\ v["collectors"] = [daemon |-> [enabled |-> FALSE]]
        /\ v["defaultCRConfig"]["enabled"] = FALSE

SplitTopology ==
    /\ workloadRelease # NoRelease => Forced(workloadRelease.values)
    /\ crdRelease # Empty =>
        /\ crdRelease["crds"]["installOtel"] = TRUE
        /\ crdRelease[Operator] = [enabled |-> FALSE]

(* Each variable the provider injects is there once, with its value, even  *)
(* if the user's list has it, twice or in another place.                   *)
HasOnce(envs, new) ==
    {i \in DOMAIN envs : envs[i].name = new.name} # {} /\
    \A i \in DOMAIN envs : envs[i].name = new.name =>
        envs[i] = new /\ \A j \in DOMAIN envs : envs[j].name = new.name => i = j

Injected(ref) == {HostEnv, PortEnv, KubeconfigEnv} \cup
                 (IF ref = None THEN {} ELSE {CAEnv})

InjectedWins ==
    stage = "built" => \A new \in Injected(caRef) : HasOnce(EnvsOf(built[Operator]), new)

(* What the provider does not set itself reaches the release as the user   *)
(* wrote it, the other variables of the manager in front and in their      *)
(* order: the n-th of them is the n-th of the release.                     *)
KeepsAll(old, new, keys) == \A k \in keys : k \in DOMAIN new /\ new[k] = old[k]

Carries(root, v) ==
    LET op == Open(root, Operator)
        manager == Open(op, "manager")
    IN  /\ KeepsAll(root, v, DOMAIN root \ (DisabledComponents \cup {Operator, "crds"}))
        /\ KeepsAll(op, v[Operator], DOMAIN op \ DOMAIN ForcedOperator(Empty))
        /\ KeepsAll(manager, v[Operator]["manager"],
                    DOMAIN manager \ {"featureGatesMap", "extraEnvs"})

KeepsOthers(envs, names, new) ==
    LET others == {i \in DOMAIN envs : envs[i].name \notin names}
    IN  /\ Len(new) = Cardinality(others) + Cardinality(names)
        /\ \A i \in others : new[Cardinality({j \in others : j <= i})] = envs[i]

UserValuesKept ==
    stage = "built" =>
        /\ Carries(Root(values), built)
        /\ KeepsOthers(UserEnvs(values), {new.name : new \in Injected(caRef)},
                       EnvsOf(built[Operator]))

(* The variables of the release mention the bundle exactly if a patch      *)
(* mounts it: helm.go and flux.go decide about it separately.              *)
MentionsBundle(v) == \E i \in DOMAIN EnvsOf(v[Operator]) : EnvsOf(v[Operator])[i] = CAEnv

BundleMentioned ==
    workloadRelease # NoRelease =>
        (MentionsBundle(workloadRelease.values)
            <=> "custom-ca-bundle" \in workloadRelease.patches)

(* After a pass without an error the copy of the bundle is there exactly   *)
(* if the release mounts it, whatever passes with other settings, failed   *)
(* writes and cleaners left before.                                        *)
BundleMounted ==
    outcome = "ok" =>
        /\ workloadRelease # NoRelease
        /\ stage \notin {"applied", "failed"} =>
            (bundle <=> "custom-ca-bundle" \in workloadRelease.patches)

PreparedHelmValues(root, ref) ==
    LET prepared == AddAuthToHelmValues(WorkloadHelmValues(root))
    IN  IF ref = None THEN prepared ELSE AddCAHelmValues(prepared)

Usable == {s \in Inputs \X CARefs : Buildable(s[1], s[2])}

Prepared == [s \in Usable |-> PreparedHelmValues(Root(s[1]), s[2])]

(* The two releases and the bundle are what the settings say.              *)
Current ==
    /\ <<values, caRef>> \in Usable
    /\ bundle = (caRef # None)
    /\ workloadRelease.patches = Patches(caRef)
    /\ workloadRelease.values = Prepared[<<values, caRef>>]
    /\ crdRelease = CRDHelmValues

(* A pass that reports no error has made all three what the settings say,  *)
(* whatever earlier passes with other settings have left or failed to do.  *)
SuccessMeansCurrent == [][Clean /\ stage = "applied" => Current']_vars

(* No pass takes that back, one that fails in the middle included: only an *)
(* edit of the settings makes the releases and the bundle stale.           *)
CurrentStays == [][UNCHANGED <<values, caRef>> /\ Current => Current']_vars

(* Once the administrators leave usable settings alone, the releases and   *)
(* the bundle come to what they say and stay there, whatever the settings  *)
(* were before and whichever calls failed.                                 *)
Converges == settled /\ Buildable(values, caRef) ~> []Current

(* "HelmValues are arbitrary Helm values": no value makes the handler      *)
(* panic.                                                                  *)
NeverPanics == outcome # "panicked"

(* "passed directly to the managed HelmRelease": the variables a user sets *)
(* for the collectors are still there when the kubeconfig is added.        *)
CollectorSettingsKept ==
    stage = "built" /\ "defaultCRConfig" \in DOMAIN Root(values) =>
        LET env == Open(Open(Root(values), "defaultCRConfig"), "env")
        IN  \A i \in DOMAIN env : env[i].name # "KUBECONFIG" =>
                \E j \in DOMAIN built["defaultCRConfig"]["env"] :
                    built["defaultCRConfig"]["env"][j] = env[i]

=============================================================================
