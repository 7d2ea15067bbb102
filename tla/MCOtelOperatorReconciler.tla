----------------------- MODULE MCOtelOperatorReconciler -----------------------
(***************************************************************************)
(* OtelOperatorReconciler for TLC: the catalogue of createObjectManager    *)
(* restricted to the Objects of the instance.                              *)
(***************************************************************************)
EXTENDS OtelOperatorReconciler, ObjectCatalog, SequencesExt

CONSTANTS
  Overrides,     \* namespaceOverride values that occur, "system" for none
  PullSecrets    \* {TRUE, FALSE} when image pull secrets come and go

\* Versions are interchangeable.
VersionSymmetry == Permutations(Versions)

MCSettings == [cp : Overrides, image : PullSecrets, chart : {FALSE}]

MCConfigOf == [s \in MCSettings |-> [b \in Bundles |-> [l \in Labels |-> ConfigFor(s, b, l)]]]
MCConfigs  == {ConfigFor(s, b, l) : s \in MCSettings, b \in Bundles, l \in Labels}

\* otelListGVKs: collectors are listed in two API versions.
MCGuardLists == <<"OpenTelemetryCollector", "Instrumentation", "OpenTelemetryCollector">>
MCKinds      == {"OpenTelemetryCollector", "Instrumentation"}
NoGuard      == <<>>
NoKinds      == {}
OneKind      == {"Instrumentation"}
OneList      == <<"Instrumentation">>
NoBroken     == {}
BrokenPull   == {s \in MCSettings : s.image}

\* Objects of the instances.
SharedObjects(w) == {CPNamespace("system"), ServiceAccount("system"), ImagePullSecret(w)}
PullObjects == SharedObjects("otel")
OneObject   == {ServiceAccount("system")}
MovedObjects == {CPNamespace("system"), CPNamespace("other"), ServiceAccount("system")}

MCPlan == [c \in MCConfigs |-> SelectSeq(PlanOf(c), LAMBDA o : o \in Objects)]
MCDependsOn == [o \in Objects |-> DependsOnOf(o) \cap Objects]
MCNeeds   == [c \in MCConfigs |-> [o \in Objects |-> NeedsOf(c, o) \cap Objects]]
MCWithin  == [o \in Objects |-> WithinOf(o) \cap Objects]
MCCreates == [c \in MCConfigs |-> [h \in Objects |-> CreatesOf(c, h) \cap Objects]]
MCScopes  == [c \in MCConfigs |->
                [k \in 1..3 |-> ScopesOf(c.wl)[k] \cap Objects]]
MCFinalized == CatalogFinalized \cap Objects
MCKeeps     == KeptContent \cap Objects

\* The hypothesis of the theorem about the finalizer is true of the real
\* catalogue as long as namespaceOverride does not change.
ASSUME HomeAssumption == Cardinality(Overrides) = 1 => CoveredAtHome
=============================================================================
