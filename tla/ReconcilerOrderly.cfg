CONSTANTS
  CPNamespaces = {"system"}
  WorkloadNamespaces = {"otel", "unset"}
  Overrides = {"system"}
  PullSecrets = {TRUE, FALSE}
  Objects <- PullObjects
  Configs <- MCConfigs
  Plan <- MCPlan
  DependsOn <- MCDependsOn
  Needs <- MCNeeds
  Within <- MCWithin
  Finalized <- MCFinalized
  Keeps <- MCKeeps
  Creates <- MCCreates
  Scopes <- MCScopes
  MaxFaults = 1
  MaxLosses = 1
  Versions = {v1, v2}
  Settings <- MCSettings
  NoSettings = NoSettings
  Broken <- NoBroken
  Bundles = {FALSE}
  Labels = {"otel", "unset"}
  GeneratedID = "otel"
  ConfigOf <- MCConfigOf
  Kinds <- NoKinds
  GuardLists <- NoGuard
  Orderly = TRUE
SPECIFICATION ReconcilerSpec
SYMMETRY VersionSymmetry
INVARIANTS
  ReconcilerTypeOK
  NothingLeftBehind
  ReadyMeansPresent
PROPERTIES
  InstalledIsWritten
  ManagerSpec
  FinalizerEndsTeardown
