CONSTANTS
  CPNamespaces = {"system"}
  WorkloadNamespaces = {"otel", "unset"}
  Overrides = {"system"}
  PullSecrets = {TRUE, FALSE}
  Objects <- OneObject
  Configs <- MCConfigs
  Plan <- MCPlan
  DependsOn <- MCDependsOn
  Needs <- MCNeeds
  Within <- MCWithin
  Finalized <- MCFinalized
  Keeps <- MCKeeps
  Creates <- MCCreates
  Scopes <- MCScopes
  MaxFaults = 0
  MaxLosses = 1
  Versions = {"v1"}
  Settings <- MCSettings
  NoSettings = NoSettings
  Broken <- BrokenPull
  Bundles = {TRUE, FALSE}
  Labels = {"otel", "unset"}
  GeneratedID = "otel"
  ConfigOf <- MCConfigOf
  Kinds <- MCKinds
  GuardLists <- MCGuardLists
  Orderly = FALSE
SPECIFICATION ReconcilerSpec
PROPERTIES
  GuardStops
