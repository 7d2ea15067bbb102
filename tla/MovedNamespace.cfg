CONSTANTS
  CPNamespaces = {"system", "other"}
  WorkloadNamespaces = {"otel"}
  Overrides = {"system", "other"}
  PullSecrets = {FALSE}
  Objects <- MovedObjects
  Configs <- MCConfigs
  Plan <- MCPlan
  DependsOn <- MCDependsOn
  Needs <- MCNeeds
  Within <- MCWithin
  Finalized <- MCFinalized
  Keeps <- MCKeeps
  Creates <- MCCreates
  Scopes <- MCScopes
  MaxFaults = 1
  MaxLosses = 1
  Versions = {"v1", "v2"}
  Settings <- MCSettings
  NoSettings = NoSettings
  Broken <- NoBroken
  Bundles = {FALSE}
  Labels = {"otel"}
  GeneratedID = "otel"
  ConfigOf <- MCConfigOf
  Kinds <- NoKinds
  GuardLists <- NoGuard
  Orderly = TRUE
SPECIFICATION ReconcilerSpec
INVARIANTS
  NothingLeftBehind
