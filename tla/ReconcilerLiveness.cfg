CONSTANTS
  CPNamespaces = {"system"}
  WorkloadNamespaces = {"otel", "unset"}
  Overrides = {"system"}
  PullSecrets = {TRUE, FALSE}
  Objects <- PullObjects
  Configs <- MCConfigs
  Plan <- MCPlan
  DependsOn <- MCDependsOn
  Needs <- MCNeeds
  Within <- MCWithin
  Finalized <- MCFinalized
  Keeps <- MCKeeps
  Creates <- MCCreates
  Scopes <- MCScopes
  MaxFaults = 1
  MaxLosses = 1
  Versions = {"v1"}
  Settings <- MCSettings
  NoSettings = NoSettings
  Broken <- BrokenPull
  Bundles = {FALSE}
  Labels = {"otel", "unset"}
  GeneratedID = "otel"
  ConfigOf <- MCConfigOf
  Kinds <- OneKind
  GuardLists <- OneList
  Orderly = TRUE
SPECIFICATION FairReconcilerSpec
PROPERTIES
  DeletionCompletes
