CONSTANTS
  CPNamespaces = {"system"}
  WorkloadNamespaces = {"otel"}
  Objects <- CatalogObjects
  Configs <- PlainConfig
  Plan <- MCPlan
  DependsOn <- MCDependsOn
  Needs <- MCNeeds
  Within <- MCWithin
  Finalized <- CatalogFinalized
  Keeps <- KeptContent
  Creates <- MCCreates
  Scopes <- MCScopes
  MaxFaults = 2
SPECIFICATION FairSpec
PROPERTIES
  TeardownCompletes
