CONSTANTS
  CPNamespaces = {"system"}
  WorkloadNamespaces = {"otel"}
  Objects <- CatalogObjects
  Configs <- ImageConfigs
  Plan <- MCPlan
  DependsOn <- MCDependsOn
  Needs <- MCNeeds
  Within <- MCWithin
  Finalized <- CatalogFinalized
  Keeps <- KeptContent
  Creates <- MCCreates
  Scopes <- MCScopes
  MaxFaults = 1
SPECIFICATION Spec
INVARIANTS
  TypeOK
  DoneMeansGone
  OrphansCleaned
PROPERTIES
  DependentsFirst
  RefinesTeardown
