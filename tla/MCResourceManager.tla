-------------------------- MODULE MCResourceManager --------------------------
(***************************************************************************)
(* ResourceManager on the catalogue of createObjectManager, for TLC.       *)
(***************************************************************************)
EXTENDS ResourceManager, ObjectCatalog

\* The pull secrets and the CA bundle of a version come and go.
PullConfigs ==
  {[cp |-> "system", wl |-> "otel", ca |-> FALSE, image |-> TRUE, chart |-> FALSE],
   [cp |-> "system", wl |-> "otel", ca |-> TRUE, image |-> FALSE, chart |-> FALSE]}

\* A single configuration, or one that used to have an image pull secret.
PlainConfig == {[cp |-> "system", wl |-> "otel", ca |-> FALSE,
                 image |-> FALSE, chart |-> FALSE]}
ImageConfigs == PlainConfig \cup {[cp |-> "system", wl |-> "otel", ca |-> FALSE,
                                   image |-> TRUE, chart |-> FALSE]}

MCPlan      == [c \in Configs |-> PlanOf(c)]
MCDependsOn == [o \in Objects |-> DependsOnOf(o)]
MCNeeds     == [c \in Configs |-> [o \in Objects |-> NeedsOf(c, o)]]
MCWithin    == [o \in Objects |-> WithinOf(o)]
MCCreates   == [c \in Configs |-> [h \in Objects |-> CreatesOf(c, h)]]
MCScopes    == [c \in Configs |-> ScopesOf(c.wl)]

\* The hypothesis of the theorems about completion is true of the real
\* catalogue while namespaces stay where they are.
ASSUME CoveredAssumption == Covered

\* The order of registration respects what the objects need of each other.
ASSUME OrderAssumption == InOrder
=============================================================================
