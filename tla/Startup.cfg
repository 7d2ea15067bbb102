CONSTANTS
    Replicas = {r1, r2}
    CRDs = {oteloperators, providerconfigs}
    Remote = {oteloperators}
    LeaderElect = TRUE
    RenewDeadline = 1
    LeaseDuration = 2
    None = None
    MaxVersion = 2
    MaxFaults = 3
SPECIFICATION FairSpec
INVARIANTS
    StartupTypeOK
    OneActive
PROPERTIES
    InitEnds
    Serves
