CONSTANTS
    Tags = {t1, t2}
    Values = {v1, v2}
    Contents = {c1}
    None = None
    InstallRetries = 1
    MaxEdits = 2
    MaxFaults = 2
    MaxTogether = 3
SPECIFICATION FairSpec
INVARIANT
    ReadinessTypeOK
PROPERTIES
    ReadyMeansInstalled
    OperatorAfterCRDs
    Settles
    RolloutGoesOn
