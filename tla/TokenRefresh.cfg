CONSTANTS
    Namespaces = {"system", "other"}
    None = None
    PollInterval = 2
    Slack = 2
    Lifetime = 7
    Late = 1
    Backoff = 3
    MaxDisturbances = 3
SPECIFICATION FairSpec
INVARIANTS
    TokenTypeOK
    TokenAlive
    OutageBounded
PROPERTY
    AccessRecovers
