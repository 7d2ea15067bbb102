CONSTANTS
    Inputs <- AllInputs
    CARefs = {None, Unnamed, ca}
    None = None
    Unnamed = Unnamed
    Malformed = Malformed
    User = User
    MaxFaults = 1
SPECIFICATION FairSpec
INVARIANTS
    SplitTopology
    InjectedWins
    UserValuesKept
    BundleMentioned
    BundleMounted
PROPERTIES
    SuccessMeansCurrent
    CurrentStays
    Converges
