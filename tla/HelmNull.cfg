CONSTANTS
    Inputs <- AllInputs
    CARefs = {None, Unnamed, ca}
    None = None
    Unnamed = Unnamed
    Malformed = Malformed
    User = User
    MaxFaults = 0
SPECIFICATION Spec
INVARIANT
    NeverPanics
