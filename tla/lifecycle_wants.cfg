SPECIFICATION Spec
CONSTANTS
    Profiles = {p, q}
    None = None
    MaxWants = 3
    MaxCuts = 0
    MaxNets = 0
    MaxApplies = 0
    MaxSaves = 1
    MayTimeOut = TRUE
SYMMETRY Symmetry
INVARIANTS
    OneStart
    SettledAgree
    SettledTold
\* Once the inputs are used up the extension stands by and has nothing to do.
CHECK_DEADLOCK FALSE
