SPECIFICATION Spec
CONSTANTS
    Profiles = {p, q}
    None = None
    MaxWants = 2
    MaxCuts = 1
    MaxNets = 1
    MaxApplies = 0
    MaxSaves = 0
    MayTimeOut = TRUE
SYMMETRY Symmetry
INVARIANTS
    LatestWins
    NotStuck
    CutHolds
\* Once the inputs are used up the extension stands by and has nothing to do.
CHECK_DEADLOCK FALSE
