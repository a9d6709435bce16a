SPECIFICATION ApplySpec
CONSTANTS
    Profiles = {p}
    None = None
    MaxWants = 1
    MaxCuts = 0
    MaxNets = 0
    MaxApplies = 2
    MaxSaves = 1
    MayTimeOut = FALSE
    Duplicates = TRUE
    Overlap = TRUE
INVARIANTS
    PinnedUntilStopped
    NoTunnelLeft
PROPERTIES
    RestartAckTrue
\* Once the inputs are used up the extension stands by and has nothing to do.
CHECK_DEADLOCK FALSE
