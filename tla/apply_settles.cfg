SPECIFICATION SettlesSpec
CONSTANTS
    Profiles = {p}
    None = None
    MaxWants = 1
    MaxCuts = 1
    MaxNets = 1
    MaxApplies = 2
    MaxSaves = 0
    MayTimeOut = TRUE
    Duplicates = TRUE
    Overlap = TRUE
PROPERTIES
    Settles
    EveryApplyAnswered
\* Once the inputs are used up the extension stands by and has nothing to do.
CHECK_DEADLOCK FALSE
