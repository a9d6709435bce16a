SPECIFICATION Spec
CONSTANTS
    Profiles = {p}
    None = None
    MaxWants = 1
    MaxCuts = 1
    MaxNets = 0
    MaxApplies = 0
    MaxSaves = 0
    MayTimeOut = FALSE
INVARIANT
    KernelDownWhenDown
\* Once the inputs are used up the extension stands by and has nothing to do.
CHECK_DEADLOCK FALSE
