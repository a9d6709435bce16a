SPECIFICATION ControlFairSpec
CONSTANTS
    Profiles = {p, q}
    None = None
    MaxRequests = 2
    MaxLost = 1
    MaxReclaims = 1
INVARIANTS
    QuietAgree
PROPERTIES
    WatchdogOfLast
    ConnectingEnds
\* Once the requests are used up and nothing runs there is nothing left to do.
CHECK_DEADLOCK FALSE
