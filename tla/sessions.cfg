SPECIFICATION FairSpec
CONSTANTS
    Ids = {a, b}
    Starts = {s1, s2}
    Stops = {t1, t2}
    Probes = {p1}
    MaxTombstones = 1
    None = None
INVARIANTS
    TypeOK
    OneInstance
    StopReturnsAfterClose
    NoOrphanInstance
    ClosedByOne
PROPERTIES
    ProbeGetsWholeInstance
    EveryCallReturns
\* Once every call has been made and returned the model has nothing left to do.
CHECK_DEADLOCK FALSE
