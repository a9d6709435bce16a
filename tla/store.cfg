SPECIFICATION FairSpec
CONSTANTS
    MaxCalls = 4
    MaxCrashes = 1
    MaxFaults = 2
INVARIANTS
    TypeOK
    PublishedNeverRewritten
    RollbackPointsKept
PROPERTIES
    EveryCallAnswered
    ImplementsStore
\* Once every call has been made and answered the model has nothing left to do.
CHECK_DEADLOCK FALSE
