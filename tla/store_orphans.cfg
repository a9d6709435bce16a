SPECIFICATION PartlyBlindSpec
CONSTANTS
    MaxCalls = 3
    MaxCrashes = 1
    MaxFaults = 0
PROPERTY
    OnlyOrphansDeleted
\* Once every call has been made and answered the model has nothing left to do.
CHECK_DEADLOCK FALSE
