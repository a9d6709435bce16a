SPECIFICATION FairSpec
CONSTANTS
    Starts = {s1, s2}
    Stops = {t1, t2}
    Fds = {fd1, fd2}
    None = None
INVARIANTS
    TypeOK
    OneOwner
    StateMatchesKernel
    StopAcknowledgedWhenDown
    OvertakenStartNotOk
    UpUntilStopped
    NoWaiterForgotten
PROPERTIES
    EveryCallAnswered
    ImplementsContract
\* Once every call has been made and answered the model has nothing left to do.
CHECK_DEADLOCK FALSE
