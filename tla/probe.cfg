SPECIFICATION FairSpec
CONSTANTS
    NodeCount = 3
    Chained = {1, 3}
    Concurrency = 2
    StartLimits = {0, 2}
    MaxRounds = 2
INVARIANTS
    NobodySkipped
    NoSessionLeft
PROPERTIES
    ResultsFinal
    BlameJustified
    RoundEnds
\* Once the rounds are over there is nothing left to do.
CHECK_DEADLOCK FALSE
