SPECIFICATION UiApplySpec
CONSTANTS
    Profiles = {p}
    None = None
    MaxRequests = 1
    MaxLost = 0
    MaxReclaims = 0
    MaxRevision = 2
    MaxOps = 1
PROPERTY AnswerTaken
\* Once the requests are used up and nothing runs there is nothing left to do.
CHECK_DEADLOCK FALSE
