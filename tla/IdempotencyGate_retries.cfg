SPECIFICATION FairSpec
CONSTANTS
    c1 = c1
    Call <- OneCall
    MaxRetries = 3
    MaxDbErrors = 1
    MaxCrashes = 1
INVARIANTS
    AtMostOnce
    AnswerTellsTheTruth
PROPERTIES
    EveryCallReturns
    StoredAnswerIsDelivered
CHECK_DEADLOCK FALSE
