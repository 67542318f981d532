SPECIFICATION FairSpec
CONSTANTS
    Seqs <- TwoRows
    amount <- TwoAmounts
    kind <- DepositBalance
    first_due <- DueDates
    Instants <- FewDays
    Operations <- AllOperations
    Worker = {w1}
    MaxStarts = 3
    MaxCrashes = 0
INVARIANTS
    MirrorFollowsSchedule
    RefundOnRecord
    SettledOrderIsClosed
PROPERTIES
    LedgerRefined
    LateRowsEscalate
    PaidSessionReachesLedger
CHECK_DEADLOCK FALSE
