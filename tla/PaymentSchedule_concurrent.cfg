SPECIFICATION Spec
CONSTANTS
    Seqs <- TwoRows
    amount <- TwoAmounts
    kind <- DepositBalance
    first_due <- DueDates
    Instants = {0, 15}
    Operations = {"verify", "paylink", "paid_manual", "postpone", "refund"}
    Worker = {w1, w2}
    MaxStarts = 2
    MaxCrashes = 1
SYMMETRY Symmetry
INVARIANTS
    DerivedFromRows
    PaidMeansCharged
    RefundBacked
    DepositNeverDunned
CHECK_DEADLOCK FALSE
