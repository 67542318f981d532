SPECIFICATION Spec
CONSTANTS
    a = a
    b = b
    c = c
    d = d
    p1 = p1
    p2 = p2
    Merchant = Merchant
    Order = {a, b}
    Proc = {p1, p2}
    Kind <- PairKind
    Windows <- PairWindows
    Blocks <- Holiday
    DayEnd = 4
    Id = {}
    MaxTime = 8
    Raced = {}
    Lag = FALSE
INVARIANT AllOrNothing
CHECK_DEADLOCK FALSE
