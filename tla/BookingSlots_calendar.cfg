SPECIFICATION Spec
CONSTANTS
    a = a
    b = b
    c = c
    d = d
    p1 = p1
    p2 = p2
    Merchant = Merchant
    Order = {a, b, c, d}
    Proc = {p1, p2}
    Kind <- MixedKind
    Windows <- MixedWindows
    Blocks <- Holiday
    DayEnd = 4
    Id = {1, 2, 3}
    MaxTime = 3
    Raced = {d}
    Lag = TRUE
SYMMETRY Symmetry
INVARIANTS
    NoDoubleBooking
    DraftHoldsItsSlot
    RefusedHoldsNothing
CHECK_DEADLOCK FALSE
