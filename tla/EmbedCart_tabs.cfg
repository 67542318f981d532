SPECIFICATION Spec
CONSTANTS
    t1 = t1
    t2 = t2
    s1 = s1
    s2 = s2
    seat = seat
    visit = visit
    NoTab = NoTab
    Tab = {t1, t2}
    Slot = {s1, s2}
    Choice <- Offered
    Ticket <- Tickets
    Hasty = {"add", "reopen"}
    MaxAsked = 2
    MaxCarts = 2
    MaxOrders = 1
SYMMETRY Symmetry
INVARIANTS
    NeverMoreThanAsked
    TabsStayAligned
    RowsStayDistinct
    OrderAsShown
CHECK_DEADLOCK FALSE
