SPECIFICATION Spec
CONSTANTS
    a = a  b = b  c = c  vip = vip  date = date  book = book
    None = None
    Occurrence = {date}
    Product = {book}
    capacity <- TwoSeatsOneVip
    first_stock <- OneBook
    Worker = {w1, w2}
    Orders = {a, b, c}
    Direct = {}
    items <- SeatItems
    Tier = {}
    Quota = 100
    Operations = {"confirm", "cancel"}
    Switched = {}
    MaxStarts = 4
    MaxCrashes = 0
SYMMETRY Symmetry
INVARIANT
    NeverOversold
CHECK_DEADLOCK FALSE
