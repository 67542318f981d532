SPECIFICATION Spec
CONSTANTS
    a = a  b = b  c = c  vip = vip  date = date  book = book
    None = None
    Occurrence = {date}
    Product = {book}
    capacity <- TwoSeatsOneVip
    first_stock <- OneBook
    Worker = {w1, w2}
    Orders = {a, c}
    Direct = {a}
    items <- MixedItems
    Tier = {vip}
    Quota = 4
    Operations <- AllOperations
    Switched = {date}
    MaxStarts = 3
    MaxCrashes = 1
SYMMETRY Symmetry
INVARIANTS
    TypeOK
    CountersWithinCapacity
    CollectedIsConfirmed
    SeatsCounted
    ArtefactsFollowSales
CHECK_DEADLOCK FALSE
