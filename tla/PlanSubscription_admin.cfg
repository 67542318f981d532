SPECIFICATION Spec
CONSTANTS
    s1 = s1
    s2 = s2
    w1 = w1
    w2 = w2
    NoSub = NoSub
    Sub = {s1, s2}
    Sold = {"core", "pro"}
    Worker = {w1}
    Admins = TRUE
    Impatient = FALSE
    MaxChanges = 2
    MaxRequests = 3
    MaxCrashes = 1
INVARIANT
    AdminPlanStands
CHECK_DEADLOCK FALSE
