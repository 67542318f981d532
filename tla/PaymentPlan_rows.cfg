SPECIFICATION Spec
CONSTANTS
    Plans <- SomePlans
    Amounts <- SomeAmounts
    Start = 150
    Hours <- SomeHours
INVARIANTS
    TypeOK
    SumIsTotal
    InstallmentsFair
PROPERTIES
    RefundNeverGrows
CHECK_DEADLOCK FALSE
