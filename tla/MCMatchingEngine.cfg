SPECIFICATION MCSpec
CONSTANTS
    Id = {1, 2, 3}
    Price = {1, 2}
    Quantity = {1, 2}
    Sequence = {0}
    NoOrder = NoOrder
    MaxOrders = 4
    MaxSequence = 5
INVARIANTS IndexIsExact NotCrossed QuantityConserved
PROPERTIES PriceTimePriority SubmitEnds
CHECK_DEADLOCK FALSE
