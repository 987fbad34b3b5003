CONSTANTS
    Sizes = {1}
    MaxSends = 2
    RecordSizes = {2, 3}
    MaxRecords = 1
    RecvBuffer = 2
    EarlySends = TRUE
SPECIFICATION Spec
CHECK_DEADLOCK FALSE
INVARIANTS StreamRetried NothingTrapped
PROPERTIES RecordsDelivered ImplementsPipe
