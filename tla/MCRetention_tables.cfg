CONSTANTS
    LastMonth = 3
    MonthStart <- ShortStart
    MonthOf <- ShortOf
    NumTables = 2
    RetentionDays <- Windows
    Instances = {i1}
SPECIFICATION Spec
INVARIANTS
    TypeOK
    RolloverCovered
PROPERTIES
    LivePartitionKept
    StoreImplemented
CHECK_DEADLOCK FALSE
