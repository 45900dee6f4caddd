CONSTANTS
    LastMonth = 2
    MonthStart <- LongFirstStart
    MonthOf <- LongFirstOf
    NumTables = 1
    RetentionDays <- NoWindow
    Instances = {i1, i2}
SPECIFICATION Spec
INVARIANTS
    UpkeepInv
    RolloverCovered
PROPERTIES
    LivePartitionKept
    StoreImplemented
SYMMETRY InstanceSymmetry
CHECK_DEADLOCK FALSE
