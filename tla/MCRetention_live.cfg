CONSTANTS
    LastMonth = 3
    MonthStart <- LongFirstStart
    MonthOf <- LongFirstOf
    NumTables = 1
    RetentionDays <- Windows
    Instances = {i1}
SPECIFICATION FairSpec
PROPERTIES
    ExpiredPartitionsGo
    CoverageReturns
CHECK_DEADLOCK FALSE
