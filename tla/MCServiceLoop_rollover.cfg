CONSTANTS
    p1 = p1
    p3 = p3
    p2 = p2
    s1 = s1
    Free = Free
    NoTable = NoTable
    NumTables = 2
    Posts = {p1, p2}
    Stats = {s1}
    TableOf <- OneTable
    DDLTables <- OnlyFirst
    PoolSize = 3
SPECIFICATION FairSpec
INVARIANTS
    ServiceInv
    StallIsDeadlock
PROPERTIES
    StallsOnlyByDeadlock
    DeadlockLasts
