CONSTANTS
    p1 = p1
    p3 = p3
    p2 = p2
    s1 = s1
    Free = Free
    NoTable = NoTable
    NumTables = 2
    Posts = {p1, p2, p3}
    Stats = {}
    TableOf <- OneTable
    DDLTables <- OnlyOther
    PoolSize = 2
SPECIFICATION FairSpec
INVARIANTS
    ServiceInv
PROPERTIES
    EveryRequestFinishes
