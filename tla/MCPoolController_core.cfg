SPECIFICATION Spec
CONSTANTS
    None = None
    n1 = n1
    n2 = n2
    r1 = r1
    r2 = r2
    Nodes = {n1, n2}
    Reqs = {r1, r2}
    NodeOf <- OneNode
    N = 2
    UintBits = 2
    Created <- CreatedAny
    Updated <- UpdatedAny
    Collecting = FALSE
    Faults = {"getPool", "create", "status", "sync", "isUsed", "apFin", "crash"}
    MaxFaults = 1
CHECK_DEADLOCK FALSE
INVARIANTS
    TypeOK
    PoolGuard
    BitsCoverBlocks
    StaleBitResynced
    BlocksCarved
PROPERTIES
    NoBlockMeansFull
