SPECIFICATION LiveSpec
CONSTANTS
    None = None
    GC = GC
    p1 = p1
    b1 = b1
    b2 = b2
    b3 = b3
    Containers = {c1, c2}
    Pools = {p1}
    Blocks = {b1}
    PoolOf <- OnePool
    Reserved = {}
    Size = 1
    Faults = {"otherNode", "getPool", "delReq", "mkReq", "syncBlock", "setup"}
    MaxReq = 2
PROPERTIES
    EveryCallReturns
    UnusedBlockReturned
    RoutesRestored
