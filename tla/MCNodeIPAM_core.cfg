SPECIFICATION Spec
CONSTANTS
    None = None
    GC = GC
    p1 = p1
    b1 = b1
    b2 = b2
    b3 = b3
    Containers = {c1, c2}
    Pools = {p1}
    Blocks = {b1, b2, b3}
    PoolOf <- OnePool
    Reserved = {b3}
    Size = 2
    Faults = {"crash", "otherNode", "getPool", "gcList", "setup", "syncBlock", "gcFin", "gcFinLost", "reboot", "nodeDeleted"}
    MaxReq = 2
SYMMETRY Symmetric
INVARIANTS
    TypeOK
    AddressUnique
    UsageAccounted
    DeletesOwnBlock
PROPERTIES
    LeaseSpec
