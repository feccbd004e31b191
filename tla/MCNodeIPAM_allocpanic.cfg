SPECIFICATION Spec
CONSTANTS
    None = None
    GC = GC
    p1 = p1
    b1 = b1
    b2 = b2
    b3 = b3
    Containers = {c1, c2}
    Pools = {p1}
    Blocks = {b1, b2}
    PoolOf <- OnePool
    Reserved = {}
    Size = 1
    Faults = {}
    MaxReq = 2
SYMMETRY Symmetric
INVARIANTS
    NoAllocatePanic
