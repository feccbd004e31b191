SPECIFICATION Spec
CONSTANTS
    None = None
    n1 = n1
    n2 = n2
    r1 = r1
    r2 = r2
    Nodes = {n1, n2}
    Reqs = {r1, r2}
    NodeOf <- TwoNodes
    N = 2
    UintBits = 2
    Created <- CreatedOne
    Updated <- UpdatedAny
    Collecting = TRUE
    Faults = {}
    MaxFaults = 0
INVARIANTS
    OneBlockPerRequest
