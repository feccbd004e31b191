SPECIFICATION Spec
CONSTANTS
    None = None
    n1 = n1
    n2 = n2
    r1 = r1
    r2 = r2
    Nodes = {n1, n2}
    Reqs = {r1, r2}
    NodeOf <- TwoNodes
    N = 1
    UintBits = 2
    Created <- CreatedOne
    Updated <- UpdatedNone
    Collecting = TRUE
    Faults = {"leave"}
    MaxFaults = 1
PROPERTIES
    GCSparesLiveNodes
