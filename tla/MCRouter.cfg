SPECIFICATION Spec
CONSTANTS
    None = None
    n0 = n0
    n1 = n1
    n2 = n2
    b1 = b1
    b2 = b2
    a1 = a1
    a2 = a2
    c1 = c1
    Nodes = {n0, n1, n2}
    Self = n0
    Blocks = {b1, b2}
    FamsOf <- FamsOfBlocks
    Statuses <- NodeStatuses
    MaxChanges = 5
    MaxFaults = 1
INVARIANTS
    NoChangeLost
    NoClash
PROPERTIES
    RoutesConverge
