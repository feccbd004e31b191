SPECIFICATION Spec
CONSTANTS
    None = None
    NoLink = NoLink
    p1 = p1
    p2 = p2
    x = x
    y = y
    z = z
    Pods = {p1, p2}
    Addrs = {x, y, z}
    FamOf <- FamOfAddrs
    Setups <- RouterPods
    AddrSets <- AddrSetsOfPods
    Ips <- IpsOfPods
    MaxChanges = 4
    MaxFaults = 1
    Faults = {"boot", "get", "addPeer", "delPeer", "crash"}
INVARIANTS
    TypeOK
    ReadyConfigured
    ClientsServed
    PeersKnowPods
    NoGarbage
PROPERTIES
    ServedInTheEnd
CHECK_DEADLOCK FALSE
