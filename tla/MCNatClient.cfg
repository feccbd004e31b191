SPECIFICATION Spec
CONSTANTS
    Addrs = {"g1", "h1", "g2"}
    FamOf <- MCFamOf
    NoLink = NoLink
    Egresses = {"e1", "e2"}
    ClusterIPs <- MCClusterIPs
    Dests = {"any", "corp", "any6"}
    DestFam <- MCDestFam
    InCluster = {"corp"}
    Packets = {"web", "pod", "lan"}
    LocalPackets = {"pod", "lan"}
    Covers <- MCCovers
    NoEgress = NoEgress
    NoRoute = NoRoute
    NoNetns = NoNetns
    PodFamilies = {{"v4"}, {"v4", "v6"}}
    Versions <- MCVersions
    MaxChanges = 2
    MaxFaults = 1
INVARIANTS TypeOK RoutesAsSpecified ClusterTrafficStays MarksFollowFlag
PROPERTIES KeepsRoutes Settles
CHECK_DEADLOCK FALSE
