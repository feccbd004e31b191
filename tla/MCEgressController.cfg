SPECIFICATION Spec
CONSTANTS
    Egresses = {"e1", "e2"}
    Detailed = {"e2"}
    NsOf <- MCNsOf
    Bindings = {"coil-egress"}
    Versions <- MCVersions
    None = None
    MaxEvents = 2
INVARIANTS TypeOK EgressAsSpecified
PROPERTIES RolesBeforeRouters Settles
CHECK_DEADLOCK FALSE
