SPECIFICATION Spec
CONSTANTS
    NameOrder <- Names3
    Specs <- MovingSpecs
    Clients = {"c1"}
    Requests <- ApiRequests
    ConfigAtBoot <- WithConfig
    Inodes = {1, 2}
    MaxRequests = 2
    MaxExits = 0
    MaxEnv = 1
CHECK_DEADLOCK FALSE
INVARIANT ServesItsSpec
