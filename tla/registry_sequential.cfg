SPECIFICATION Spec
CONSTANTS
    NameOrder <- Names3
    Specs <- MovingSpecs
    Clients = {"c1"}
    Requests <- ApiRequests
    ConfigAtBoot <- WithConfig
    Inodes = {1, 2}
    MaxRequests = 3
    MaxExits = 2
    MaxEnv = 2
CHECK_DEADLOCK FALSE
INVARIANTS
    AckedSurvives
    ConfigStands
PROPERTIES
    ImplementsSpec
    PutServes
