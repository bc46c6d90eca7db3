SPECIFICATION Spec
CONSTANTS
    Hosts = {"a", "b"}
    Inst = {"a", "b"}
    HostOf <- OnePerHost
    Addr <- Addresses
    Priority <- Ranked
    Preempt <- Preempts
    AdvertSecs <- OneSec
    UnitsPerSec = 4
    MaxAdvert = 4095
    MinWait = 1
    MaxWait = 2
    MaxInbox = 3
    Timely = TRUE
    FaultKinds = {"health", "stop", "reboot"}
    MaxFaults = 3
    Settle <- SettleBound
INVARIANTS
    TypeOK
    AnsweredInTime
    BriefOverlap
    ElectedInTime
    HolderIsMaster
    MasterHolds
