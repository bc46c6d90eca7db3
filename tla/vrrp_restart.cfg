SPECIFICATION Spec
CONSTANTS
    Hosts = {"a", "b"}
    Inst = {"a1", "a2", "b"}
    HostOf <- Restarted
    Addr <- Addresses
    Priority <- Owner
    Preempt <- Preempts
    AdvertSecs <- OneSec
    UnitsPerSec = 2
    MaxAdvert = 4095
    MinWait = 1
    MaxWait = 2
    MaxInbox = 3
    Timely = TRUE
    FaultKinds = {"stop"}
    MaxFaults = 1
    Settle <- SettleBound
INVARIANTS
    PlacedInTime
