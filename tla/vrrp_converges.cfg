SPECIFICATION FairSpec
CONSTANTS
    Hosts = {"a", "b"}
    Inst = {"a", "b"}
    HostOf <- OnePerHost
    Addr <- Addresses
    Priority <- Equal
    Preempt <- Polite
    AdvertSecs <- OneSec
    UnitsPerSec = 2
    MaxAdvert = 4095
    MinWait = 1
    MaxWait = 1
    MaxInbox = 3
    Timely = TRUE
    FaultKinds = {"health", "cut", "crash", "recv_error", "claim_fails", "release_fails",
                  "foreign"}
    MaxFaults = 3
    \* No property here measures calm.
    Settle = 0
PROPERTY Converges
