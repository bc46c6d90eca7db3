SPECIFICATION FairSpec
CONSTANTS
    Addrs = {"s", "x"}
    Specs = {"tcp", "https"}
    Lists <- TwoLists
    Steady = "s"
    Conns = {"c1"}
    Width = 2
    MaxPuts = 2
    MaxFlips = 1
    CaMayFail = TRUE
INVARIANTS
    JudgedBeforeSleep
    AdmittedByCheck
PROPERTIES
    SteadyServed
    HealthTracks
