SPECIFICATION FairSpec
CONSTANTS
    HoldTime = 9
    OpenWait = 2
    Backoff = 1
    PollEvery = 1
    PeerHolds <- Holds
    MaxFlips = 2
    MaxFaults = 2
INVARIANTS
    PeerTableRight
    AnnouncesWhenEstablished
    HoldTimesKept
    WithdrawnInTime
PROPERTIES
    RouteFollowsHealth
    ReadersEnd
