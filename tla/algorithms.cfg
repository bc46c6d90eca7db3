SPECIFICATION Spec
CONSTANTS
    \* like 2^64, 2^4 is 1 modulo 3 and 5, and 4 modulo 6
    MaxMembers = 6
    Width = 16
    MaxLines = 3
    MaxLinks = 3
CHECK_DEADLOCK FALSE
INVARIANTS
    VrrpWire
    BgpWire
    NetlinkWire
    HttpRight
    ListenersRight
    MetricsRight
    PickRight
