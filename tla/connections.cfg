SPECIFICATION FairSpec
CONSTANTS
    Hosts = {"a", "b"}
    Conns = {"c"}
    Doors <- AnyDoor
INVARIANT
    RedirectHolds
PROPERTIES
    CountedOnce
    TaskEnds
    ResponseEnds
