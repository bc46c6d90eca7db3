SPECIFICATION FairSpec
CONSTANTS
    NPairs = 1
    MaxEvents = 3
    Routes <- ThreeRoutes
    Services = {"s", "t"}
    SteadyHost = "steady"
    Flaky = {"t"}
INVARIANTS
    LoadedRight
PROPERTIES
    RenewalServed
    TableFollows
    WorkingRouteStays
    ImplementsFront
