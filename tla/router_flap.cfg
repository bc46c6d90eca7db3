SPECIFICATION Spec
CONSTANTS
    NPairs = 1
    MaxEvents = 2
    Routes <- ThreeRoutes
    Services = {"s", "t"}
    SteadyHost = "steady"
    Flaky = {"s", "t"}
PROPERTY WorkingRouteStays
