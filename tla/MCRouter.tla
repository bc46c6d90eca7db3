------------------------------ MODULE MCRouter ------------------------------
(* Instances of Router for TLC: a steady https route to a Service, an        *)
(* annotated one, and one whose server name is none.                         *)
EXTENDS Router

R(hosts, svc, https, named) ==
    [hosts |-> hosts, svc |-> svc, https |-> https, named |-> named]
ThreeRoutes == <<R({"steady"}, "s", TRUE, TRUE), R({"a"}, "none", FALSE, TRUE),
                 R({"a"}, "t", TRUE, FALSE)>>
=============================================================================
