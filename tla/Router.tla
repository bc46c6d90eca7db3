------------------------------- MODULE Router -------------------------------
(***************************************************************************)
(* The L7 router (router.rs): the poller that refreshes the route table    *)
(* and the backend CA, beside the certificates of Certs.  What it leaves   *)
(* for the tasks of connections is the Front of Connections.               *)
(*                                                                         *)
(* A route is its hostnames, its backend (an annotated address, or a       *)
(* Service to resolve), its protocol and whether its server name is one; a *)
(* route whose protocol or backendRef is no use is like one not listed.    *)
(***************************************************************************)
EXTENDS Certs

CONSTANTS
    Routes,      \* the HTTPRoutes there can be, in list order
    Services,
    SteadyHost,  \* a hostname whose route and Service never change
    Flaky        \* Services whose lookup may fail

ASSUME RouterAssumption ==
    /\ DOMAIN Routes \subseteq Nat
    /\ \A r \in DOMAIN Routes :
           Routes[r].svc \in Services \cup {"none"} /\ Routes[r].https \in BOOLEAN
    /\ Flaky \subseteq Services

VARIABLES
    listed,      \* the routes the apiserver has
    ip,          \* per Service: its clusterIP, 0 for none
    authOk,      \* ca_file and token_file make a client
    caFile,      \* backend_ca_file
    ppc,         \* where the poller is
    caSeen,      \* the stamp it read
    todo, out,   \* routes still to resolve, the table so far
    ca,          \* CaState: the stamp of the last load, and the connector in use
    table        \* per hostname: its backend

api      == <<listed, ip, authOk, caFile>>
poller   == <<ppc, caSeen, todo, out, ca, table>>
vars     == <<certVars, events, api, poller>>

RouteIds == DOMAIN Routes
Hosts    == UNION {Routes[r].hosts : r \in RouteIds}
NoBackend == [addr |-> <<"none", 0>>, https |-> FALSE, named |-> TRUE]
NoTable  == [h \in Hosts |-> NoBackend]
NoCa     == [ver |-> 0, at |-> 0]

SteadyRoute == CHOOSE r \in RouteIds : SteadyHost \in Routes[r].hosts

-----------------------------------------------------------------------------
(* poll_routes *)

\* with_protocol on a resolved address.
Backend(r, addr) ==
    [addr |-> addr, https |-> Routes[r].https, named |-> Routes[r].named]

\* backend_of: the annotated address, or the Service's clusterIP.
AddrOf(r) ==
    LET s == Routes[r].svc
    IN  <<s, IF s = "none" THEN r ELSE ip[s]>>

\* fetch_table: every hostname of the route, a later route over an earlier one.
Inserted(t, r, addr) ==
    [h \in Hosts |-> IF h \in Routes[r].hosts THEN Backend(r, addr) ELSE t[h]]

\* CaState::reload: a loaded file with the same stamp is left alone ...
CaStat ==
    /\ ppc = "sleep"
    /\ IF ca.ver # 0 /\ ca.at = caFile.at
       THEN ppc' = "list" /\ UNCHANGED caSeen
       ELSE ppc' = "ca" /\ caSeen' = caFile.at
    /\ UNCHANGED <<todo, out, ca, table>>

\* ... else it is read; one that does not load changes nothing.
CaLoad ==
    /\ ppc = "ca"
    /\ ca' = IF caFile.ver = 0 THEN ca ELSE [ver |-> caFile.ver, at |-> caSeen]
    /\ ppc' = "list" /\ caSeen' = 0
    /\ UNCHANGED <<todo, out, table>>

\* The list arrives.
Listed ==
    /\ ppc = "list" /\ authOk
    /\ todo' = listed /\ out' = NoTable
    /\ ppc' = "resolve"
    /\ UNCHANGED <<caSeen, ca, table>>

\* Mutant: an error leaves an empty table.
ListFailsEmpty ==
    /\ ppc = "list"
    /\ ppc' = "sleep"
    /\ table' = NoTable
    /\ UNCHANGED <<caSeen, todo, out, ca>>

\* No client, no token, no answer or not 200: the last table stays.
ListFails ==
    /\ ppc = "list"
    /\ ppc' = "sleep"
    /\ UNCHANGED <<caSeen, todo, out, ca, table>>

\* The route whose turn it is.
First == CHOOSE r \in todo : \A q \in todo : r <= q

\* backend_of finds an address.
Resolved ==
    LET svc == Routes[First].svc
    IN  /\ ppc = "resolve" /\ todo # {}
        /\ svc # "none" => ip[svc] # 0
        /\ out' = Inserted(out, First, AddrOf(First))
        /\ todo' = todo \ {First}
        /\ UNCHANGED <<ppc, caSeen, ca, table>>

\* A missing or headless Service: the route is left out.
Unresolved ==
    LET svc == Routes[First].svc
    IN  /\ ppc = "resolve" /\ todo # {}
        /\ svc # "none" /\ ip[svc] = 0
        /\ todo' = todo \ {First}
        /\ UNCHANGED <<ppc, caSeen, out, ca, table>>

\* So it is when the lookup itself fails.
LookupFails ==
    /\ ppc = "resolve" /\ todo # {}
    /\ Routes[First].svc \in Flaky
    /\ todo' = todo \ {First}
    /\ UNCHANGED <<ppc, caSeen, out, ca, table>>

\* Mutant: the new routes are added to the old ones.
MergedTable == [h \in Hosts |-> IF out[h] = NoBackend THEN table[h] ELSE out[h]]

\* The new table replaces the old one.
NewTable == out

Swap ==
    /\ ppc = "resolve" /\ todo = {}
    /\ table' = NewTable
    /\ ppc' = "sleep" /\ out' = NoTable
    /\ UNCHANGED <<caSeen, todo, ca>>

Poll == CaStat \/ CaLoad \/ Listed \/ Resolved \/ Unresolved \/ Swap

-----------------------------------------------------------------------------
(* The apiserver and the files (external). *)

\* A route is made or deleted, but the steady one.
RouteChange(r) ==
    /\ r # SteadyRoute
    /\ listed' = IF r \in listed THEN listed \ {r} ELSE listed \cup {r}
    /\ UNCHANGED <<ip, authOk, caFile>>

ServiceChange(s, v) ==
    /\ s # Routes[SteadyRoute].svc /\ v # ip[s]
    /\ ip' = [ip EXCEPT ![s] = v]
    /\ UNCHANGED <<listed, authOk, caFile>>

AuthChange ==
    /\ authOk' = ~authOk
    /\ UNCHANGED <<listed, ip, caFile>>

CaWrite(v) ==
    /\ caFile' = IF v = 0 THEN NoCa ELSE [ver |-> v, at |-> events + 2]
    /\ UNCHANGED <<listed, ip, authOk>>

ApiChange ==
    \/ \E r \in RouteIds : RouteChange(r)
    \/ \E s \in Services, v \in 0..1 : ServiceChange(s, v)
    \/ AuthChange
    \/ \E v \in 0..1 : CaWrite(v)

Init ==
    /\ CertsInit /\ events = 0
    /\ listed = RouteIds /\ ip = [s \in Services |-> 1] /\ authOk = TRUE
    /\ caFile = NoCa
    /\ ppc = "sleep" /\ caSeen = 0 /\ todo = {} /\ out = NoTable
    /\ ca = NoCa /\ table = NoTable

Next ==
    \/ ReloadStep /\ UNCHANGED <<api, poller>>
    \/ FileChange /\ UNCHANGED <<api, poller>>
    \/ Poll /\ UNCHANGED <<certVars, events, api>>
    \/ ListFails /\ (authOk => Event) /\ (~authOk => UNCHANGED events)
                 /\ UNCHANGED <<certVars, api>>
    \/ LookupFails /\ Event /\ UNCHANGED <<certVars, api>>
    \/ ApiChange /\ Event /\ UNCHANGED <<certVars, poller>>

Spec == Init /\ [][Next]_vars

\* The poller and the reload task are scheduled, and their calls return.
FairSpec ==
    /\ Spec
    /\ WF_vars(ReloadStep /\ UNCHANGED <<api, poller>>)
    /\ WF_vars((Poll \/ (ListFails /\ ~authOk))
               /\ UNCHANGED <<certVars, events, api>>)

-----------------------------------------------------------------------------
(* Properties. *)

\* The table a poll makes of the apiserver as it is now.
Expected ==
    [h \in Hosts |->
        LET able == {r \in listed : /\ h \in Routes[r].hosts
                                    /\ Routes[r].svc # "none" => ip[Routes[r].svc] # 0}
            r    == CHOOSE x \in able : \A y \in able : y <= x
        IN  IF able = {} THEN NoBackend ELSE Backend(r, AddrOf(r))]

\* Polls get through in the end: the table becomes what the apiserver has, with
\* deleted routes gone.
TableFollows == <>[](authOk => table = Expected)

\* router.rs: "a flapping apiserver must not take working routes down with it": a
\* host whose route and Service never change keeps its backend once it has one.
WorkingRouteStays ==
    [][table[SteadyHost] # NoBackend => table'[SteadyHost] = table[SteadyHost]]_vars

\* A backend as serve_conn tells it apart.
Kind(b) ==
    IF b = NoBackend THEN "none" ELSE IF ~b.https THEN "plain"
    ELSE IF b.named THEN "https" ELSE "misnamed"

\* The three cells of router.rs `Front`.
Cells == INSTANCE Front WITH
    table <- [h \in Hosts |-> Kind(table[h])], trusted <- ca.ver # 0, certified <- Count > 0

\* The Front that Connections relies on is what the poller and the reload task
\* make: a table changes whole and alone, and neither a broken CA file nor a broken
\* certificate takes away what was loaded.
ImplementsFront == Cells!Spec
=============================================================================
