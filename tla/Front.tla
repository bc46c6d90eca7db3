------------------------------- MODULE Front -------------------------------
(* What a listener serves (router.rs `Front`): the route table, the connector *)
(* to https backends and the certificates, as a connection's task may see     *)
(* them change.  Router implements it; Connections runs on top of it.  A      *)
(* backend is what serve_conn tells apart: none, in the clear, https, or      *)
(* https with a server name that is none.                                     *)
CONSTANT Hosts
VARIABLES
    table,      \* per hostname: its backend
    trusted,    \* a connector with the backend CA is there
    certified   \* a certificate is loaded (Redirect.certs.count() > 0)

Kinds == {"none", "plain", "https", "misnamed"}

Init ==
    /\ table = [h \in Hosts |-> "none"]
    /\ trusted = FALSE
    /\ certified \in BOOLEAN

\* A poll ends with another table.
Swap ==
    /\ table' \in [Hosts -> Kinds]
    /\ UNCHANGED <<trusted, certified>>

\* A CA once loaded is replaced, never dropped ...
Trust ==
    /\ trusted' = TRUE
    /\ UNCHANGED <<table, certified>>

\* ... and so is a certificate.
Certify ==
    /\ certified' = TRUE
    /\ UNCHANGED <<table, trusted>>

Next == Swap \/ Trust \/ Certify

Spec == Init /\ [][Next]_<<table, trusted, certified>>
=============================================================================
