----------------------------- MODULE Listeners -----------------------------
(* Where the router listens (router.rs bind_addrs, bind_listeners) and which  *)
(* certificate a TLS client gets (tls.rs pick).                               *)
EXTENDS Bytes

\* bind_addrs: for `auto` the address the kernel would send from, unless it is
\* nobody's to reach, and loopback.
BindAddrs(auto, source) ==
    IF auto /\ source \notin {"none", "loopback", "link-local", "wildcard"}
    THEN Some({source, "loopback"}) ELSE None

\* Mutant: the address as configured.
FallbackLiteral(auto) == "configured"

\* What to bind if that names none.
Fallback(auto) == IF auto THEN "wildcard" ELSE "configured"

\* bind_listeners, with the addresses that can be bound: the listeners, {} for an
\* error.  One address of two is enough for it.
BindListeners(auto, source, free) ==
    LET addrs == BindAddrs(auto, source)
    IN  (IF addrs = None THEN {Fallback(auto)} ELSE addrs[1]) \cap free

\* Mutant: the first loaded, whatever the name.
ValidForFirst(loaded, sni) == {k \in DOMAIN loaded : loaded[k] # None}

\* The loaded pairs whose certificate is valid for the name asked for, if any.
ValidFor(loaded, sni) ==
    {k \in DOMAIN loaded : loaded[k] # None /\ sni # None /\ sni[1] \in loaded[k][1]}

\* Certs::pick: the first valid one, else the first loaded; 0 for none.
PickCert(loaded, sni) ==
    LET any == {k \in DOMAIN loaded : loaded[k] # None}
    IN  IF any = {} THEN 0
        ELSE Min(IF ValidFor(loaded, sni) # {} THEN ValidFor(loaded, sni) ELSE any)
=============================================================================
