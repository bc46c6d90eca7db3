------------------------------ MODULE VipSpecs ------------------------------
(* What vips.rs accepts as a VIP's spec, and what VRRP is then given.  An     *)
(* address is its family, "v4" or "v6", or "bad"; what the health client and  *)
(* the listener say of a spec is Registry's.                                  *)
EXTENDS Bytes

\* Mutant: the field for the interval is taken to hold 41 s.
VrrpRightLoose(ip, v) ==
    /\ ip = "v4" /\ v.interface
    /\ v.vrid # 0 /\ v.priority # 0 /\ v.secs \in 1..41

VrrpRight(ip, v) ==
    /\ ip = "v4" /\ v.interface
    /\ v.vrid # 0 /\ v.priority # 0 /\ v.secs \in 1..40

\* check: None, or the address to listen on.
CheckSpec(s) ==
    LET bind == IF s.bind = None THEN s.ip ELSE s.bind[1]
    IN  IF /\ s.ip # "bad" /\ s.port # 0 /\ bind # "bad"
           /\ \A b \in s.backends : b.ip # "bad" /\ b.port # 0
           /\ s.health.slash /\ s.health.interval # 0 /\ s.health.timeout # 0
           /\ s.health.statuses # {}
           /\ s.vrrp # None => VrrpRight(s.ip, s.vrrp[1])
        THEN Some(<<bind, s.port>>) ELSE None

\* VirtualRouter::new: the interval in centiseconds, capped to 12 bits.
Centis(secs) == Min({100 * Max({secs, 1}), 4095})
=============================================================================
