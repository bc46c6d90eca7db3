------------------------------- MODULE MCVrrp -------------------------------
(* Instances of Vrrp for TLC: two machines with one instance each, and one   *)
(* machine on which VRRP is restarted next to a second machine.             *)
EXTENDS Vrrp

\* Machine a runs two instances, one after the other.
Restarted  == [i \in Inst |-> IF i = "b" THEN "b" ELSE "a"]
OnePerHost == [i \in Inst |-> i]
Addresses  == [h \in Hosts |-> IF h = "a" THEN 1 ELSE 2]

\* a is the address owner, b an ordinary router.
Ranked   == [i \in Inst |-> IF i = "a" THEN 255 ELSE 128]
\* All the same: the address breaks the tie.
Equal    == [i \in Inst |-> 100]
Preempts == [i \in Inst |-> TRUE]
\* The owner, restarted with the same priority.
Owner    == [i \in Inst |-> IF i = "b" THEN 100 ELSE 255]
Polite   == [i \in Inst |-> FALSE]
OneSec   == [i \in Inst |-> 1]

\* The longest Master_Down_Interval, and for the take-over and for the first
\* advertisement a read timeout for each machine.
SettleBound ==
    LET downs == {MasterDown(i, AdvertInterval(i)) : i \in Inst}
    IN  (CHOOSE d \in downs : \A e \in downs : e <= d) + 2 * MinWait * Cardinality(Hosts)
=============================================================================
