------------------------------- MODULE MCBgp -------------------------------
(* Instances of Bgp for TLC: a peer without keepalives, one that asks for the *)
(* shortest hold time, and one that asks for more than ours.                  *)
EXTENDS Bgp

Holds == {0, 3, 12}
=============================================================================
