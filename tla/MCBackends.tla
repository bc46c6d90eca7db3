----------------------------- MODULE MCBackends -----------------------------
(* Instances of Backends for TLC: "s" is the steady backend. *)
EXTENDS Backends

\* x comes and goes, once with a duplicate.
TwoLists == {<<"s">>, <<"x", "s", "x">>, <<>>}
=============================================================================
