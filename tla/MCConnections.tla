--------------------------- MODULE MCConnections ---------------------------
(* An instance of Connections for TLC.  Tasks share nothing but Front, which  *)
(* they only read: one that may come in by any listener stands for each.      *)
EXTENDS Connections

AnyDoor == [c \in Conns |-> {"http", "https", "l4"}]
=============================================================================
