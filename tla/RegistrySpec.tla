---------------------------- MODULE RegistrySpec ----------------------------
(***************************************************************************)
(* What the VIP API promises with a state_file, to one client at a time: a *)
(* map from names to specs that changes one name at a time, and a copy of  *)
(* it on disk that becomes the map at once, when the change is             *)
(* acknowledged, and never is anything else.  A start brings the copy      *)
(* back.                                                                   *)
(***************************************************************************)
CONSTANTS Names, Specs, NoSpec

VARIABLES
    up,        \* the process runs
    current,   \* per name: its spec, or NoSpec
    saved,     \* what the disk has
    open       \* a change is applied and not yet answered

vars == <<up, current, saved, open>>

Nothing == [n \in Names |-> NoSpec]

Init == up = FALSE /\ current = Nothing /\ saved = Nothing /\ open = FALSE

\* A VIP is created, replaced or removed.
Change(n, s) ==
    /\ up /\ ~open
    /\ current' = [current EXCEPT ![n] = s]
    /\ open' = TRUE
    /\ UNCHANGED <<up, saved>>

\* 200 or 201: applied and saved, in one step.
Acknowledge ==
    /\ open
    /\ saved' = current /\ open' = FALSE
    /\ UNCHANGED <<up, current>>

\* 500: applied, but not saved.
NotSaved ==
    /\ open
    /\ open' = FALSE
    /\ UNCHANGED <<up, current, saved>>

Stop ==
    /\ up
    /\ up' = FALSE /\ current' = Nothing /\ open' = FALSE
    /\ UNCHANGED saved

Start ==
    /\ ~up
    /\ up' = TRUE /\ current' = saved
    /\ UNCHANGED <<saved, open>>

Next ==
    \/ \E n \in Names, s \in Specs \cup {NoSpec} : Change(n, s)
    \/ Acknowledge \/ NotSaved \/ Stop \/ Start

Spec == Init /\ [][Next]_vars
=============================================================================
