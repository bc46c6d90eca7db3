----------------------------- MODULE MCRegistry -----------------------------
(* Instances of Registry for TLC: two or three names and a few specs. *)
EXTENDS Registry, TLC

S(l, v, ca) == [listen |-> l, ver |-> v, ca |-> ca, vrrp |-> v]
ListenA  == S("A", 1, FALSE)
ListenA2 == S("A", 2, TRUE)
ListenC  == S("C", 2, TRUE)
ListenB  == S("B", 1, FALSE)
ListenD  == S("D", 1, FALSE)
Unusable == S("bad", 1, FALSE)
ThreeSpecs == {ListenA, ListenA2, ListenB}
MovingSpecs == {ListenA, ListenC, ListenB, ListenD, Unusable}

Names2 == <<"default", "web">>
Names3 == <<"default", "dns", "web">>

PutReq(n, s) == [op |-> "put", name |-> n, spec |-> s]
DelReq(n)    == [op |-> "delete", name |-> n, spec |-> NoSpec]

\* What c1 may ask for next to the config file's VIP: moves and clashes of two
\* others, and changes of that one.
ApiRequests ==
    [c \in Clients |->
        {PutReq(n, s) : n \in Names \ {Default}, s \in Specs \ {ListenD}}
        \cup {PutReq(Default, ListenA)} \cup {DelReq(n) : n \in Names}]

\* Each client has its own VIP.
OwnName ==
    [c \in Clients |-> IF c = "c1" THEN {PutReq("default", ListenA), PutReq("default", ListenA2), DelReq("default")}
                       ELSE {PutReq("web", ListenB), DelReq("web")}]

\* No inode is special.
InodeSymmetry == Permutations(Inodes)

NoConfig == {NoSpec}
WithConfig == {ListenD}
=============================================================================
