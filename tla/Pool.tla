-------------------------------- MODULE Pool --------------------------------
(* pool.rs: a VIP's backends and the round-robin choice among the healthy     *)
(* ones, as operators.  A backend object (an Arc<Backend>) is a record of its *)
(* address and the generation that tells it from earlier objects of the same *)
(* address; its health flag is kept by the modules that use the pool.        *)
EXTENDS Naturals, FiniteSets, Sequences, SequencesExt

\* Mutant: every member is a fresh object.
ExistingNever(cur, a, gen) == [addr |-> a, gen |-> gen[a]]

\* An address already in the pool keeps its object, another gets a fresh one of
\* the generation that gen has for it.
Existing(cur, a, gen) ==
    IF \E b \in ToSet(cur) : b.addr = a THEN CHOOSE b \in ToSet(cur) : b.addr = a
    ELSE [addr |-> a, gen |-> gen[a]]

\* Where an address occurs for the first time, and the k-th such place.
Firsts(addrs) == {i \in DOMAIN addrs : \A j \in 1..(i - 1) : addrs[j] # addrs[i]}
KthFirst(addrs, k) ==
    CHOOSE i \in Firsts(addrs) : Cardinality({j \in Firsts(addrs) : j < i}) = k - 1

\* Pool::set_addrs: the new member list, in order, duplicates dropped.
SetAddrs(cur, addrs, gen) ==
    [k \in 1..Cardinality(Firsts(addrs)) |-> Existing(cur, addrs[KthFirst(addrs, k)], gen)]

\* The slot pick looks at in its i-th try (counted from 0), of n slots, with the
\* counter at start; the counter is an unsigned integer of width many values.
Slot(start, i, n, width) == (((start + i) % width) % n) + 1

\* Mutant: the search goes on from the first slot.
PickFromFirst(h, start, width) == SelectInSeq(h, LAMBDA b : b)

\* Mutant: the search stops at the last slot instead of going round.
PickNoWrap(h, start, width) ==
    SelectInSubSeq(h, Slot(start, 0, Len(h), width), Len(h), LAMBDA b : b)

\* Pool::pick with the health flags h (not empty): the slot chosen, 0 for none.
Pick(h, start, width) ==
    LET n     == Len(h)
        tries == {i \in 0..(n - 1) : h[Slot(start, i, n, width)]}
    IN  IF tries = {} THEN 0
        ELSE Slot(start, CHOOSE i \in tries : \A j \in tries : i <= j, n, width)
=============================================================================
