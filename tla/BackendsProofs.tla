--------------------------- MODULE BackendsProofs ---------------------------
(***************************************************************************)
(* Proofs about Backends, for any addresses, backend lists, health specs,  *)
(* connections and bounds: no change of members or spec is slept through,  *)
(* only a check admits a backend, and one that passes every check and      *)
(* stays in the pool is served through every change.                       *)
(***************************************************************************)
EXTENDS Backends, Integers, OrderLemmas, FiniteSetTheorems, TLAPS

-----------------------------------------------------------------------------
(* Pool::set_addrs *)

\* The first occurrences are a finite set of positions.
LEMMA FirstsFinite ==
    ASSUME NEW S, NEW l \in Seq(S)
    PROVE  /\ Firsts(l) \subseteq 1..Len(l) /\ Firsts(l) \subseteq Nat
           /\ IsFiniteSet(Firsts(l)) /\ Cardinality(Firsts(l)) \in Nat
<1>1. Firsts(l) \subseteq 1..Len(l) /\ Len(l) \in Nat
  BY DEF Firsts
<1>2. IsFiniteSet(1..Len(l))
  BY <1>1, FS_Interval
<1>3. IsFiniteSet(Firsts(l))
  BY <1>1, <1>2, FS_Subset
<1> QED
  BY <1>1, <1>3, FS_CardinalityType

\* There is a k-th first occurrence for each k up to their number: were there numbers
\* without one, the greatest would have one, just before the next or as the last.
LEMMA KthExists ==
    ASSUME NEW S, NEW l \in Seq(S), NEW k \in 1..Cardinality(Firsts(l))
    PROVE  KthFirst(l, k) \in Firsts(l)
<1> DEFINE F == Firsts(l)
           N == Cardinality(F)
           Below(i) == {j \in F : j < i}
           T == {m \in 1..N : \A i \in F : Cardinality(Below(i)) # m - 1}
<1>1. F \subseteq 1..Len(l) /\ F \subseteq Nat /\ IsFiniteSet(F) /\ N \in Nat /\ Len(l) \in Nat
  BY FirstsFinite
<1>2. ASSUME NEW i \in F
      PROVE  IsFiniteSet(Below(i)) /\ Cardinality(Below(i)) \in Nat
  <2>1. Below(i) \subseteq F
    OBVIOUS
  <2> HIDE DEF Below, F
  <2> QED
    BY <1>1, <2>1, FS_Subset, FS_CardinalityType
<1>3. ASSUME NEW B \in SUBSET F, IsFiniteSet(B), B # {}, NEW p \in B, \A y \in B : y <= p,
             \A j \in F : j < p => j \in B
      PROVE  Cardinality(Below(p)) = Cardinality(B) - 1
  <2>1. Below(p) = B \ {p}
    <3>1. \A j \in B : j # p => j < p
      BY <1>1, <1>3
    <3> QED
      BY <1>1, <1>3, <3>1
  <2> HIDE DEF Below, F
  <2> QED
    BY <1>3, <2>1, FS_RemoveElement
<1>4. T = {}
  <2> SUFFICES ASSUME T # {} PROVE FALSE
    OBVIOUS
  <2>1. T \in SUBSET Nat /\ \A m \in T : m <= N
    BY <1>1
  <2>2. PICK g \in T : \A m \in T : m <= g
    <3> HIDE DEF T, N
    <3> QED
      BY <1>1, <2>1, GreatestOf
  <2>3. g \in 1..N
    BY <2>2
  <2>4. F # {}
    <3> HIDE DEF F
    <3> QED
      BY <1>1, <2>3, FS_EmptySet
  <2>5. CASE g = N
    <3>1. PICK p \in F : \A y \in F : y <= p
      <4> HIDE DEF F
      <4>1. F \in SUBSET Nat /\ \A x \in F : x <= Len(l)
        BY <1>1
      <4> QED
        BY <1>1, <2>4, <4>1, GreatestOf
    <3>2. Cardinality(Below(p)) = N - 1
      <4> HIDE DEF Below, F
      <4>1. F \in SUBSET F
        OBVIOUS
      <4> QED
        BY <1>1, <1>3, <2>4, <3>1, <4>1
    <3> QED
      BY <2>2, <2>5, <3>2
  <2>6. CASE g < N
    <3>1. PICK i \in F : Cardinality(Below(i)) = g
      <4>1. g + 1 \in 1..N /\ g + 1 \notin T /\ (g + 1) - 1 = g
        BY <1>1, <2>2, <2>3, <2>6
      <4> QED
        BY <4>1
    <3>2. Below(i) # {}
      <4> HIDE DEF Below
      <4> QED
        BY <1>2, <2>3, <3>1, FS_EmptySet
    <3>3. Below(i) \in SUBSET Nat /\ \A x \in Below(i) : x <= Len(l)
      BY <1>1
    <3>4. PICK p \in Below(i) : \A y \in Below(i) : y <= p
      <4> HIDE DEF Below
      <4> QED
        BY <1>1, <3>2, <3>3, GreatestOf
    <3>5. p \in F /\ \A j \in F : j < p => j \in Below(i)
      BY <1>1, <3>4
    <3>6. Cardinality(Below(p)) = g - 1
      <4>1. Below(i) \in SUBSET F
        OBVIOUS
      <4> HIDE DEF Below, F
      <4> QED
        BY <1>2, <1>3, <3>1, <3>2, <3>4, <3>5, <4>1
    <3> QED
      BY <2>2, <3>5, <3>6
  <2> QED
    BY <1>1, <2>3, <2>5, <2>6
<1>5. \E i \in F : Cardinality(Below(i)) = k - 1
  BY <1>4
<1> QED
  BY <1>5 DEF KthFirst

\* The object an address gets: the one it has, or a fresh one.
LEMMA ExistingFacts ==
    ASSUME NEW cur, NEW a, NEW gs
    PROVE  /\ Existing(cur, a, gs).addr = a
           /\ \/ Existing(cur, a, gs) \in ToSet(cur)
              \/ /\ Existing(cur, a, gs) = [addr |-> a, gen |-> gs[a]]
                 /\ \A b \in ToSet(cur) : b.addr # a
<1>1. CASE \E b \in ToSet(cur) : b.addr = a
  BY <1>1 DEF Existing
<1>2. CASE ~\E b \in ToSet(cur) : b.addr = a
  BY <1>2 DEF Existing
<1> QED
  BY <1>1, <1>2

\* set_addrs: a member per address of the list, each the object of its address.
LEMMA SetAddrsFacts ==
    ASSUME NEW cur, NEW l \in Seq(Addrs), NEW gs, NEW S,
           \A a \in Addrs : Existing(cur, a, gs) \in S
    PROVE  /\ SetAddrs(cur, l, gs) \in Seq(S)
           /\ \A b \in ToSet(SetAddrs(cur, l, gs)) :
                  \E a \in Addrs : b = Existing(cur, a, gs)
<1> DEFINE n == Cardinality(Firsts(l))
           A(k) == l[KthFirst(l, k)]
<1>1. n \in Nat
  BY FirstsFinite
<1>2. \A k \in 1..n : A(k) \in Addrs
  <2> SUFFICES ASSUME NEW k \in 1..n PROVE A(k) \in Addrs
    OBVIOUS
  <2>1. KthFirst(l, k) \in 1..Len(l)
    BY KthExists, FirstsFinite
  <2> QED
    BY <2>1
<1> HIDE DEF n, A
<1>3. SetAddrs(cur, l, gs) = [k \in 1..n |-> Existing(cur, A(k), gs)]
  BY DEF SetAddrs, n, A
<1>4. SetAddrs(cur, l, gs) \in Seq(S) /\ DOMAIN SetAddrs(cur, l, gs) = 1..n
  BY <1>1, <1>2, <1>3
<1>5. \A b \in ToSet(SetAddrs(cur, l, gs)) : \E k \in 1..n : b = Existing(cur, A(k), gs)
  BY <1>3, <1>4 DEF ToSet
<1> QED
  BY <1>2, <1>4, <1>5

-----------------------------------------------------------------------------
(* Types. *)

Verdicts == Specs \cup {NoSpec}
ConnTasks == [pc : {"idle", "scan", "connect", "refused"}, start : Nat, i : Nat,
              sure : BOOLEAN]

\* The pool and its objects: an address has had at most one object more than PUTs.
PoolType ==
    /\ members \in Seq(Objects) /\ todo \in Seq(Objects)
    /\ gen \in [Addrs -> Nat] /\ puts \in 0..MaxPuts
    /\ \A a \in Addrs : gen[a] <= puts + 1
    /\ ok \in [Objects -> BOOLEAN] /\ probed \in [Objects -> Verdicts]

\* The health loop: while it works it has a spec, while it probes it has a backend.
LoopType ==
    /\ spec \in Specs /\ hspec \in Verdicts /\ newSpec \in Verdicts
    /\ hpc \in {"top", "list", "probe", "store", "sleep"}
    /\ put \in {"idle", "spec"} /\ (put = "spec" => newSpec \in Specs)
    /\ verdict \in BOOLEAN
    /\ hpc \in {"list", "probe", "store"} => hspec \in Specs
    /\ hpc \in {"probe", "store"} => todo # <<>>

\* Connections and the counter.
ConnType == conn \in [Conns -> ConnTasks] /\ next \in 0..(Width - 1)

TypeInv == PoolType /\ LoopType /\ ConnType

\* One object per address, which is what makes "the backend stays" mean its object.
UniqueInv == \A b, d \in ToSet(members) : b.addr = d.addr => b = d

\* set_addrs on a well-typed pool.
LEMMA SetAddrsType ==
    ASSUME NEW cur \in Seq(Objects), NEW l \in Lists, NEW gs \in [Addrs -> Nat],
           \A a \in Addrs : gs[a] <= MaxPuts
    PROVE  /\ SetAddrs(cur, l, gs) \in Seq(Objects)
           /\ \A b \in ToSet(SetAddrs(cur, l, gs)) : b = Existing(cur, b.addr, gs)
<1>1. l \in Seq(Addrs) /\ MaxPuts \in Nat
  BY BackendsAssumption
<1>2. \A a \in Addrs : Existing(cur, a, gs) \in Objects
  <2> SUFFICES ASSUME NEW a \in Addrs PROVE Existing(cur, a, gs) \in Objects
    OBVIOUS
  <2>1. ToSet(cur) \subseteq Objects
    BY DEF ToSet
  <2>2. [addr |-> a, gen |-> gs[a]] \in Objects
    BY <1>1 DEF Objects
  <2> QED
    BY <2>1, <2>2, ExistingFacts
<1>3. \A b \in ToSet(SetAddrs(cur, l, gs)) : \E a \in Addrs : b = Existing(cur, a, gs)
  BY <1>1, <1>2, SetAddrsFacts
<1>4. \A a \in Addrs : Existing(cur, a, gs).addr = a
  BY ExistingFacts
<1>5. SetAddrs(cur, l, gs) \in Seq(Objects)
  BY <1>1, <1>2, SetAddrsFacts
<1> QED
  BY <1>3, <1>4, <1>5

\* The objects still to probe are the next one and those after it.
LEMMA HeadAndTail ==
    ASSUME NEW s \in Seq(Objects), s # <<>>
    PROVE  /\ Head(s) \in Objects /\ Tail(s) \in Seq(Objects)
           /\ \A b \in ToSet(s) : b = Head(s) \/ b \in ToSet(Tail(s))
           /\ Head(s) \in ToSet(s) /\ ToSet(Tail(s)) \subseteq ToSet(s)
<1>1. Head(s) \in Objects /\ Tail(s) \in Seq(Objects) /\ Head(s) = s[1] /\ 1 \in DOMAIN s
  OBVIOUS
<1>2. ASSUME NEW k \in DOMAIN s PROVE s[k] = s[1] \/ s[k] \in ToSet(Tail(s))
  <2>1. CASE k # 1
    <3>1. k - 1 \in DOMAIN Tail(s) /\ Tail(s)[k - 1] = s[k]
      BY <2>1
    <3> QED
      BY <3>1 DEF ToSet
  <2> QED
    BY <2>1
<1>3. ASSUME NEW k \in DOMAIN Tail(s) PROVE Tail(s)[k] \in ToSet(s)
  <2>1. k + 1 \in DOMAIN s /\ Tail(s)[k] = s[k + 1]
    OBVIOUS
  <2> QED
    BY <2>1 DEF ToSet
<1> QED
  BY <1>1, <1>2, <1>3 DEF ToSet

\* Every conjunct of the initial state.
LEMMA InitType == Init => TypeInv /\ UniqueInv
<1> SUFFICES ASSUME Init PROVE TypeInv /\ UniqueInv
  OBVIOUS
<1>1. MaxPuts \in Nat /\ Width \in Nat \ {0}
  BY BackendsAssumption
<1>2. PICK l \in Lists : members = SetAddrs(<<>>, l, [a \in Addrs |-> 0])
  BY DEF Init
<1>3. /\ members \in Seq(Objects)
      /\ \A b \in ToSet(members) : b = Existing(<<>>, b.addr, [a \in Addrs |-> 0])
  <2>1. <<>> \in Seq(Objects) /\ [a \in Addrs |-> 0] \in [Addrs -> Nat]
        /\ \A a \in Addrs : [x \in Addrs |-> 0][a] <= MaxPuts
    BY <1>1
  <2> QED
    BY <1>2, <2>1, SetAddrsType
<1>4. UniqueInv
  BY <1>3 DEF UniqueInv
<1>5. gen \in [Addrs -> Nat] /\ \A a \in Addrs : gen[a] <= 1
  <2>1. gen = [a \in Addrs |-> IF \E b \in ToSet(members) : b.addr = a THEN 1 ELSE 0]
    BY DEF Init
  <2> QED
    BY <2>1
<1>6. ok \in [Objects -> BOOLEAN] /\ probed \in [Objects -> Verdicts]
  BY DEF Init, NewBackend, Verdicts
<1>7. PoolType
  <2>1. todo = <<>> /\ puts = 0
    BY DEF Init
  <2>2. puts \in 0..MaxPuts /\ \A a \in Addrs : gen[a] <= puts + 1
    BY <1>1, <1>5, <2>1
  <2> QED
    BY <1>3, <1>5, <1>6, <2>1, <2>2 DEF PoolType
<1>8. LoopType
  BY DEF Init, LoopType, Verdicts
<1>9. ConnType
  BY <1>1 DEF Init, ConnType, ConnTasks, NoConn
<1> QED
  BY <1>4, <1>7, <1>8, <1>9 DEF TypeInv

\* A PUT's first half: new members, which are the old objects or fresh ones.
LEMMA PutAddrsType ==
    ASSUME TypeInv, UniqueInv, NEW l \in Lists, NEW s \in Specs, PutAddrs(l, s)
    PROVE  /\ TypeInv' /\ UniqueInv'
           /\ \A b \in ToSet(members') : b = Existing(members, b.addr, gen)
<1>1. MaxPuts \in Nat
  BY BackendsAssumption
<1>2. \A a \in Addrs : gen[a] \in Nat /\ gen[a] <= puts + 1 /\ gen[a] <= MaxPuts
  BY <1>1 DEF TypeInv, PoolType, PutAddrs
<1>3. /\ members' \in Seq(Objects)
      /\ \A b \in ToSet(members') : b = Existing(members, b.addr, gen)
  <2>1. members' = SetAddrs(members, l, gen)
    BY DEF PutAddrs
  <2>2. members \in Seq(Objects) /\ gen \in [Addrs -> Nat]
    BY DEF TypeInv, PoolType
  <2>3. /\ SetAddrs(members, l, gen) \in Seq(Objects)
        /\ \A b \in ToSet(SetAddrs(members, l, gen)) : b = Existing(members, b.addr, gen)
    BY <1>2, <2>2, SetAddrsType
  <2> QED
    BY <2>1, <2>3
<1>4. UniqueInv'
  BY <1>3 DEF UniqueInv
<1>5. puts' \in 0..MaxPuts /\ puts' = puts + 1 /\ puts \in Nat
  BY <1>1 DEF TypeInv, PoolType, PutAddrs
<1>6. gen' \in [Addrs -> Nat] /\ \A a \in Addrs : gen'[a] <= puts' + 1
  <2>1. gen' = [a \in Addrs |->
                  IF [addr |-> a, gen |-> gen[a]] \in ToSet(members') THEN gen[a] + 1
                                                                     ELSE gen[a]]
    BY DEF PutAddrs
  <2>2. \A a \in Addrs : gen'[a] \in {gen[a], gen[a] + 1}
    BY <2>1
  <2>3. \A a \in Addrs : gen'[a] \in Nat /\ gen'[a] <= puts' + 1
    BY <1>2, <1>5, <2>2
  <2>4. gen' = [a \in Addrs |-> gen'[a]]
    BY <2>1
  <2> QED
    BY <2>3, <2>4
<1>7. PoolType'
  BY <1>3, <1>5, <1>6 DEF TypeInv, PoolType, PutAddrs, loop
<1>8. LoopType' /\ ConnType'
  BY DEF TypeInv, LoopType, ConnType, PutAddrs, loop, Verdicts
<1> QED
  BY <1>3, <1>4, <1>7, <1>8 DEF TypeInv

\* The steps of the health loop, the connections and the other updates.
LEMMA LoopTypes ==
    ASSUME TypeInv, UniqueInv, PutSpec \/ PutSpecFails \/ HealthLoop
    PROVE  TypeInv' /\ UniqueInv'
<1> USE DEF TypeInv, UniqueInv, ConnType, Verdicts, pool, loop
<1>1. CASE PutSpec
  BY <1>1 DEF PutSpec, PoolType, LoopType
<1>2. CASE PutSpecFails
  BY <1>2 DEF PutSpecFails, PoolType, LoopType
<1>3. CASE RoundSpec
  BY <1>3 DEF RoundSpec, PoolType, LoopType
<1>4. CASE RoundList
  BY <1>4 DEF RoundList, PoolType, LoopType
<1>5. CASE ProbeAnswered
  BY <1>5 DEF ProbeAnswered, PoolType, LoopType
<1>6. CASE ProbeStored
  <2>1. todo # <<>> /\ todo \in Seq(Objects) /\ hspec \in Specs
    BY <1>6 DEF ProbeStored, LoopType, PoolType
  <2>2. Head(todo) \in Objects /\ Tail(todo) \in Seq(Objects)
    BY <2>1, HeadAndTail
  <2>3. PoolType'
    <3>1. verdict \in BOOLEAN
      BY DEF LoopType
    <3>2. ok' = [ok EXCEPT ![Head(todo)] = verdict]
          /\ probed' = [probed EXCEPT ![Head(todo)] = hspec]
      BY <1>6 DEF ProbeStored, Stored
    <3>3. ok' \in [Objects -> BOOLEAN] /\ probed' \in [Objects -> Verdicts]
      BY <2>1, <3>1, <3>2 DEF PoolType
    <3> QED
      BY <1>6, <2>2, <3>3 DEF ProbeStored, PoolType
  <2>4. LoopType'
    BY <1>6, <2>1, <2>2 DEF ProbeStored, LoopType
  <2> QED
    BY <1>6, <2>3, <2>4 DEF ProbeStored
<1>7. CASE Woken
  BY <1>7 DEF Woken, PoolType, LoopType
<1>8. CASE IntervalOver
  BY <1>8 DEF IntervalOver, PoolType, LoopType
<1> QED
  BY <1>1, <1>2, <1>3, <1>4, <1>5, <1>6, <1>7, <1>8 DEF HealthLoop

LEMMA ConnTypes ==
    ASSUME TypeInv, UniqueInv, NEW c \in Conns, Accept(c) \/ Scan(c) \/ End(c)
    PROVE  TypeInv' /\ UniqueInv'
<1>1. CASE Accept(c)
  <2>1. ConnType'
    <3>1. SteadyOk \in BOOLEAN /\ Bump(next) \in 0..(Width - 1)
      BY BackendsAssumption DEF SteadyOk, Bump, TypeInv, ConnType
    <3>2. PICK u \in BOOLEAN : u = SteadyOk
      BY <3>1
    <3>3. conn \in [Conns -> ConnTasks] /\ next \in 0..(Width - 1)
          /\ next' \in {next, Bump(next)}
      BY <1>1 DEF Accept, TypeInv, ConnType
    <3>4. [pc |-> "scan", start |-> next, i |-> 0, sure |-> u] \in ConnTasks
      BY <3>3 DEF ConnTasks
    <3>5. [conn[c] EXCEPT !.pc = "refused"] \in ConnTasks
      BY <3>3 DEF ConnTasks
    <3>6. PICK v \in ConnTasks : conn' = [conn EXCEPT ![c] = v]
      BY <1>1, <3>2, <3>4, <3>5 DEF Accept
    <3> QED
      BY <3>1, <3>3, <3>6 DEF ConnType
  <2> QED
    BY <1>1, <2>1 DEF Accept, TypeInv, UniqueInv, PoolType, LoopType, pool, loop
<1>2. CASE Scan(c)
  <2>1. ConnType'
    <3>1. conn \in [Conns -> ConnTasks] /\ next \in 0..(Width - 1) /\ next' = next
      BY <1>2 DEF Scan, TypeInv, ConnType
    <3>2. /\ [conn[c] EXCEPT !.pc = "connect", !.start = 0, !.i = 0] \in ConnTasks
          /\ [conn[c] EXCEPT !.pc = "refused", !.start = 0, !.i = 0] \in ConnTasks
      BY <3>1 DEF ConnTasks
    <3>3. [conn[c] EXCEPT !.i = @ + 1] \in ConnTasks
      BY <3>1 DEF ConnTasks
    <3>4. Looked(conn[c], ok[SeenBy(c)], Len(members)) \in ConnTasks
      <4>1. CASE ok[SeenBy(c)]
        BY <3>2, <4>1 DEF Looked
      <4>2. CASE ~ok[SeenBy(c)]
        BY <3>2, <3>3, <4>2 DEF Looked
      <4> QED
        BY <4>1, <4>2
    <3> QED
      BY <1>2, <3>1, <3>4 DEF Scan, ConnType
  <2> QED
    BY <1>2, <2>1 DEF Scan, TypeInv, UniqueInv, PoolType, LoopType, pool, loop
<1>3. CASE End(c)
  <2>1. ConnType'
    BY <1>3 DEF End, TypeInv, ConnType, ConnTasks, NoConn
  <2> QED
    BY <1>3, <2>1 DEF End, TypeInv, UniqueInv, PoolType, LoopType, pool, loop
<1> QED
  BY <1>1, <1>2, <1>3

LEMMA FlipType ==
    ASSUME TypeInv, UniqueInv, NEW a \in Addrs, NEW s \in Specs, Flip(a, s)
    PROVE  TypeInv' /\ UniqueInv'
  BY DEF Flip, TypeInv, UniqueInv, PoolType, LoopType, ConnType, pool, loop

LEMMA StutterType ==
    ASSUME TypeInv, UniqueInv, UNCHANGED vars
    PROVE  TypeInv' /\ UniqueInv'
  BY DEF vars, TypeInv, UniqueInv, PoolType, LoopType, ConnType, pool, loop

\* The pool, the health loop and the connections are well typed, and the pool
\* never has two objects of one address, for any lists with any duplicates
\* (pool.rs set_addrs).
THEOREM TypeCorrect == Spec => [](TypeInv /\ UniqueInv)
<1>1. TypeInv /\ UniqueInv /\ [Next]_vars => (TypeInv /\ UniqueInv)'
  <2> SUFFICES ASSUME TypeInv, UniqueInv, [Next]_vars PROVE (TypeInv /\ UniqueInv)'
    OBVIOUS
  <2> QED
    BY PutAddrsType, LoopTypes, ConnTypes, FlipType, StutterType DEF Next
<1> QED
  BY InitType, <1>1, PTL DEF Spec

-----------------------------------------------------------------------------
(* Only a check admits. *)

\* An object that is up was judged, in or out of the pool.
CheckedInv == \A b \in Objects : ok[b] => probed[b] # NoSpec

\* A member gets traffic only after a check of this very object (pool.rs set_addrs
\* keeps or makes objects, health.rs run judges them), however updates and the
\* loop interleave.
THEOREM OnlyACheckAdmits == Spec => []AdmittedByCheck
<1>1. Init => CheckedInv
  BY DEF Init, CheckedInv, NewBackend
<1>2. TypeInv /\ CheckedInv /\ [Next]_vars => CheckedInv'
  <2> SUFFICES ASSUME TypeInv, CheckedInv, [Next]_vars PROVE CheckedInv'
    OBVIOUS
  <2>1. CASE ProbeStored
    <3>1. todo # <<>> /\ todo \in Seq(Objects) /\ hspec \in Specs
      BY <2>1 DEF ProbeStored, TypeInv, LoopType, PoolType
    <3>2. Head(todo) \in Objects /\ hspec # NoSpec
      BY <3>1, HeadAndTail, BackendsAssumption
    <3>3. /\ ok' = [ok EXCEPT ![Head(todo)] = verdict]
          /\ probed' = [probed EXCEPT ![Head(todo)] = hspec]
      BY <2>1 DEF ProbeStored, Stored
    <3>4. ASSUME NEW b \in Objects, ok'[b] PROVE probed'[b] # NoSpec
      BY <3>2, <3>3, <3>4 DEF CheckedInv, TypeInv, PoolType
    <3> QED
      BY <3>4 DEF CheckedInv
  <2>2. CASE UNCHANGED <<ok, probed>>
    BY <2>2 DEF CheckedInv
  <2>3. ProbeStored \/ UNCHANGED <<ok, probed>>
    BY DEF Next, vars, HealthLoop, PutAddrs, PutSpec, PutSpecFails, RoundSpec, RoundList,
           ProbeAnswered, Woken, IntervalOver, Accept, Scan, End, Flip
  <2> QED
    BY <2>1, <2>2, <2>3
<1>3. TypeInv /\ CheckedInv => AdmittedByCheck
  BY DEF TypeInv, PoolType, CheckedInv, AdmittedByCheck, ToSet
<1> QED
  BY <1>1, <1>2, <1>3, TypeCorrect, PTL DEF Spec

-----------------------------------------------------------------------------
(* No update is slept through. *)

\* Nothing happened to spec or members that the loop has not begun to look at, or
\* will not look at when it sleeps.
Quiet == ~permit /\ put = "idle" /\ ~halfway

\* While quiet the loop works with the spec in force, and each member is judged
\* under it or still to be probed.
RoundInv ==
    Quiet => /\ hpc \in {"list", "probe", "store"} => hspec = spec
             /\ hpc \in {"probe", "store"} =>
                    \A b \in ToSet(members) : probed[b] = spec \/ b \in ToSet(todo)
             /\ hpc = "sleep" => \A b \in ToSet(members) : probed[b] = spec

\* A sleeping loop with no wake-up stored has judged every member under the spec
\* in force (health.rs run, vips.rs put), unless a PUT is under way or failed
\* between its two updates.
THEOREM NothingSleptThrough == Spec => []JudgedBeforeSleep
<1>1. Init => RoundInv
  BY DEF Init, RoundInv
<1>2. TypeInv /\ RoundInv /\ [Next]_vars => RoundInv'
  <2> SUFFICES ASSUME TypeInv, RoundInv, [Next]_vars, Quiet' PROVE RoundInv'
    BY DEF RoundInv
  <2> USE DEF Quiet, pool, loop
  <2>1. CASE \E l \in Lists, s \in Specs : PutAddrs(l, s)
    BY <2>1 DEF PutAddrs
  <2>2. CASE PutSpec \/ PutSpecFails
    BY <2>2 DEF PutSpec, PutSpecFails
  <2>3. CASE RoundSpec
    BY <2>3 DEF RoundSpec, RoundInv
  <2>4. CASE RoundList
    <3>1. members = <<>> => ToSet(members) = {}
      BY DEF ToSet
    <3> QED
      BY <2>4, <3>1 DEF RoundList, RoundInv
  <2>5. CASE ProbeAnswered
    BY <2>5 DEF ProbeAnswered, RoundInv
  <2>6. CASE ProbeStored
    <3>1. todo # <<>> /\ todo \in Seq(Objects) /\ Quiet /\ hspec = spec
      BY <2>6 DEF ProbeStored, TypeInv, LoopType, PoolType, RoundInv
    <3>2. /\ Head(todo) \in Objects
          /\ \A b \in ToSet(todo) : b = Head(todo) \/ b \in ToSet(Tail(todo))
      BY <3>1, HeadAndTail
    <3>3. ToSet(members) \subseteq Objects
      BY DEF TypeInv, PoolType, ToSet
    <3>4. members' = members /\ todo' = Tail(todo) /\ spec' = spec
          /\ probed' = [probed EXCEPT ![Head(todo)] = hspec]
      BY <2>6 DEF ProbeStored
    <3>5. \A b \in ToSet(members) : probed[b] = spec \/ b \in ToSet(todo)
      BY <2>6, <3>1 DEF ProbeStored, RoundInv
    <3>6. \A b \in ToSet(members') : probed'[b] = spec' \/ b \in ToSet(todo')
      BY <3>1, <3>2, <3>3, <3>4, <3>5 DEF TypeInv, PoolType
    <3>7. todo' = <<>> => ToSet(todo') = {}
      BY DEF ToSet
    <3> QED
      BY <2>6, <3>1, <3>6, <3>7 DEF ProbeStored, RoundInv
  <2>7. CASE Woken \/ IntervalOver
    BY <2>7 DEF Woken, IntervalOver, RoundInv
  <2>8. CASE UNCHANGED <<members, todo, spec, hspec, hpc, probed, permit, put, halfway>>
    BY <2>8 DEF RoundInv
  <2>9. ASSUME \/ \E c \in Conns : Accept(c) \/ Scan(c) \/ End(c)
               \/ \E a \in Addrs, s \in Specs : Flip(a, s)
               \/ UNCHANGED vars
        PROVE  UNCHANGED <<members, todo, spec, hspec, hpc, probed, permit, put, halfway>>
    BY <2>9 DEF Accept, Scan, End, Flip, vars
  <2> QED
    BY <2>1, <2>2, <2>3, <2>4, <2>5, <2>6, <2>7, <2>8, <2>9 DEF Next, HealthLoop
<1>3. RoundInv => JudgedBeforeSleep
  BY DEF RoundInv, Quiet, JudgedBeforeSleep
<1> QED
  BY <1>1, <1>2, <1>3, TypeCorrect, PTL DEF Spec

-----------------------------------------------------------------------------
(* A steady backend. *)

\* It passes every check, also the one whose answer is still to be stored.
SteadyInv ==
    /\ \A s \in Specs : <<Steady, s>> \in good
    /\ hpc = "store" /\ Head(todo).addr = Steady => verdict

LEMMA InitSteady == Init => SteadyInv
<1> SUFFICES ASSUME Init PROVE SteadyInv
  OBVIOUS
<1>1. {Steady} \X Specs \subseteq good /\ hpc = "top"
  BY DEF Init
<1> QED
  BY <1>1 DEF SteadyInv

LEMMA SteadyStep ==
    ASSUME TypeInv, SteadyInv, [Next]_vars
    PROVE  SteadyInv'
<1> USE DEF pool, loop
<1>1. CASE ProbeAnswered
  BY <1>1 DEF ProbeAnswered, SteadyInv, TypeInv, LoopType
<1>2. CASE \E a \in Addrs, s \in Specs : Flip(a, s)
  BY <1>2 DEF Flip, SteadyInv
<1>3. CASE RoundSpec \/ RoundList \/ ProbeStored \/ Woken \/ IntervalOver
  BY <1>3 DEF RoundSpec, RoundList, ProbeStored, Woken, IntervalOver, SteadyInv
<1>4. CASE UNCHANGED <<loop, good>>
  BY <1>4 DEF SteadyInv
<1>5. ASSUME \/ \E l \in Lists, s \in Specs : PutAddrs(l, s)
             \/ PutSpec \/ PutSpecFails
             \/ \E c \in Conns : Accept(c) \/ Scan(c) \/ End(c)
             \/ UNCHANGED vars
      PROVE  UNCHANGED <<loop, good>>
  BY <1>5 DEF PutAddrs, PutSpec, PutSpecFails, Accept, Scan, End, vars
<1> QED
  BY <1>1, <1>2, <1>3, <1>4, <1>5 DEF Next, HealthLoop

\* No step takes the flag of a steady object away.
LEMMA FlagStays ==
    ASSUME TypeInv, SteadyInv, [Next]_vars, NEW b \in Objects, b.addr = Steady, ok[b]
    PROVE  ok'[b]
<1>1. CASE ProbeStored
  <2>1. todo # <<>> /\ todo \in Seq(Objects)
    BY <1>1 DEF ProbeStored, TypeInv, LoopType, PoolType
  <2>2. Head(todo) \in Objects /\ (Head(todo) = b => verdict)
    BY <1>1, <2>1, HeadAndTail DEF ProbeStored, SteadyInv
  <2>3. ok' = [ok EXCEPT ![Head(todo)] = verdict]
    BY <1>1 DEF ProbeStored, Stored
  <2> QED
    BY <2>2, <2>3 DEF TypeInv, PoolType
<1>2. ProbeStored \/ UNCHANGED ok
  BY DEF Next, vars, HealthLoop, PutAddrs, PutSpec, PutSpecFails, RoundSpec, RoundList,
         ProbeAnswered, Woken, IntervalOver, Accept, Scan, End, Flip
<1> QED
  BY <1>1, <1>2

\* Only a PUT's first half replaces the members, and never during a scan.
LEMMA MembersStay ==
    ASSUME [Next]_vars
    PROVE  \/ members' = members
           \/ ~Scanning /\ ok' = ok /\ \E l \in Lists, s \in Specs : PutAddrs(l, s)
<1> USE DEF pool
<1>1. CASE \E l \in Lists, s \in Specs : PutAddrs(l, s)
  BY <1>1 DEF PutAddrs
<1>2. ASSUME \/ PutSpec \/ PutSpecFails \/ HealthLoop
             \/ \E c \in Conns : Accept(c) \/ Scan(c) \/ End(c)
             \/ \E a \in Addrs, s \in Specs : Flip(a, s)
             \/ UNCHANGED vars
      PROVE  members' = members
  BY <1>2 DEF vars, HealthLoop, PutSpec, PutSpecFails, RoundSpec, RoundList,
              ProbeAnswered, ProbeStored, Woken, IntervalOver, Accept, Scan, End, Flip
<1> QED
  BY <1>1, <1>2 DEF Next

\* A steady backend stays admitted over a step that keeps it.
LEMMA SteadyKept ==
    ASSUME TypeInv, UniqueInv, SteadyInv, [Next]_vars, SteadyOk,
           \E b \in ToSet(members') : b.addr = Steady
    PROVE  SteadyOk'
<1>1. PICK b \in ToSet(members) : b.addr = Steady /\ ok[b]
  BY DEF SteadyOk
<1>2. b \in Objects
  BY DEF TypeInv, PoolType, ToSet
<1>3. ok'[b]
  BY <1>1, <1>2, FlagStays
<1>4. b \in ToSet(members')
  <2>1. CASE members' = members
    BY <2>1
  <2>2. ASSUME NEW l \in Lists, NEW s \in Specs, PutAddrs(l, s) PROVE b \in ToSet(members')
    <3>1. PICK d \in ToSet(members') : d.addr = Steady
      OBVIOUS
    <3>2. d = Existing(members, d.addr, gen)
      BY <2>2, PutAddrsType
    <3>3. d \in ToSet(members)
      BY <1>1, <3>1, <3>2, ExistingFacts
    <3>4. d = b
      BY <1>1, <3>1, <3>3 DEF UniqueInv
    <3> QED
      BY <3>1, <3>4
  <2> QED
    BY <2>1, <2>2, MembersStay
<1> QED
  BY <1>1, <1>3, <1>4 DEF SteadyOk

\* Whatever a PUT changes (vips.rs put, pool.rs set_addrs) and however the health
\* loop interleaves with it, a steady backend that is admitted and stays in the
\* list stays admitted.
THEOREM SteadyStaysAdmitted == Spec => SteadyStays
<1>1. TypeInv /\ UniqueInv /\ SteadyInv /\ [Next]_vars =>
        [SteadyOk /\ (\E b \in ToSet(members') : b.addr = Steady) => SteadyOk']_vars
  BY SteadyKept
<1>2. TypeInv /\ SteadyInv /\ [Next]_vars => SteadyInv'
  BY SteadyStep
<1> QED
  BY <1>1, <1>2, InitSteady, TypeCorrect, PTL DEF Spec, SteadyStays

-----------------------------------------------------------------------------
(* Pool::pick *)

LEMMA Remainder ==
    ASSUME NEW n \in Nat \ {0}, NEW q \in Int, NEW k \in 0..(n - 1)
    PROVE  (q * n + k) % n = k
  OBVIOUS

LEMMA Quotient ==
    ASSUME NEW n \in Nat \ {0}, NEW a \in Int
    PROVE  \E q \in Int, k \in 0..(n - 1) : a = q * n + k
<1>1. a = (a \div n) * n + (a % n) /\ a % n \in 0..(n - 1) /\ a \div n \in Int
  OBVIOUS
<1> QED
  BY <1>1

\* From start on the counter does not wrap within n tries, or wraps at a multiple of
\* n: with 2^64 values, every pool whose size is a power of two, and every other but
\* for the n - 1 counters before the wrap.
FullTurn(start, n, w) == w % n = 0 \/ start + n <= w

\* Then the n tries see every slot.
LEMMA EverySlot ==
    \A w \in Nat \ {0}, n \in Nat \ {0} : \A start \in 0..(w - 1), s \in 1..n :
        FullTurn(start, n, w) => \E i \in 0..(n - 1) : Slot(start, i, n, w) = s
<1> SUFFICES ASSUME NEW w \in Nat \ {0}, NEW n \in Nat \ {0}, NEW start \in 0..(w - 1),
                    NEW s \in 1..n, FullTurn(start, n, w)
             PROVE  \E i \in 0..(n - 1) : Slot(start, i, n, w) = s
  OBVIOUS
<1>1. PICK q \in Int, i \in 0..(n - 1) : s - 1 - start = q * n + i
  <2>1. s - 1 - start \in Int
    OBVIOUS
  <2> QED
    BY <2>1, Quotient, Zenon
<1>2. start + i = (-q) * n + (s - 1) /\ s - 1 \in 0..(n - 1) /\ -q \in Int
  BY <1>1
<1>3. (start + i) % n = s - 1
  BY <1>2, Remainder
<1>4. ((start + i) % w) % n = s - 1
  <2>1. CASE start + i < w
    BY <1>3, <2>1
  <2>2. CASE w <= start + i
    <3>1. w % n = 0
      BY <2>2 DEF FullTurn
    <3>2. PICK m \in Int, k \in 0..(n - 1) : w = m * n + k
      <4>1. w \in Int
        OBVIOUS
      <4> QED
        BY <4>1, Quotient, Zenon
    <3>3. k = 0
      BY <3>1, <3>2, Remainder
    <3>4. w = m * n
      BY <3>2, <3>3
    <3>5. n <= w
      <4>1. CASE m <= 0
        BY <3>4, <4>1
      <4>2. CASE m >= 1
        <5>1. m * n = (m - 1) * n + n /\ (m - 1) * n >= 0
          BY <4>2
        <5> QED
          BY <3>4, <5>1
      <4> QED
        BY <4>1, <4>2
    <3>6. start + i - w \in 0..(w - 1)
      BY <2>2, <3>5
    <3>7. start + i = 1 * w + (start + i - w)
      OBVIOUS
    <3>8. (start + i) % w = start + i - w
      BY <3>6, <3>7, Remainder
    <3>9. start + i - w = (-q - m) * n + (s - 1)
      <4>1. (-q - m) * n = (-q) * n - m * n
        OBVIOUS
      <4> QED
        BY <1>2, <3>4, <4>1
    <3>10. (start + i - w) % n = s - 1
      <4>1. -q - m \in Int
        OBVIOUS
      <4>2. ((-q - m) * n + (s - 1)) % n = s - 1
        BY <1>2, <4>1, Remainder, Zenon
      <4> QED
        BY <3>9, <4>2
    <3> QED
      BY <3>8, <3>10
  <2> QED
    BY <2>1, <2>2
<1>5. Slot(start, i, n, w) = s
  BY <1>4 DEF Slot
<1> QED
  BY <1>5

\* pick fails only when every member is down, gives one that is up, and as many picks
\* in a row as there are members (the counter moves by one each) give every member
\* that is up, for a pool of any size and wherever the counter stands, but for the
\* wrap (pool.rs pick: "None when all are down").
THEOREM PickIsFair ==
    ASSUME NEW h \in Seq(BOOLEAN), NEW w \in Nat \ {0}, NEW start \in 0..(w - 1),
           h # <<>>, FullTurn(start, Len(h), w)
    PROVE  /\ (\E k \in DOMAIN h : h[k]) =>
                 Pick(h, start, w) \in DOMAIN h /\ h[Pick(h, start, w)]
           /\ (\A k \in DOMAIN h : ~h[k]) => Pick(h, start, w) = 0
           /\ \A k \in DOMAIN h : h[k] =>
                 \E p \in 0..(Len(h) - 1) : Pick(h, (start + p) % w, w) = k
<1> DEFINE n == Len(h)
           Tries(s) == {i \in 0..(n - 1) : h[Slot(s, i, n, w)]}
           First(s) == CHOOSE i \in Tries(s) : \A j \in Tries(s) : i <= j
<1>1. n \in Nat \ {0} /\ DOMAIN h = 1..n
  OBVIOUS
<1>2. ASSUME NEW s \in Nat, NEW i \in 0..(n - 1) PROVE Slot(s, i, n, w) \in DOMAIN h
  <2>1. (s + i) % w \in Nat
    OBVIOUS
  <2>2. ((s + i) % w) % n \in 0..(n - 1)
    BY <1>1, <2>1
  <2> QED
    BY <1>1, <2>2 DEF Slot
<1>3. ASSUME NEW k \in DOMAIN h PROVE \E i \in 0..(n - 1) : Slot(start, i, n, w) = k
  <2>1. k \in 1..n /\ n \in Nat \ {0}
    BY <1>1
  <2>2. FullTurn(start, n, w)
    OBVIOUS
  <2> HIDE DEF n
  <2> QED
    BY <2>1, <2>2, EverySlot
<1>4. ASSUME NEW s \in Nat, Tries(s) # {}
      PROVE  First(s) \in Tries(s) /\ \A j \in Tries(s) : First(s) <= j
  <2>1. Tries(s) \in SUBSET Nat
    BY <1>1
  <2>2. \E i \in Tries(s) : \A j \in Tries(s) : i <= j
    <3> HIDE DEF Tries
    <3> QED
      BY <1>4, <2>1, LeastOf
  <2> HIDE DEF Tries
  <2> QED
    BY <2>2
<1>5. ASSUME NEW s \in Nat
      PROVE  Pick(h, s, w) = IF Tries(s) = {} THEN 0 ELSE Slot(s, First(s), n, w)
  BY DEF Pick
<1>6. start \in Nat
  OBVIOUS
<1>7. ASSUME NEW k \in DOMAIN h, h[k]
      PROVE  Pick(h, start, w) \in DOMAIN h /\ h[Pick(h, start, w)]
  <2>1. PICK i \in 0..(n - 1) : Slot(start, i, n, w) = k
    BY <1>3
  <2>2. Tries(start) # {}
    BY <1>7, <2>1
  <2>3. First(start) \in Tries(start)
    <3> HIDE DEF Tries, First
    <3> QED
      BY <1>4, <1>6, <2>2
  <2>4. Pick(h, start, w) = Slot(start, First(start), n, w)
    <3> HIDE DEF Tries, First, n
    <3> QED
      BY <1>5, <1>6, <2>2
  <2>5. First(start) \in 0..(n - 1) /\ h[Slot(start, First(start), n, w)]
    <3> HIDE DEF First
    <3> QED
      BY <2>3
  <2> HIDE DEF First, n
  <2> QED
    BY <1>2, <1>6, <2>4, <2>5
<1>8. ASSUME \A k \in DOMAIN h : ~h[k] PROVE Pick(h, start, w) = 0
  <2>1. Tries(start) = {}
    BY <1>2, <1>6, <1>8
  <2> HIDE DEF Tries, First
  <2> QED
    BY <1>5, <1>6, <2>1
<1>9. ASSUME NEW k \in DOMAIN h, h[k]
      PROVE  \E p \in 0..(n - 1) : Pick(h, (start + p) % w, w) = k
  <2>1. PICK p \in 0..(n - 1) : Slot(start, p, n, w) = k
    BY <1>3
  <2> DEFINE s == (start + p) % w
  <2>2. s \in 0..(w - 1)
    OBVIOUS
  <2>3. (s + 0) % w = s
    <3> HIDE DEF s
    <3> QED
      BY <2>2
  <2>4. Slot(s, 0, n, w) = k
    BY <2>1, <2>3 DEF Slot
  <2> HIDE DEF s
  <2>5. 0 \in Tries(s) /\ s \in Nat
    BY <1>1, <1>9, <2>2, <2>4
  <2>6. First(s) = 0
    <3>1. First(s) \in Tries(s) /\ First(s) <= 0
      <4> HIDE DEF Tries, First
      <4> QED
        BY <1>4, <2>5
    <3>2. First(s) \in 0..(n - 1)
      <4> HIDE DEF First
      <4> QED
        BY <3>1
    <3> HIDE DEF First
    <3> QED
      BY <1>1, <3>1, <3>2
  <2>7. Pick(h, s, w) = k
    <3> HIDE DEF Tries, First, n
    <3> QED
      BY <1>5, <2>4, <2>5, <2>6
  <2> QED
    BY <2>7 DEF s
<1> QED
  BY <1>7, <1>8, <1>9

\* No scan has the counter wrap in its midst, but at a multiple of the members.
FullTurns ==
    \A c \in Conns : conn[c].pc = "scan" => FullTurn(conn[c].start, Len(members), Width)

\* In its k-th try task c finds a steady backend up.
Finds(c, k) ==
    LET b == members[Slot(conn[c].start, k, Len(members), Width)]
    IN  b.addr = Steady /\ ok[b]

\* A task that found a steady backend up when it began still has it ahead.
AheadInv ==
    \A c \in Conns : conn[c].pc = "scan" /\ conn[c].sure =>
        \E k \in Nat : conn[c].i <= k /\ k < Len(members) /\ Finds(c, k)

\* Without a connection nothing was seen; one that was sure is not refused.
SureInv == \A c \in Conns : conn[c].pc \in {"idle", "refused"} => ~conn[c].sure

LEMMA SlotInRange ==
    ASSUME TypeInv, NEW st \in Nat, NEW k \in Nat, Len(members) # 0
    PROVE  members[Slot(st, k, Len(members), Width)] \in ToSet(members)
<1>1. Len(members) \in Nat /\ DOMAIN members = 1..Len(members)
  BY DEF TypeInv, PoolType
<1>2. (st + k) % Width \in Nat
  BY BackendsAssumption
<1>3. ((st + k) % Width) % Len(members) \in 0..(Len(members) - 1)
  BY <1>1, <1>2
<1>4. Slot(st, k, Len(members), Width) \in DOMAIN members
  BY <1>1, <1>3 DEF Slot
<1> QED
  BY <1>4 DEF ToSet

\* A scan begins: by EverySlot a steady backend that is up lies ahead.
LEMMA AheadAtAccept ==
    ASSUME TypeInv, FullTurns', NEW c \in Conns, Accept(c), SteadyOk, members # <<>>
    PROVE  \E k \in Nat : conn'[c].i <= k /\ k < Len(members') /\ Finds(c, k)'
<1>1. PICK b \in ToSet(members) : b.addr = Steady /\ ok[b]
  BY DEF SteadyOk
<1>2. members \in Seq(Objects) /\ Len(members) \in Nat \ {0} /\ Width \in Nat \ {0}
      /\ next \in 0..(Width - 1)
  BY BackendsAssumption DEF TypeInv, PoolType, ConnType
<1>3. PICK s \in 1..Len(members) : members[s] = b
  BY <1>2 DEF ToSet
<1>4. /\ conn'[c].pc = "scan" /\ conn'[c].start = next /\ conn'[c].i = 0
      /\ members' = members /\ ok' = ok
  BY DEF Accept, pool, TypeInv, ConnType
<1>5. FullTurn(next, Len(members), Width)
  BY <1>4 DEF FullTurns
<1>6. PICK i \in 0..(Len(members) - 1) : Slot(next, i, Len(members), Width) = s
  BY <1>2, <1>3, <1>5, EverySlot
<1>7. i \in Nat /\ 0 <= i /\ i < Len(members)
  BY <1>2
<1>8. Finds(c, i)'
  BY <1>1, <1>3, <1>4, <1>6 DEF Finds
<1> QED
  BY <1>4, <1>7, <1>8

\* One look of task c: it takes what it found, or what is ahead is further ahead.
LEMMA AheadAtScan ==
    ASSUME TypeInv, AheadInv, NEW c \in Conns, Scan(c), conn[c].sure
    PROVE  \/ conn'[c].pc = "connect"
           \/ /\ conn'[c].pc = "scan"
              /\ \E k \in Nat : conn'[c].i <= k /\ k < Len(members') /\ Finds(c, k)'
<1>1. conn[c] \in ConnTasks /\ conn[c].pc = "scan" /\ Len(members) \in Nat
      /\ conn[c].i \in Nat /\ members' = members /\ ok' = ok
  BY DEF Scan, TypeInv, ConnType, PoolType, ConnTasks, pool
<1>2. PICK k \in Nat : conn[c].i <= k /\ k < Len(members) /\ Finds(c, k)
  BY <1>1 DEF AheadInv
<1>3. conn'[c] = Looked(conn[c], ok[SeenBy(c)], Len(members))
  BY DEF Scan, TypeInv, ConnType
<1>4. CASE ok[SeenBy(c)]
  BY <1>1, <1>3, <1>4 DEF Looked, ConnTasks
<1>5. CASE ~ok[SeenBy(c)]
  <2>1. k # conn[c].i
    BY <1>2, <1>5 DEF Finds, SeenBy
  <2>2. conn[c].i + 1 <= k /\ ~LastTry(conn[c].i, Len(members))
    BY <1>1, <1>2, <2>1 DEF LastTry
  <2>3. conn'[c] = [conn[c] EXCEPT !.i = @ + 1]
    BY <1>3, <1>5, <2>2 DEF Looked
  <2>4. conn'[c].pc = "scan" /\ conn'[c].i = conn[c].i + 1 /\ conn'[c].start = conn[c].start
    BY <1>1, <2>3 DEF ConnTasks
  <2>5. Finds(c, k)'
    BY <1>1, <1>2, <2>4 DEF Finds
  <2> QED
    BY <1>1, <1>2, <2>2, <2>4, <2>5
<1> QED
  BY <1>4, <1>5

\* The step of another actor: the members stay, for c holds the read lock, and the
\* health loop does not take a steady backend's flag away.
LEMMA AheadMeanwhile ==
    ASSUME TypeInv, SteadyInv, AheadInv, [Next]_vars, NEW c \in Conns,
           conn[c].pc = "scan", conn[c].sure, conn'[c] = conn[c]
    PROVE  \E k \in Nat : conn'[c].i <= k /\ k < Len(members') /\ Finds(c, k)'
<1>1. members' = members
  BY MembersStay DEF Scanning
<1>2. PICK k \in Nat : conn[c].i <= k /\ k < Len(members) /\ Finds(c, k)
  BY DEF AheadInv
<1>3. conn[c].start \in Nat /\ Len(members) # 0 /\ ToSet(members) \subseteq Objects
  BY <1>2 DEF TypeInv, ConnType, ConnTasks, PoolType, ToSet
<1> DEFINE b == members[Slot(conn[c].start, k, Len(members), Width)]
<1>4. b \in Objects /\ b.addr = Steady /\ ok[b]
  BY <1>2, <1>3, SlotInRange DEF Finds
<1>5. ok'[b]
  <2> HIDE DEF b
  <2> QED
    BY <1>4, FlagStays
<1>6. Finds(c, k)'
  BY <1>1, <1>4, <1>5 DEF Finds
<1> QED
  BY <1>1, <1>2, <1>6

LEMMA AheadStep ==
    ASSUME TypeInv, SteadyInv, AheadInv, SureInv, FullTurns', [Next]_vars
    PROVE  AheadInv' /\ SureInv'
<1> SUFFICES ASSUME NEW c \in Conns
             PROVE  /\ conn'[c].pc = "scan" /\ conn'[c].sure =>
                         \E k \in Nat : conn'[c].i <= k /\ k < Len(members') /\ Finds(c, k)'
                    /\ conn'[c].pc \in {"idle", "refused"} => ~conn'[c].sure
  BY DEF AheadInv, SureInv
<1>1. conn \in [Conns -> ConnTasks] /\ conn[c] \in ConnTasks
  BY DEF TypeInv, ConnType
<1>2. CASE conn'[c] = conn[c]
  BY <1>2, AheadMeanwhile DEF SureInv
<1>3. CASE Accept(c)
  <2>1. CASE members = <<>>
    <3>1. conn'[c] = [conn[c] EXCEPT !.pc = "refused"] /\ conn[c].pc = "idle"
      BY <1>1, <1>3, <2>1 DEF Accept
    <3>2. conn'[c].pc = "refused" /\ conn'[c].sure = conn[c].sure
      BY <1>1, <3>1 DEF ConnTasks
    <3> QED
      BY <3>1, <3>2 DEF SureInv
  <2>2. CASE members # <<>>
    <3>1. conn'[c] = [pc |-> "scan", start |-> next, i |-> 0, sure |-> SteadyOk]
      BY <1>1, <1>3, <2>2 DEF Accept
    <3>2. conn'[c].pc = "scan" /\ (conn'[c].sure => SteadyOk)
      BY <3>1
    <3> QED
      BY <1>3, <2>2, <3>2, AheadAtAccept
  <2> QED
    BY <2>1, <2>2
<1>4. CASE Scan(c)
  <2>1. conn'[c] = Looked(conn[c], ok[SeenBy(c)], Len(members))
    BY <1>1, <1>4 DEF Scan
  <2>2. conn'[c].sure = conn[c].sure
    <3>1. CASE ok[SeenBy(c)]
      BY <1>1, <2>1, <3>1 DEF Looked, ConnTasks
    <3>2. CASE ~ok[SeenBy(c)]
      BY <1>1, <2>1, <3>2 DEF Looked, ConnTasks
    <3> QED
      BY <3>1, <3>2
  <2> QED
    BY <1>4, <2>2, AheadAtScan
<1>5. CASE End(c)
  BY <1>1, <1>5 DEF End, NoConn
<1>6. \/ conn'[c] = conn[c]
      \/ Accept(c) \/ Scan(c) \/ End(c)
  <2>1. ASSUME NEW d \in Conns, d # c, Accept(d) \/ Scan(d) \/ End(d)
        PROVE  conn'[c] = conn[c]
    BY <1>1, <2>1 DEF Accept, Scan, End
  <2>2. (\E d \in Conns : Accept(d) \/ Scan(d) \/ End(d)) \/ conn' = conn
    BY DEF Next, vars, HealthLoop, PutAddrs, PutSpec, PutSpecFails, RoundSpec, RoundList,
           ProbeAnswered, ProbeStored, Woken, IntervalOver, Flip
  <2> QED
    BY <2>1, <2>2
<1> QED
  BY <1>2, <1>3, <1>4, <1>5, <1>6

\* Updates that keep a working backend are not felt (pool.rs pick under its read
\* lock, set_addrs, health.rs run): a steady backend stays admitted, and no
\* connection that comes while it is admitted is refused, as long as the round-robin
\* counter does not wrap amid a scan at a number the pool's size does not divide.
THEOREM WorkingBackendServed == Spec /\ []FullTurns => SteadyServed
<1>1. Init => AheadInv /\ SureInv
  BY DEF Init, AheadInv, SureInv, NoConn
<1>2. TypeInv /\ SteadyInv /\ AheadInv /\ SureInv /\ FullTurns' /\ [Next]_vars =>
        AheadInv' /\ SureInv'
  BY AheadStep
<1>3. TypeInv /\ SteadyInv /\ [Next]_vars => SteadyInv'
  BY SteadyStep
<1>4. SureInv => NeverRefused
  BY DEF SureInv, NeverRefused
<1> QED
  BY <1>1, <1>2, <1>3, <1>4, InitSteady, TypeCorrect, SteadyStaysAdmitted, PTL
     DEF Spec, SteadyServed
=============================================================================
