------------------------------ MODULE Backends ------------------------------
(***************************************************************************)
(* One VIP's data path: the pool (pool.rs), its health loop (health.rs     *)
(* `run` with the `Checker` it reads) and the tasks of accepted            *)
(* connections (balancer.rs `serve_vip`), while the registry replaces the  *)
(* members and the health spec (vips.rs `put`, the existing-VIP arm).      *)
(*                                                                         *)
(* A health spec stands for mode, path, statuses and CA; whether a backend *)
(* passes under a spec is the environment's choice and changes.  A probe   *)
(* is two steps: the backend answers, later the loop stores the verdict.   *)
(***************************************************************************)
EXTENDS Pool, FiniteSets

CONSTANTS
    Addrs,      \* backend addresses
    Specs,      \* health specs
    Lists,      \* backend lists a PUT may carry
    Steady,     \* a backend that passes every check
    Conns,      \* connection tasks
    Width,      \* values of Pool.next
    MaxPuts,    \* PUTs that replace members and spec
    MaxFlips,   \* changes of what a backend answers
    CaMayFail   \* TRUE: the CA file may go away while a PUT is applied

NoSpec == "none"

ASSUME BackendsAssumption ==
    /\ Steady \in Addrs /\ NoSpec \notin Specs
    /\ Lists \subseteq Seq(Addrs)
    /\ CaMayFail \in BOOLEAN
    /\ Width \in Nat \ {0} /\ MaxPuts \in Nat /\ MaxFlips \in Nat

VARIABLES
    members,    \* Pool.backends
    ok,         \* Backend.healthy, per object
    gen,        \* per address: the generation of its next object
    next,       \* Pool.next
    spec,       \* Checker.state
    permit,     \* the Notify holds a permit
    hpc,        \* where the health loop is
    hspec,      \* the spec it read at the top of the round
    todo,       \* its copy of the members still to probe
    verdict,    \* the answer to the probe under way
    put,        \* the PUT in progress: "idle", or between its two updates
    newSpec,    \* the spec that PUT carries
    conn,       \* per connection task
    good,       \* <<address, spec>> pairs that pass a check now
    puts, flips,
    probed,     \* ghost: the spec each object was last judged under
    halfway     \* ghost: a PUT failed between its two updates, and no round began since

pool == <<members, gen>>
loop == <<hpc, hspec, todo, verdict>>
vars == <<pool, ok, next, spec, permit, loop, put, newSpec, conn, good, puts, flips, probed,
          halfway>>

Objects == [addr : Addrs, gen : 0..MaxPuts]

NoConn == [pc |-> "idle", start |-> 0, i |-> 0, sure |-> FALSE]

\* Mutant: a backend is trusted until a check fails.
NewBackendUp == TRUE

\* Backend::new: unhealthy until the first check passes.
NewBackend == FALSE

Init ==
    /\ \E l \in Lists : members = SetAddrs(<<>>, l, [a \in Addrs |-> 0])
    /\ gen = [a \in Addrs |-> IF \E b \in ToSet(members) : b.addr = a THEN 1 ELSE 0]
    /\ ok = [b \in Objects |-> NewBackend]
    /\ next = 0
    /\ spec \in Specs
    /\ permit = FALSE
    /\ hpc = "top" /\ hspec = NoSpec /\ todo = <<>> /\ verdict = FALSE
    /\ put = "idle" /\ newSpec = NoSpec
    /\ conn = [c \in Conns |-> NoConn]
    /\ good \in {g \in SUBSET (Addrs \X Specs) : {Steady} \X Specs \subseteq g}
    /\ puts = 0 /\ flips = 0
    /\ probed = [b \in Objects |-> NoSpec]
    /\ halfway = FALSE

-----------------------------------------------------------------------------
(* vips.rs put on an existing VIP: set_addrs, then set_spec. *)

\* A connection task in Pool::pick holds the pool's read lock.
Scanning == \E c \in Conns : conn[c].pc = "scan"

PutAddrs(l, s) ==
    /\ put = "idle" /\ puts < MaxPuts
    /\ ~Scanning
    /\ members' = SetAddrs(members, l, gen)
    /\ gen' = [a \in Addrs |->
                  IF [addr |-> a, gen |-> gen[a]] \in ToSet(members') THEN gen[a] + 1
                                                                     ELSE gen[a]]
    /\ put' = "spec" /\ newSpec' = s /\ puts' = puts + 1
    /\ UNCHANGED <<ok, next, spec, permit, loop, conn, good, flips, probed, halfway>>

\* Mutant: the loop is not woken.
PutSpecQuiet ==
    /\ put = "spec"
    /\ put' = "idle" /\ newSpec' = NoSpec
    /\ spec' = newSpec
    /\ halfway' = FALSE
    /\ UNCHANGED <<pool, ok, next, permit, loop, conn, good, puts, flips, probed>>

\* Checker::set_spec, which wakes the loop.
PutSpec ==
    /\ put = "spec"
    /\ put' = "idle" /\ newSpec' = NoSpec
    /\ spec' = newSpec
    /\ permit' = TRUE
    /\ halfway' = FALSE
    /\ UNCHANGED <<pool, ok, next, loop, conn, good, puts, flips, probed>>

\* set_spec fails: the PUT is refused, but the members stay replaced.
PutSpecFails ==
    /\ CaMayFail /\ put = "spec"
    /\ put' = "idle" /\ newSpec' = NoSpec
    /\ halfway' = TRUE
    /\ UNCHANGED <<pool, ok, next, spec, permit, loop, conn, good, puts, flips, probed>>

-----------------------------------------------------------------------------
(* health::run *)

\* Read the spec ...
RoundSpec ==
    /\ hpc = "top"
    /\ hpc' = "list" /\ hspec' = spec
    /\ halfway' = FALSE
    /\ UNCHANGED <<pool, ok, next, spec, permit, todo, verdict, put, newSpec, conn, good,
                   puts, flips, probed>>

\* ... then copy the member list.
RoundList ==
    /\ hpc = "list"
    /\ todo' = members
    /\ hpc' = IF members = <<>> THEN "sleep" ELSE "probe"
    /\ hspec' = IF members = <<>> THEN NoSpec ELSE hspec
    /\ UNCHANGED <<pool, ok, next, spec, permit, verdict, put, newSpec, conn, good,
                   puts, flips, probed, halfway>>

\* The backend answers the probe (or its timeout decides).
ProbeAnswered ==
    /\ hpc = "probe"
    /\ verdict' = (<<Head(todo).addr, hspec>> \in good)
    /\ hpc' = "store"
    /\ UNCHANGED <<pool, ok, next, spec, permit, hspec, todo, put, newSpec, conn, good,
                   puts, flips, probed, halfway>>

\* Mutant: a failed check does not take a backend out.
StoredSticky(b, v) == ok[b] \/ v

\* Backend::set_healthy.
Stored(b, v) == v

\* set_healthy on the object, which may have left the pool meanwhile.
ProbeStored ==
    /\ hpc = "store"
    /\ ok' = [ok EXCEPT ![Head(todo)] = Stored(Head(todo), verdict)]
    /\ probed' = [probed EXCEPT ![Head(todo)] = hspec]
    /\ todo' = Tail(todo) /\ verdict' = FALSE
    /\ hpc' = IF Tail(todo) = <<>> THEN "sleep" ELSE "probe"
    /\ hspec' = IF Tail(todo) = <<>> THEN NoSpec ELSE hspec
    /\ UNCHANGED <<pool, next, spec, permit, put, newSpec, conn, good, puts, flips,
                   halfway>>

\* The sleep ends by a stored or new wake-up ...
Woken ==
    /\ hpc = "sleep" /\ permit
    /\ permit' = FALSE /\ hpc' = "top"
    /\ UNCHANGED <<pool, ok, next, spec, hspec, todo, verdict, put, newSpec, conn, good,
                   puts, flips, probed, halfway>>

\* ... or when the interval has passed.
IntervalOver ==
    /\ hpc = "sleep"
    /\ hpc' = "top"
    /\ UNCHANGED <<pool, ok, next, spec, permit, hspec, todo, verdict, put, newSpec, conn,
                   good, puts, flips, probed, halfway>>

-----------------------------------------------------------------------------
(* serve_vip: the task of one accepted connection. *)

SteadyOk == \E b \in ToSet(members) : b.addr = Steady /\ ok[b]

\* fetch_add(1) on Pool.next.
Bump(k) == (k + 1) % Width

\* Pool::pick begins: read lock, fetch_add.  An empty pool touches no counter.
Accept(c) ==
    /\ conn[c].pc = "idle"
    /\ IF members = <<>>
       THEN conn' = [conn EXCEPT ![c].pc = "refused"] /\ UNCHANGED next
       ELSE /\ conn' = [conn EXCEPT ![c] = [pc |-> "scan", start |-> next, i |-> 0,
                                            sure |-> SteadyOk]]
            /\ next' = Bump(next)
    /\ UNCHANGED <<pool, ok, spec, permit, loop, put, newSpec, good, puts, flips, probed,
                   halfway>>

\* Mutant: the loop over the members stops one short.
LastTryEarly(i, n) == i + 2 >= n

\* The end of pick's loop `for i in 0..n`.
LastTry(i, n) == i + 1 = n

\* A task t after it looked at one of n members, which is up or not: it takes
\* it, gives up after the last, or goes on.
Looked(t, up, n) ==
    CASE up                      -> [t EXCEPT !.pc = "connect", !.start = 0, !.i = 0]
      [] ~up /\ LastTry(t.i, n)  -> [t EXCEPT !.pc = "refused", !.start = 0, !.i = 0]
      [] ~up /\ ~LastTry(t.i, n) -> [t EXCEPT !.i = @ + 1]

\* The member that task c looks at.
SeenBy(c) == members[Slot(conn[c].start, conn[c].i, Len(members), Width)]

\* Pool::pick looks at one member.
Scan(c) ==
    /\ conn[c].pc = "scan"
    /\ conn' = [conn EXCEPT ![c] = Looked(conn[c], ok[SeenBy(c)], Len(members))]
    /\ UNCHANGED <<pool, ok, next, spec, permit, loop, put, newSpec, good, puts, flips,
                   probed, halfway>>

\* connect succeeds and the bytes are copied until either side is done, or it
\* fails; either way (and when refused) the task ends, without a retry.
End(c) ==
    /\ conn[c].pc \in {"connect", "refused"}
    /\ conn' = [conn EXCEPT ![c] = NoConn]
    /\ UNCHANGED <<pool, ok, next, spec, permit, loop, put, newSpec, good, puts, flips,
                   probed, halfway>>

-----------------------------------------------------------------------------

\* A backend starts or stops passing a check; Steady always passes.
Flip(a, s) ==
    /\ a # Steady /\ flips < MaxFlips
    /\ good' = IF <<a, s>> \in good THEN good \ {<<a, s>>} ELSE good \cup {<<a, s>>}
    /\ flips' = flips + 1
    /\ UNCHANGED <<pool, ok, next, spec, permit, loop, put, newSpec, conn, puts, probed,
                   halfway>>

HealthLoop ==
    RoundSpec \/ RoundList \/ ProbeAnswered \/ ProbeStored \/ Woken \/ IntervalOver

Next ==
    \/ \E l \in Lists, s \in Specs : PutAddrs(l, s)
    \/ PutSpec \/ PutSpecFails
    \/ HealthLoop
    \/ \E c \in Conns : Accept(c) \/ Scan(c) \/ End(c)
    \/ \E a \in Addrs, s \in Specs : Flip(a, s)

Spec == Init /\ [][Next]_vars

\* The loop's task is scheduled, probes time out and intervals pass; a PUT that
\* began (under the registry's lock) and a pick that began end.
FairSpec ==
    /\ Spec
    /\ WF_vars(HealthLoop)
    /\ WF_vars(PutSpec \/ PutSpecFails)
    /\ \A c \in Conns : WF_vars(Scan(c))

-----------------------------------------------------------------------------
(* Properties. *)

\* No update of members or spec is slept through: when the loop sleeps with no
\* wake-up stored, no PUT under way and none just failed half-way, every member
\* was last judged under the spec in force (vips.rs: "Wakes the health loop, which
\* probes new members at once").
JudgedBeforeSleep ==
    hpc = "sleep" /\ ~permit /\ put = "idle" /\ ~halfway =>
        \A b \in ToSet(members) : probed[b] = spec

\* A member gets traffic only after a check of this very object: one that was
\* removed and added again starts unhealthy even if a probe of its predecessor
\* is still under way.
AdmittedByCheck == \A b \in ToSet(members) : ok[b] => probed[b] # NoSpec

\* A connection that arrives while a steady backend is admitted is not refused,
\* whatever updates, probes and other picks run meanwhile.
NeverRefused == \A c \in Conns : conn[c].pc = "refused" => ~conn[c].sure

\* A steady backend, once admitted, stays so through every update that keeps it.
SteadyStays ==
    [][SteadyOk /\ (\E b \in ToSet(members') : b.addr = Steady) => SteadyOk']_vars

\* Updates that keep a working backend are not felt: it stays admitted, and no
\* connection is refused.
SteadyServed == SteadyStays /\ []NeverRefused

\* Once updates and backends rest, the flags become what the checks say.
HealthTracks ==
    <>[](\A b \in ToSet(members) : ok[b] = (<<b.addr, spec>> \in good))
=============================================================================
