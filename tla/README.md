# stormlb: models, checks and proofs

A TLA+ verification project for stormlb, a load balancer in Rust: an L4 balancer
with health checks behind a virtual IP (VIP) that VRRP moves between hosts or BGP
announces, an HTTP API that makes and changes VIPs at runtime, and an L7 router for
the cluster's HTTPRoutes. The modules here are translated from the code (`src/src/*.rs`);
`PROJECT.json` maps every definition to its lines.

## 1. Inventory

| Component | State it keeps | Operations | Module |
|---|---|---|---|
| VRRP control loop (`vrrp.rs` `run_loop`, `VirtualRouter`) | state, learned interval, two deadlines, stop flag, published state | start, advertisement received, read timed out, health looked at, stop seen, receive error | `Vrrp`, `VrrpProofs`, `VrrpTimingProofs` |
| VRRP wire format (`vrrp.rs`) | none | encode, parse, checksum | `VrrpPacket` |
| VIP controller (`vip.rs`) | the kernel's address table | claim (with gratuitous ARP), release, link, interface_ipv4 | `Vrrp` (the effect), `Netlink` (the messages) |
| Backend pool (`pool.rs`) | members, one health flag each, round-robin counter | `set_addrs`, `pick`, `set_healthy` | `Pool`, `Backends`, `Algorithms` |
| Health loop (`health.rs`) | spec, wake-up permit, its copy of the members | `set_spec`, `wake`, one round of probes | `Backends` |
| L4 balancer (`balancer.rs`) | listener, one task per connection | bind, accept, pick, connect, copy | `Backends`, `Connections`, `Registry` (bind) |
| VIP registry and `state_file` (`vips.rs`) | running VIPs, saved VIPs that did not start, two files | `put`, `apply`, `remove`, `load_state`, `start_config`, `save`, `check` | `Registry`, `RegistrySpec`, `VipSpecs` |
| VIP API (`api.rs`) | one task per connection | read a request, authorize, PUT, DELETE, GET | `Registry`, `HttpHead`, `ApiRequest` |
| Start and exit (`main.rs`) | - | config VIP, then saved VIPs; no signal handling | `Registry`, `Vrrp` |
| BGP speaker (`bgp.rs`, health watch in `main.rs`) | session state, hold time, two timers, what was announced | one action per message, timer and health change; readers of ended sessions | `Bgp`, `BgpMessages` |
| L7 router (`router.rs`) | route table, backend CA and its stamp, one task per connection | bind, poll (CA, list, one look-up per route, swap), read a head, look up, redirect, dial, verify, forward, splice | `Router`, `Front`, `Connections`, `HttpHead`, `Listeners` |
| Router certificates (`tls.rs`) | certificate pairs and their time stamps | reload, count, pick by name | `Certs`, `Listeners` |
| Metrics (`metrics.rs`) | counters and gauges | add, guard, render | `Series`, `Connections` (guard) |
| Configuration (`config.rs`) | none | deserialise | not modelled |

How they interact. `main` builds a registry, starts the VIP of the config file, then
the saved ones. The registry owns, for every VIP, a listener task, a pool, a health
checker and optionally a VRRP thread. API requests call `put` and `remove` from
tasks that run in parallel on several threads. The health loop writes flags that
`pick`, VRRP (`on_health`) and the BGP watch read. VRRP instances talk by multicast
and change the kernel's addresses. BGP follows the config VIP's health through a
watch channel that a task refreshes every 250 ms. Beside all that the router is its own
set of tasks: a poller task refreshes the route table and the backend CA, a
reload task the certificates, and connection tasks read all three.

What is hard in this code:

* **Concurrency**: requests interleave between locks (`apply` looks, `put` acts, `save`
  copies, then writes); the health loop works on copies that are replaced underneath
  it; an old VRRP instance and its successor run together for up to half a second.
* **Failure**: the process can end between any two steps of a save, or while Master;
  claims, releases, receives and writes fail; the CA file disappears; one of several
  look-ups of a poll fails.
* **Ordering**: resignations and advertisements cross; snapshots are renamed into
  place in another order than they were taken; health changes before, during and
  after a BGP session is established; a certificate and its key are two files, written
  and read one after the other.
* **Time**: VRRP deadlines are looked at only when a read times out; the hold timer
  races a late message; a stop must be noticed by a blocked thread.

What makes each component correct (names are definitions in the modules):

* VRRP: the election ends with one Master, the right one, a bounded time after the
  last event (`ElectedInTime`, `Converges`); two hosts hold the address together only
  briefly (`BriefOverlap`); the address is exactly where the Masters are
  (`HolderIsMaster`, `MasterHolds`, `PlacedInTime`); stop and lost health are acted
  on within one read timeout (`AnsweredInTime`).
* Pool: no healthy member is starved and a pick fails only when nothing is healthy, but
  for the counter's wrap (`PickRight`); under updates members that stay keep their health, and no connection
  is refused while one of them works (`SteadyServed`).
* Health loop: a change of members or spec is never slept through
  (`JudgedBeforeSleep`), nothing is admitted unchecked (`AdmittedByCheck`), and flags
  end up as the checks say (`HealthTracks`).
* Registry: what was acknowledged is there, after a restart too (`AckedSurvives`); a VIP
  does what its spec says, also after a refused change (`ServesItsSpec`, which fails) and
  at least after an accepted one, whatever was refused before it (`PutServes`); the config
  file's VIP stands (`ConfigStands`); all together it is the map and the copy on disk of
  `RegistrySpec`, so that a refusal changes nothing that is reported or saved and the file
  is never half written (`ImplementsSpec`).
* BGP: the session's idea of what the peer has is the truth (`PeerTableRight`);
  UPDATEs only once Established (`AnnouncesWhenEstablished`); hold and keepalive
  timers do their work (`HoldTimesKept`); the route goes away in time
  (`WithdrawnInTime`) and follows the health in the end (`RouteFollowsHealth`); failed
  sessions leave no reader behind (`ReadersEnd`).
* Certificates: never one with another's key, and no change of the files is skipped
  (`LoadedRight`); a renewal is served (`RenewalServed`).
* Router: the table follows the apiserver (`TableFollows`) without losing what works
  (`WorkingRouteStays`), and a CA or certificate once there stays (`ImplementsFront`);
  a request is counted once (`CountedOnce`); a redirected client finds a certificate
  (`RedirectHolds`).
* Connections, of router and balancer: a task ends when its client has gone (`TaskEnds`),
  and a client sees the end of a response (`ResponseEnds`).
* Wire formats and other pure functions, one property per component, each the
  conjunction of named parts: what is sent is what is read, and what is damaged, cut or
  another's is not (`VrrpWire`, with the settings of an accepted VIP; `BgpWire`;
  `NetlinkWire`, by which the VRRP source is not a VIP); a head or body means the same
  however it arrives, and only the token's holder changes VIPs (`HttpRight`); the router
  listens where it should, with the certificate of the name (`ListenersRight`);
  `MetricsRight`.

## 2. Modules and how they correspond to the code

**`Vrrp`** - one virtual router on a LAN. An *instance* is one `vrrp::run` thread; a
host has one, or two while the registry restarts VRRP for a VIP. A turn of
`run_loop` is two steps, because other threads and hosts act while the loop blocks
in `recv_from`: the *top* (`StopSeen`, `Resign`, `Block`: stop flag, health, published
state, read timeout) and the *receive* (`Recv*` for a packet, `Advertise`, `TakeOver`,
`NotFit`, `Woken` for a timeout). `next_advert` is read only while Master and
`master_down_deadline` only while Backup, and every change of state sets the one that
is read next, so they are one countdown. A packet is a record of the three fields
the loop reads. Kernel and LAN are external: a multicast reaches every other host
that is not cut off and whose receive buffer has room; `Claim` and `Release` set the
host's address and may fail. Faults (`FaultKinds`) are counted by `MaxFaults`. Three
ghosts measure: `calm` (time since the last event), `lag` (time a stop or lost pool is
unanswered), `dual` (time two hosts have held the address).

**`VrrpProofs`**, **`BackendsProofs`**, **`RegistryProofs`**, **`BgpProofs`**, **`RouterProofs`**
(also for `Certs`) and **`ConnectionsProofs`** - the theorems about the module of that name
(section 5); **`VrrpTimingProofs`** - those about its real time. **`OrderLemmas`** - least and greatest numbers, which their proofs use where
one would use induction.

**`Pool`** - `set_addrs` and `pick` as operators. An `Arc<Backend>` is an address with a
generation, so that a removed and re-added backend is another object. The loop of
`set_addrs` is stated by its result: the k-th member is the object of the k-th address
that occurs for the first time.
**`Backends`** - one VIP's data path: the registry's two-part update of a running VIP
(`set_addrs`, then `set_spec`, which notifies), the health loop with its copies, the
Notify permit, and connection tasks whose `pick` reads one flag after the other. A
probe is two steps (the backend answers; later the verdict is stored), so a verdict
can arrive after everything changed.

**`Registry`** - `put` runs under the registry's lock and is one step. An entry is its spec
and, beside it, what is really running: listener, backends, health check, VRRP instance;
`Updated` replaces of these what `put` finds to differ, and `PutHalf` is a `put` that fails in
`set_spec`, with listener and backends already replaced. The steps of
`apply`, `remove` and `save` between locks and system calls are separate: look for
the config VIP, put, forget the pending spec, copy pending, overlay the running VIPs,
open/truncate `.tmp`, write, rename. Files are inodes and two names, so that two saves
sharing one `.tmp` behave as on a POSIX file system. `Exit` can happen anywhere, also
during a start: `Boot` starts the config VIP, `Load` puts one saved VIP a step, in map
order, and `Listening` opens the API. An aborted
listener closes some time later (`Closed`). `want` is a ghost: what each name may have
according to the answers given so far; a request under way, and one answered 500
("applied but not saved"), allow both outcomes. `Check` is a filter here; `VipSpecs` has
what it looks at.

**`RegistrySpec`** - what the API promises one client at a time: a map from names to specs
that changes one name at a time, and a saved copy that becomes the map in one step, with
the acknowledgement. `Registry` implements it (`Durable`): `current` is what each name has
running or pending, `saved` the contents of `state_file`, and the eight steps from `put` to
`rename` are one change, stutters and one acknowledgement.

**`Bgp`** - `session` and `spawn`'s reconnect loop with one peer, and the health task of
`main.rs`. A TCP connection is two queues; the reader task fills `rx` and outlives its session until
the stream ends or brings another message (`lingers` on the open connection, `orphans` on
those the peer has closed). The arms of
the Established `select!` are separate actions, any ready one may win. The peer
follows the protocol except for `MaxFaults` faults (junk, resets, a link that silently
passes nothing).

**`Certs`** - the reload task of `tls.rs`, one step per system call: time stamp of the
certificate, time stamp of the key (skip if both are those of the loaded pair), read the
certificate, read the key and compare. A file is a version and a modification time;
files are written, broken and removed between any two steps.

**`Router`** - extends `Certs` with the poller. A turn of `poll_routes` is the CA's stamp, its
load, the list, one look-up per listed route and the swap of the table; apiserver and files
change in between. `authOk` stands for `ca_file` and `token_file` making a client the
apiserver accepts (`ApiClient`, `read_token`).

**`Front`** - the three things a connection's task reads (`router.rs` `Front`): a table that
changes whole, a connector and certificates that once there are never gone. `Router`
implements it (`ImplementsFront`).

**`Connections`** - extends `Front` instead of `Router`, so the tasks are checked above every
table and every moment a poll or a reload could produce. A task is followed from accept to
the end of both directions: TLS handshake, head, look-up, redirect or own answer, dial and
verification, forward, `splice`; for a VIP: pick, connect, `copy_bidirectional`. Of a
stream only its first bytes and its end matter. A client or backend ends its half, or is
gone, at any moment, and while it does not read, the copy towards it waits (`UpBlocks`,
`DownBlocks`). The CA a task verifies with is the one at its dial.

**`Algorithms`** - the pure functions, which the machines above take for granted, each on
every input of a small set. `Bytes` has slices and integers; `VrrpPacket`, `BgpMessages` and
`Netlink` are byte for byte; `HttpHead` takes a head as symbols (CR, LF, colon, digits,
words), read in two pieces; `VipSpecs`, `ApiRequest`, `Listeners`, `Series` and `Pool` take
records and sequences. A *job* is an input, its one step the call. The other side's part
(the kernel's dump, the peer's reading of an UPDATE, what the network does to a packet) is
external and written from the formats' own definitions, so a check is a round trip
and not the code against itself.

**`MC*`** modules give the constants their small values.

## 3. Runs

| Run | Question | Result |
|---|---|---|
| `vrrp_election` | Priorities 255 and 128, preempting; three health changes, stops or reboots at any moment. Is the election right in time, are overlaps brief, are stops and lost pools answered within a read timeout, do Masters, and only Masters, have the address? | holds |
| `vrrp_converges` | Equal priorities without preemption; link cuts, process exits, receive errors, failed claims and releases, packets of other virtual routers: does the election end, right and for good? | holds |
| `vrrp_restart` | VRRP restarted in place (the registry's `put` with changed settings): is the address where the Master is? | **violated** |
| `backends` | PUTs that replace members and spec, or fail half-way, at every point of a health round and of a connection's pick. | holds |
| `registry_sequential` | One request at a time beside a config VIP, two exits at any step, failed writes and renames, taken listeners, a CA file that goes, inside a PUT too. Also: does it implement `RegistrySpec`? | holds |
| `registry_refusal` | A PUT is refused because the CA file goes while it is applied: does the VIP still do what it reports? | **violated** |
| `registry_concurrent` | Two clients and one restart: does an acknowledged change survive? | **violated** |
| `bgp_session` | Every order of messages, timers, health changes and faults of one peer, and the readers of its sessions. | holds |
| `router_tables` | Reload and poll beside files that are rewritten and an apiserver that changes, refuses or fails (three such events). Also: do they implement `Front`? | holds |
| `connections` | A connection by either of the router's listeners or a VIP's, through every branch, while `Front` changes and client and backend stop reading, end or vanish. | holds |
| `algorithms` | Seven components' pure functions on 82,747 inputs, against reference definitions. | holds |
| `router_flap` | The look-up of a Service fails in a poll whose list succeeded: does a working route stay? | **violated** |

Bounds, and why they are enough for the question:

* VRRP: two hosts are the smallest group with an election, and the two conflicts the
  code resolves (a higher priority, an equal one with a higher address) are between
  pairs; `UnitsPerSec` is 4 or 2 units for a second instead of 100, which keeps skew,
  interval and read timeout distinct. In `vrrp_converges` `MaxFaults`
  3 is a cut, a fault or another change on one side of it, and its healing; in
  `vrrp_restart` the one stop is that of the old instance. `Settle` in `vrrp_election` is the longest master-down interval plus a read timeout
  per host for the takeover and for the first advertisement (`SettleBound`).
* `Algorithms`: `Width` 2^4 stands for the 2^64 counter: modulo each pool size tried, 1 to
  6, the two are the same, so what a scan sees at the wrap is what it sees there.
* `Backends`: two PUTs suffice for one to overtake a round and a second to overtake the
  re-check; `Steady` is the backend `SteadyServed` is about.
* `Registry`: two or three names, specs that share a listener or move it, three
  requests (a VIP, a PUT of it refused half-way, and another), two exits (so that a VIP that
  did not start once must survive another save and another start), two failures. Inodes are as many as can be in use together, plus one; with
  two clients they are interchangeable model values, and TLC explores one state of each
  symmetry class (no liveness is checked there).
* `Router`: three routes: a steady one to an https backend, an annotated one in the clear,
  and a later one for the same host whose server name is none; two Services. A renewal
  is two events; a third covers one broken off, or a table change beside it. In
  `router_tables` only the look-up of the changing Service may fail, in `router_flap` the
  steady one's too.
* `Connections`: tasks share `Front` only, which they do not write, so one task that may come
  in by any listener stands for each; no bound limits what clients and backends do.
* `Algorithms`: packets of one and two addresses with every byte hit by three differences
  and every IP header length the code distinguishes; two BGP messages with a byte of the
  second's marker changed and the stream cut in every part; up to three interfaces and two
  addresses; heads of up to three of nine header lines, bodies that contain a head's end;
  values at both sides of every limit `check` has.
* `Bgp`: hold times 0 (none), 3 (the smallest allowed, shorter than ours) and 12
  (longer than ours, 9); two health changes and two faults.

`CHECK_DEADLOCK FALSE` appears only where the system may stop: in the registry's
configurations once the bounded requests and exits are used up, and in `algorithms` after
the one call. Everywhere else time passes or
a loop goes on, and TLC checks that it does.

Fairness. `Vrrp!FairSpec`: every thread that runs takes its turns (the OS schedules threads)
and time passes. That an instance that is off is started is not assumed, since the code
never restarts a thread that ended: `Converges` covers behaviours in which it stays off. `Backends!FairSpec`: the health loop's steps are taken, since it is a
spawned task and every probe has a timeout, and a PUT begun ends.
`Router!FairSpec`: the poller and the reload task are spawned once and never end, and their
calls have timeouts; events are bounded.
`Connections!FairSpec`: a task whose next step is possible takes it, which the runtime gives;
steps that wait for bytes are fair only once the stream they read has ended, since a client
or backend may be silent for ever (`Due`). A handshake and a connection to a backend have
timeouts. Of backends it assumes that one which has read the end of its request ends its
own stream (`BackendFollows`), and of both sides that while they are there they read what is
sent (`BackendReads`, `ClientReads`): without that neither `splice` nor `copy_bidirectional`
ends, and neither has a timeout, by design (websockets).
`Bgp!FairSpec`: the tasks run, time passes, and the peer, being a
router that speaks BGP, answers; junk and resets are not fair, and bounded. Nothing
assumes that a link heals or a backend recovers: `Converges` and `RouteFollowsHealth`
say so in their hypotheses.

Every property of a passing run is broken by the mutant of a definition (operators
marked "Mutant" in the modules, listed in `PROJECT.json`): a dropped wake-up, a timer
without its cap, a tie that is not broken, a rename that is not one.

## 4. What the violated properties show

* **`vrrp_restart` / `PlacedInTime`.** `put` stops the old VRRP instance and starts the
  new one at once. The old thread notices up to 500 ms later and then releases the
  address the new one may already have claimed (at once, with priority 255). The new
  instance stays Master, advertises, and has no address; nothing claims it again.
* **`registry_concurrent` / `AckedSurvives`.** `save` copies under the locks and writes
  after them. Two requests answered 200 can be saved in the other order; after a restart
  the later change is gone, although the running process had it.
* **`registry_refusal` / `ServesItsSpec`.** `put` checks the health spec, then moves the
  listener and replaces the members, then builds the health check, reading the CA file
  again. If the file has gone in between, the request is refused, although the comment in
  `put` says that "a refusal changes nothing": the VIP reports its old spec and listens and
  balances by the new one. The next accepted PUT mends it (`PutServes`), also one of the
  old spec, because the listener is compared with the one in use and VRRP is behind
  `set_spec`; an exit mends it too.
* **`router_flap` / `WorkingRouteStays`.** `fetch_table` skips a route whose Service look-up
  fails, and the table it returns replaces the old one. The list answered, so this is no
  error to `poll_routes`: a host whose route and Service are unchanged answers 404 until a
  later poll gets through. The same property holds for errors of the list
  (`router_tables`).

## 5. Proofs

Every theorem is about all values of the constants that satisfy the module's assumption
(`ConstantsAssumption`, `BackendsAssumption`, `RegistryAssumption`, ...), which TLC evaluates
in that module's runs: any hosts, priorities and timings, any lists and pools, any number of
clients, requests, exits, faults and connections. Where a theorem needs more, it says so
as a hypothesis, listed here.

**`VrrpProofs`**

* `TypeCorrect`: `Spec => []TypeOK`. `TypeOK` is inductive as it stands; the lemmas
  `AdvertIntervalType`, `SkewType`, `MasterDownType` and `DeliveredType` give the ranges
  of the timers and of the receive queues.
* `Answered`: `Spec => []AnsweredInTime`. `lag <= MaxWait` alone is not inductive, since a
  tick may raise `lag`. The strengthening says that an unanswered request and the read
  timeout in progress share one budget: while an instance is blocked,
  `lag + wait <= MaxWait`, and at the top of the loop no tick passes before the request
  is answered (`Timely`). It rests on the cap of `ReadTimeout`, which is what the mutant
  removes.
* `NoStrayAddress`: `Spec => []HolderIsMaster`, whatever the interleaving: every step
  that leaves Master releases. With two instances on a host a release removes the
  address for both, which keeps the property (and breaks `PlacedInTime`).
* `MasterHasAddress`: `Spec => []MasterHolds`, from the stronger fact that a Master is
  a running instance, so that with one instance per host nobody else releases.
* `HigherPriorityFirst`: of two Backups with the same learned interval the higher
  priority never waits longer, for the master-down timer and for the skew after a
  resignation, with the code's integer division.

**`VrrpTimingProofs`** - how long things take, in reads and intervals.

* `OnlyFitMasters`, for a group of any size on any LAN: one longest read after the last event
  no Master lacks a healthy pool or was told to stop. It rests on `AnsweredInTime` and on
  `RequestInv`: nothing has happened for as long as a request waits, since a thread takes
  the address only with a healthy pool.
* `OverlapIsBrief` (`BriefOverlap`) and `ElectionInTime` (`ElectedInTime`) are about two machines
  (`Pair`): the same interval, longer than the shortest read; distinct priorities or, the
  address deciding, equal ones that are not both 255; any preemption. The LAN loses
  nothing, threads get to run and netlink works (`LossFree`), while pools come and go and
  instances are stopped, started and rebooted, any number of times and at any moment. `vrrp_election`
  is such an instance. Each hypothesis is needed: two owners of 255 both start as
  Master and overlap for up to an interval, with other intervals a Master may not advertise within the other's patience,
  a cut link makes two Masters for as long as it lasts, other routers' packets restart reads,
  and a thread that does not run keeps the address as long as it likes.
* Why the overlap ends (`OverlapInv`): the better Master's next advertisement is never
  further off than the other's patience, so when both are Masters it is due now, and is sent
  when the read in progress ends. The other's own advertisement can restart that read,
  but once only: its next one is an interval away. So two shortest reads, 20 ms.
* Why the election ends (`ElectionInv`, above the invariants `RunInv`, `PairInv`, `TimersInv`,
  `PacketsInv` that bound each timer and the age of each packet). A Backup that
  nobody holds back has spent its timer and one read by `MaxWait` + Master_Down_Interval +
  `MinWait` after the last event (`LoWaits`, `HiWaits`; the better one's read can be put off
  once); one that follows a Master always has an advertisement on its way, or due before its
  timer ends (`LoFollows`, `HiFollows`); and two Masters have a date by which one has read
  the other's advertisement (`OneLeft`). Together: `Settle` above `MaxWait` +
  Master_Down_Interval + 4 `MinWait`, which is 540 ms more than the Master_Down_Interval.
  The first term is the read after which a Master that lost its pool gives up. The run
  checks a bound that is tighter by it (`SettleBound`), on its constants only: usually the
  resignation cuts the wait by more than the read took.

**`BackendsProofs`**

* `OnlyACheckAdmits` (`AdmittedByCheck`) needs the fact for every object, also those that
  have left the pool (`CheckedInv`): a late verdict is stored in such an object, and it is
  its generation that keeps it from being another's.
* `NothingSleptThrough` (`JudgedBeforeSleep`): the invariant (`RoundInv`) follows the round.
  While no wake-up is stored and no PUT is under way, the loop's spec is the one in
  force, and a member is judged under it or still on the loop's list.
* `SteadyStaysAdmitted` and `WorkingBackendServed` (`SteadyServed`): the pool has one object
  per address (`UniqueInv`), a verdict under way for the steady backend is a good one
  (`SteadyInv`), and a task that began its scan while the backend was up still has it ahead
  of it (`AheadInv`), since the members cannot change under the read lock. That the tries of
  a scan see every slot is arithmetic (`EverySlot`) and true only if the counter does not
  wrap amid the scan, or wraps at a multiple of the pool's size: the second theorem has
  this as its hypothesis `[]FullTurns`. In the run it always holds; with 2^64 values
  it fails for the few picks before the wrap, in pools whose size is no power of two
  (section 6).
* `PickIsFair`: what `EveryHealthyServed` and `NoneOnlyIfAllDown` check on small pools, for
  every pool, from the same lemma.
* `KthExists`, `SetAddrsFacts`: what `set_addrs` makes of a list with any duplicates.

**`RegistryProofs`**

* `AcceptedPutServes` (`PutServes`), for any number of clients, with CA files that go away
  inside `put`. `put` replaces the VRRP instance only if the settings differ from the old
  *spec's*, so what is needed is that the instance that runs is always that spec's, also
  after a PUT refused half-way; it is part of the type of an entry (`Vip`). With it,
  replacing what differs gives the whole (`UpdatedServes`).
* `ConfigVipStands` (`ConfigStands`), for any number of clients, if the config file has a
  `[vip]` always or never (`ConfigSteady`; else false, section 6). The reason is global: no
  request gets past `Checked` for the config VIP's name, so nothing pending, no snapshot and
  no file has it, so no later start loads it (`ConfigInv`).
* `AcknowledgedSurvives` (`AckedSurvives`) and `RegistryImplementsSpec` (`ImplementsSpec`), with
  one client (`OneAtATime`; `registry_concurrent` shows why) and `ConfigSteady`. The invariant
  (`SavingInv`) says what the snapshot, `.tmp` and `state_file` hold at each step of a save
  and of a start, and what each allows: `state_file` is always a whole map, never the file
  being written, and one that `want` allows in every name; the snapshot is what is running;
  while saved VIPs are loaded, the names already looked at are running or pending, the others
  still in the file. An exit anywhere then leaves a file every later start reads to a map
  `want` allows. The refinement maps each step to a `Change`, an `Acknowledge`, an exit, a
  start or a stutter.

**`BgpProofs`**

* `PeerTableTrue`, `NoEarlyUpdate`, `HoldTimesRespected` and `WithdrawnSoon`, from one inductive
  invariant over session, reader, both queues and the peer: which messages can be in
  which queue at which place of the handshake, what the peer will have when it has read
  what is under way, and how the timers on both sides are related.
* The attempts corrected two statements. `HoldTimesKept` was false of a peer that
  sends a second OPEN on an established session, which needs more faults than the run
  allows: the session is about to end by it and no longer sends keepalives, so it is now
  excepted (`Condemned`). The ghost of `WithdrawnInTime` went on measuring when the
  health came back and was lost again; it now starts anew with each loss.

**`RouterProofs`** and **`ConnectionsProofs`**

* `ServesLoadedPairs` (`LoadedRight`): the invariant keeps, for each step of a reload, what was
  read and when it was written. That a stamp taken before the contents is never newer than
  they are is what makes a change during a reload one the next reload sees.
* `RouterMakesFront` (`ImplementsFront`): every step of poll and reload is a step of `Front` or
  a stutter. `ConnectionsProofs` is about tasks above `Front`, so together they are about the
  router.
* `SteadyRouteStays` (`WorkingRouteStays`), if look-ups of the steady Service do not fail
  (`SteadyUp`; `router_flap` shows why).
* `RedirectSafe` and `RequestsCountedOnce` hold for any number of connections, for `TaskSpec`,
  the specification without fairness. A request's count is 0 at every place before an
  answer is decided, 1 behind it (`Counted`).

Only model-checked, and why:

* liveness under fairness (`Converges`, `HealthTracks`, `RouteFollowsHealth`, `ReadersEnd`,
  `RenewalServed`, `TableFollows`, `TaskEnds`, `ResponseEnds`), which is out of the prover's
  reach;
* the wire formats and other recursive walks over bytes and symbols (`VrrpWire`, `BgpWire`,
  `NetlinkWire`, `HttpRight`, `ListenersRight`, `MetricsRight`), which need an induction over
  data, and `PickRight` as the run states it, since `Algorithms` extends them;
* `ElectedInTime` within the run's `SettleBound`. `VrrpTimingProofs` has it, and `BriefOverlap`,
  for any pair on a LAN that loses nothing; of larger groups nothing is claimed about time
  beyond `OnlyFitMasters`, and links that are cut and other routers' packets stretch both.

## 6. Observations not kept as runs

* The process has no signal handling: when it exits while Master, the address stays on
  the interface while a peer takes over. README.md says of "the process told to stop"
  that "a Master sends priority 0, then releases the VIP". (`Crash` in `Vrrp`;
  `PlacedInTime` fails in one step.)
* Two saves that run together share `.tmp`: one can rename the file the other has just
  truncated, and then `state_file` is empty or mixed until the other's write ends. If the
  process ends there, the next start logs a parse error and serves none of the saved
  VIPs. (`ImplementsSpec` is claimed for one client only.)
* `load_state` has no test for the config VIP: a VIP saved as `default` before the config
  file had a `[vip]` is loaded over it at the next start, and the API then refuses to change
  it, although docs/design.md says that "a file and an API never fight over one VIP".
  (`ConfigStands` with `ConfigAtBoot` of no `[vip]` and one.)
* A request whose head cannot be written to the backend, or whose route has a server name
  that is none, ends by `?` and is counted nowhere (`WriteFails`, `BadName`;
  `CountedOnce` excepts them).
* `splice` differs from `copy_bidirectional`, which its comment names: when a read from the
  backend or a write to the client fails, `down` returns without shutting the client's half
  down, and `join!` then waits for the client, which is not told and may wait as well.
  `TaskEnds` claims the end after a backend's failure only for VIPs. A VIP's task whose
  backend ended its stream cleanly and then resets waits for its client too.
* An accept error ends the plain listener's loop (`?` in `serve_on`), where the others
  `continue`; beside a VIP or the API the process goes on without it.
* The API's `handle` cuts the first byte behind `/api/v1/vips` without a look: it takes
  `/api/v1/vipsXname` for `/api/v1/vips/name`.
* `conn_task` is under a timeout of 30 s that may end it after a change was applied and
  before its answer was written; the client cannot tell.
* The threads that send gratuitous ARP are not stopped by a release within their second:
  they may announce an address that has just gone.
* `bind_listeners` says of `auto` that the router "needs both" addresses, and starts with
  either. `AutoBinds` states what becomes of both and of none, and leaves this case out.
* README.md:140 says of a health check's `path` that the "leading `/` is added if missing",
  which `health.rs:114` does; but `check` (`vips.rs:453`) refuses a path without one, so no VIP
  gets there with it.
* The status of a response whose first read is shorter than twelve bytes is counted as
  "other".
* A certificate that was loaded with the stamp of a missing file (it was written between
  the two) is taken for unchanged if the file goes away again. Nothing is lost by it: the
  last good pair would be kept anyway.
* With one unhealthy member, the one behind it in the list gets its share as well: picks
  do not alternate between the healthy ones, though a test comment says so.
* Where the counter wraps, `wrapping_add` before `% n` makes the scan visit one slot twice
  and miss another unless `n` divides 2^64: a pick may then find nobody although a member
  is up, against the comment "None when all are down". It takes 2^64 picks. `PickRight`
  says that it is these picks only, and never as many in a row as there are members.
* A LAN on which other virtual routers' packets arrive more often than every 10 ms
  keeps `recv_from` from timing out: timers are then not looked at. No document bounds
  such traffic, so no property is stated about it.

## 7. Not modelled

TLS handshakes, JSON and TOML parsing, the copying of bytes and HTTP clients are the
libraries'. Configuration (`config.rs`) is declarations with defaults and keeps no state;
what is done with the values is in the modules of their users. Left out as text: the
router's and API's own answers, log lines, the metrics' exposition around the series, and
the metrics endpoint. Sockets' set-up (`Nl::open`, the raw VRRP socket), `/proc` and the
sending of gratuitous ARP are system calls without state of ours; neighbour caches are
outside the model. What a probe does on the wire is the environment's choice. The integer
width of timers is not modelled: values are bounded by `0x0fff` centiseconds times four.
Heads in `HttpHead` are ASCII, so the refusal of one that is no UTF-8 does not occur.
`stop_all` of the registry is called by tests only. An accept error is not an action.
`write_atomic` renames without an fsync, and an exit in `Registry` is the process's: what
the file system has of the file after a loss of power is not considered. The gauge of
open connections is a guard that Rust drops with its task, on every way out of it.

## 8. Plan

The plan is carried out. What could be added: the real time of an election among three and
more machines, where several Backups' timers end together and each takeover restarts the
others' reads, and an election on a LAN that loses a bounded number of advertisements.
