-------------------------------- MODULE Vrrp --------------------------------
(***************************************************************************)
(* The VRRPv3 control loop of vrrp.rs (`run_loop` and the `VirtualRouter`  *)
(* it drives) for one virtual router on several hosts of one LAN.          *)
(*                                                                         *)
(* An instance is one running `vrrp::run` thread.  A host normally has one *)
(* instance; it has two for a moment when the registry restarts VRRP for a *)
(* VIP (vips.rs stops the old handle and starts a new thread at once).     *)
(*                                                                         *)
(* A turn of the loop is two steps: the top of the loop (stop flag, health,*)
(* published state, read timeout) and the receive (a packet or a timeout). *)
(* Time is counted in units of one centisecond scaled by UnitsPerSec;      *)
(* next_advert (read only while Master) and master_down_deadline (read only*)
(* while Backup) are one countdown `timer`, since every change of state    *)
(* sets the one that is read next.                                         *)
(***************************************************************************)
EXTENDS Naturals, Sequences, FiniteSets

CONSTANTS
    Hosts,        \* the machines on the LAN
    Inst,         \* VRRP instances (threads)
    HostOf,       \* the machine each instance runs on
    Addr,         \* iface_ip of each machine, compared as a number
    Priority,     \* 1..255
    Preempt,      \* preempt flag of each instance
    AdvertSecs,   \* advert_interval_secs of each instance
    UnitsPerSec,  \* 100 in the code
    MaxAdvert,    \* 0x0fff in the code
    MinWait,      \* 10 ms: the shortest read timeout
    MaxWait,      \* 500 ms: the longest read timeout
    MaxInbox,     \* packets the socket's receive buffer holds
    Timely,       \* TRUE: a thread with work to do runs before time advances
    FaultKinds,   \* which environment events may happen
    MaxFaults,    \* how many of them
    Settle        \* ghost bound: units of calm after which the group has settled

AllFaults == {"health", "stop", "cut", "crash", "reboot", "recv_error",
              "claim_fails", "release_fails", "foreign"}

ASSUME ConstantsAssumption ==
    /\ IsFiniteSet(Hosts) /\ IsFiniteSet(Inst)
    /\ HostOf \in [Inst -> Hosts]
    /\ Addr \in [Hosts -> Nat]
    /\ \A h, k \in Hosts : Addr[h] = Addr[k] => h = k
    /\ Priority \in [Inst -> 1..255]
    /\ Preempt \in [Inst -> BOOLEAN]
    /\ AdvertSecs \in [Inst -> Nat]
    /\ UnitsPerSec \in Nat \ {0}
    /\ MaxAdvert \in Nat \ {0}
    /\ MinWait \in Nat \ {0}
    /\ MaxWait \in Nat /\ MinWait <= MaxWait
    /\ MaxInbox \in Nat \ {0}
    /\ Timely \in BOOLEAN
    /\ FaultKinds \subseteq AllFaults
    /\ MaxFaults \in Nat
    /\ Settle \in Nat

VARIABLES
    pc,       \* "off" (no thread), "top" (top of the loop), "recv" (in recv_from)
    st,       \* vr.state
    mai,      \* vr.master_adver_interval_centis
    timer,    \* units until next_advert (Master) or master_down_deadline (Backup)
    wait,     \* units until the read times out
    inbox,    \* the socket's receive queue
    stop,     \* Handle.stop
    pub,      \* Handle.state, what the API reports
    healthy,  \* per host: the VIP's pool has a healthy backend
    held,     \* per host: the kernel has the VIP on the interface
    cut,      \* hosts cut off from the LAN
    faults,   \* environment events so far
    calm,     \* ghost: units since the last environment event
    lag,      \* ghost: units a stop or a health loss has gone unanswered
    dual      \* ghost: units for which two hosts have held the VIP, since the last event

loopVars == <<pc, st, mai, timer, wait, pub>>
envVars  == <<stop, healthy, cut, faults>>
ghosts   == <<calm, lag, dual>>
vars     == <<loopVars, inbox, held, envVars, ghosts>>

-----------------------------------------------------------------------------
(* VirtualRouter: the pure part of the state machine. *)

Lesser(a, b)  == IF a <= b THEN a ELSE b
Greater(a, b) == IF a >= b THEN a ELSE b

\* VirtualRouter::new: the advertisement interval in centiseconds.
AdvertInterval(i) == Lesser(Greater(AdvertSecs[i], 1) * UnitsPerSec, MaxAdvert)

\* skew_centis for a learned interval m.
Skew(i, m) == ((256 - Priority[i]) * m) \div 256

\* master_down_interval_centis for a learned interval m.
MasterDown(i, m) == 3 * m + Skew(i, m)

\* VirtualRouter::start.
StartState(i) ==
    IF Priority[i] = 255 /\ healthy[HostOf[i]] THEN "master" ELSE "backup"

\* Mutant: a preempting Backup follows a lower-priority Master too.
FollowsAny(i, msg) == TRUE

\* The Backup arm of on_advertisement follows this Master.
Follows(i, msg) == ~Preempt[i] \/ msg.prio >= Priority[i]

\* Mutant: the tie on equal priorities is not broken.
YieldsToHigherOnly(i, msg) == msg.prio > Priority[i]

\* The Master arm of on_advertisement yields to this peer.
YieldsTo(i, msg) ==
    \/ msg.prio > Priority[i]
    \/ msg.prio = Priority[i] /\ Addr[msg.src] > Addr[HostOf[i]]

-----------------------------------------------------------------------------
(* The LAN and the kernel (external to the repository). *)

Foreign == [prio |-> 256, src |-> "none", interval |-> 0]

Advert(i, prio) ==
    [prio |-> prio, src |-> HostOf[i], interval |-> AdvertInterval(i)]

\* A multicast reaches every socket of every other machine (loopback is off)
\* that is not cut off and whose receive buffer has room.
Reaches(i, j) ==
    /\ HostOf[j] # HostOf[i]
    /\ pc[j] # "off"
    /\ {HostOf[i], HostOf[j]} \cap cut = {}
    /\ Len(inbox[j]) < MaxInbox

Delivered(i, prio) ==
    [j \in Inst |-> IF Reaches(i, j) THEN Append(inbox[j], Advert(i, prio))
                                     ELSE inbox[j]]

\* Netlink::claim: adding an address that is there already succeeds; a failure
\* is only logged by the loop.
Claim(h) ==
    \/ held' = [held EXCEPT ![h] = TRUE]
    \/ "claim_fails" \in FaultKinds /\ UNCHANGED held

\* Netlink::release: the loop discards its result.
Release(h) ==
    \/ held' = [held EXCEPT ![h] = FALSE]
    \/ "release_fails" \in FaultKinds /\ UNCHANGED held

-----------------------------------------------------------------------------
(* The loop. *)

\* run_loop up to `loop`: the registry starts a thread only after it asked the
\* previous one for the same VIP to stop (vips.rs put, Entry::drop).
Start(i) ==
    /\ pc[i] = "off"
    /\ \A j \in Inst \ {i} : HostOf[j] = HostOf[i] => pc[j] = "off" \/ stop[j]
    /\ pc' = [pc EXCEPT ![i] = "top"]
    /\ st' = [st EXCEPT ![i] = StartState(i)]
    /\ pub' = [pub EXCEPT ![i] = StartState(i)]
    /\ mai' = [mai EXCEPT ![i] = AdvertInterval(i)]
    /\ timer' = [timer EXCEPT ![i] = IF StartState(i) = "master" THEN 0
                                     ELSE MasterDown(i, AdvertInterval(i))]
    /\ stop' = [stop EXCEPT ![i] = FALSE]
    /\ IF StartState(i) = "master" THEN Claim(HostOf[i]) ELSE UNCHANGED held
    /\ calm' = 0 /\ dual' = 0
    /\ lag' = [lag EXCEPT ![i] = 0]
    /\ UNCHANGED <<wait, inbox, healthy, cut, faults>>

\* The thread of i ends: its socket is closed, run() publishes Initialize.
Ends(i) ==
    /\ pc' = [pc EXCEPT ![i] = "off"]
    /\ st' = [st EXCEPT ![i] = "initialize"]
    /\ pub' = [pub EXCEPT ![i] = "initialize"]
    /\ timer' = [timer EXCEPT ![i] = 0]
    /\ wait' = [wait EXCEPT ![i] = 0]
    /\ mai' = [mai EXCEPT ![i] = AdvertInterval(i)]
    /\ lag' = [lag EXCEPT ![i] = 0]

\* Top of the loop, stop flag seen: a Master sends priority 0 and releases.
StopSeen(i) ==
    /\ pc[i] = "top" /\ stop[i]
    /\ Ends(i)
    /\ IF st[i] = "master"
       THEN /\ inbox' = [Delivered(i, 0) EXCEPT ![i] = <<>>]
            /\ Release(HostOf[i])
       ELSE /\ inbox' = [inbox EXCEPT ![i] = <<>>]
            /\ UNCHANGED held
    /\ UNCHANGED <<envVars, calm, dual>>

\* Mutant: the wait is not capped.
ReadTimeoutUncapped(t) == Greater(t, MinWait)

\* The read timeout for a timer with t units left.
ReadTimeout(t) == Lesser(Greater(t, MinWait), MaxWait)

\* Top of the loop, on_health says resign: send 0, release, become Backup.
Resign(i) ==
    /\ pc[i] = "top" /\ ~stop[i]
    /\ st[i] = "master" /\ ~healthy[HostOf[i]]
    /\ pc' = [pc EXCEPT ![i] = "recv"]
    /\ st' = [st EXCEPT ![i] = "backup"]
    /\ pub' = [pub EXCEPT ![i] = "backup"]
    /\ timer' = [timer EXCEPT ![i] = MasterDown(i, mai[i])]
    /\ wait' = [wait EXCEPT ![i] = ReadTimeout(MasterDown(i, mai[i]))]
    /\ inbox' = Delivered(i, 0)
    /\ Release(HostOf[i])
    /\ lag' = [lag EXCEPT ![i] = 0]
    /\ UNCHANGED <<mai, envVars, calm, dual>>

\* Top of the loop, nothing to do: publish the state and block in recv_from.
Block(i) ==
    /\ pc[i] = "top" /\ ~stop[i]
    /\ ~(st[i] = "master" /\ ~healthy[HostOf[i]])
    /\ pc' = [pc EXCEPT ![i] = "recv"]
    /\ pub' = [pub EXCEPT ![i] = st[i]]
    /\ wait' = [wait EXCEPT ![i] = ReadTimeout(timer[i])]
    /\ lag' = [lag EXCEPT ![i] = 0]
    /\ UNCHANGED <<st, mai, timer, inbox, held, envVars, calm, dual>>

\* recv_from returned the oldest packet.
Received(i) ==
    /\ pc[i] = "recv" /\ inbox[i] # <<>>
    /\ pc' = [pc EXCEPT ![i] = "top"]
    /\ wait' = [wait EXCEPT ![i] = 0]
    /\ inbox' = [inbox EXCEPT ![i] = Tail(inbox[i])]
    /\ UNCHANGED <<pub, envVars, ghosts>>

\* A packet for another vrid (parse_advertisement: None), or an advertisement
\* on_advertisement ignores.
Ignored(i, msg) ==
    \/ msg = Foreign
    \/ msg # Foreign /\ st[i] = "backup" /\ msg.prio # 0 /\ ~Follows(i, msg)
    \/ msg # Foreign /\ st[i] = "master" /\ msg.prio # 0 /\ ~YieldsTo(i, msg)

RecvIgnored(i) ==
    /\ Received(i)
    /\ Ignored(i, Head(inbox[i]))
    /\ UNCHANGED <<st, mai, timer, held>>

\* Backup, the Master resigned: wait only Skew_Time.
RecvResigned(i) ==
    /\ Received(i)
    /\ st[i] = "backup" /\ Head(inbox[i]).prio = 0
    /\ timer' = [timer EXCEPT ![i] = Skew(i, mai[i])]
    /\ UNCHANGED <<st, mai, held>>

\* Backup, an acceptable Master: learn its interval, restart the timer.
RecvMaster(i) ==
    LET msg == Head(inbox[i])
        m   == Greater(msg.interval, 1)
    IN  /\ Received(i)
        /\ st[i] = "backup" /\ msg # Foreign /\ msg.prio # 0 /\ Follows(i, msg)
        /\ mai' = [mai EXCEPT ![i] = m]
        /\ timer' = [timer EXCEPT ![i] = MasterDown(i, m)]
        /\ UNCHANGED <<st, held>>

\* Master, a peer resigned: advertise now.
RecvPeerResigned(i) ==
    /\ Received(i)
    /\ st[i] = "master" /\ Head(inbox[i]).prio = 0
    /\ timer' = [timer EXCEPT ![i] = 0]
    /\ UNCHANGED <<st, mai, held>>

\* on_advertisement: Demoted.
Demote(i, msg) ==
    LET m == Greater(msg.interval, 1)
    IN  /\ st[i] = "master" /\ msg # Foreign /\ msg.prio # 0 /\ YieldsTo(i, msg)
        /\ st' = [st EXCEPT ![i] = "backup"]
        /\ mai' = [mai EXCEPT ![i] = m]
        /\ timer' = [timer EXCEPT ![i] = MasterDown(i, m)]

\* Mutant: the demoted Master keeps the address.
RecvDemotedKeeps(i) ==
    /\ Received(i)
    /\ Demote(i, Head(inbox[i]))
    /\ UNCHANGED held

\* Master, a better Master: release and become Backup.
RecvDemoted(i) ==
    /\ Received(i)
    /\ Demote(i, Head(inbox[i]))
    /\ Release(HostOf[i])

\* The read timed out: only then are the loop's own deadlines looked at.
TimedOut(i) ==
    /\ pc[i] = "recv" /\ inbox[i] = <<>> /\ wait[i] = 0
    /\ pc' = [pc EXCEPT ![i] = "top"]
    /\ UNCHANGED <<wait, pub, envVars, ghosts>>

Advertise(i) ==
    /\ TimedOut(i)
    /\ st[i] = "master" /\ timer[i] = 0
    /\ inbox' = Delivered(i, Priority[i])
    /\ timer' = [timer EXCEPT ![i] = AdvertInterval(i)]
    /\ UNCHANGED <<st, mai, held>>

\* on_master_down_timeout returns true; the next advertisement is due in t.
BecomeMaster(i, t) ==
    /\ TimedOut(i)
    /\ st[i] = "backup" /\ timer[i] = 0 /\ healthy[HostOf[i]]
    /\ st' = [st EXCEPT ![i] = "master"]
    /\ mai' = [mai EXCEPT ![i] = AdvertInterval(i)]
    /\ timer' = [timer EXCEPT ![i] = t]
    /\ UNCHANGED inbox

\* Mutant: the new Master does not claim the address.
TakeOverUnclaimed(i) == BecomeMaster(i, 0) /\ UNCHANGED held

\* Mutant: the new Master waits an interval before it advertises.
TakeOverSilent(i) == BecomeMaster(i, AdvertInterval(i)) /\ Claim(HostOf[i])

\* The master-down timer ran out: claim, advertise at once.
TakeOver(i) == BecomeMaster(i, 0) /\ Claim(HostOf[i])

\* on_master_down_timeout without one: restart the timer.
NotFit(i) ==
    /\ TimedOut(i)
    /\ st[i] = "backup" /\ timer[i] = 0 /\ ~healthy[HostOf[i]]
    /\ timer' = [timer EXCEPT ![i] = MasterDown(i, mai[i])]
    /\ UNCHANGED <<st, mai, inbox, held>>

\* Woken only to look at the stop flag and the health.
Woken(i) ==
    /\ TimedOut(i)
    /\ timer[i] > 0
    /\ UNCHANGED <<st, mai, timer, inbox, held>>

-----------------------------------------------------------------------------
(* The environment. *)

Fault(kind) ==
    /\ kind \in FaultKinds /\ faults < MaxFaults
    /\ faults' = faults + 1
    /\ calm' = 0 /\ dual' = 0

\* The pool of the VIP on h loses its last healthy backend, or gains one.
HealthChange(h) ==
    /\ Fault("health")
    /\ healthy' = [healthy EXCEPT ![h] = ~healthy[h]]
    /\ UNCHANGED <<loopVars, inbox, held, stop, cut, lag>>

\* Handle::stop.
Stop(i) ==
    /\ Fault("stop")
    /\ pc[i] # "off" /\ ~stop[i]
    /\ stop' = [stop EXCEPT ![i] = TRUE]
    /\ UNCHANGED <<loopVars, inbox, held, healthy, cut, lag>>

\* The link of h fails or comes back.
LinkChange(h) ==
    /\ Fault("cut")
    /\ cut' = IF h \in cut THEN cut \ {h} ELSE cut \cup {h}
    /\ UNCHANGED <<loopVars, inbox, held, stop, healthy, lag>>

\* recv_from fails for another reason than a timeout: the loop returns at once.
RecvError(i) ==
    /\ Fault("recv_error")
    /\ pc[i] = "recv"
    /\ Ends(i)
    /\ inbox' = [inbox EXCEPT ![i] = <<>>]
    /\ UNCHANGED <<held, stop, healthy, cut>>

\* A packet of another virtual router on the LAN (protocol 112, other vrid).
ForeignPacket(i) ==
    /\ Fault("foreign")
    /\ pc[i] # "off" /\ Len(inbox[i]) < MaxInbox
    /\ inbox' = [inbox EXCEPT ![i] = Append(@, Foreign)]
    /\ UNCHANGED <<loopVars, held, stop, healthy, cut, lag>>

\* Every thread of h is gone.
Dies(h) ==
    LET gone == {i \in Inst : HostOf[i] = h}
    IN  /\ \E i \in gone : pc[i] # "off"
        /\ pc' = [i \in Inst |-> IF i \in gone THEN "off" ELSE pc[i]]
        /\ st' = [i \in Inst |-> IF i \in gone THEN "initialize" ELSE st[i]]
        /\ pub' = [i \in Inst |-> IF i \in gone THEN "initialize" ELSE pub[i]]
        /\ mai' = [i \in Inst |-> IF i \in gone THEN AdvertInterval(i) ELSE mai[i]]
        /\ timer' = [i \in Inst |-> IF i \in gone THEN 0 ELSE timer[i]]
        /\ wait' = [i \in Inst |-> IF i \in gone THEN 0 ELSE wait[i]]
        /\ inbox' = [i \in Inst |-> IF i \in gone THEN <<>> ELSE inbox[i]]
        /\ lag' = [i \in Inst |-> IF i \in gone THEN 0 ELSE lag[i]]

\* The process exits (a signal, a panic, an error of main): there is no handler,
\* so nothing resigns and the kernel keeps the address.
Crash(h) ==
    /\ Fault("crash")
    /\ Dies(h)
    /\ UNCHANGED <<held, stop, healthy, cut>>

\* The machine reboots: the address goes with it.
Reboot(h) ==
    /\ Fault("reboot")
    /\ Dies(h)
    /\ held' = [held EXCEPT ![h] = FALSE]
    /\ UNCHANGED <<stop, healthy, cut>>

\* Instance i has nothing to do before time passes.
Idle(i) == pc[i] = "off" \/ (pc[i] = "recv" /\ inbox[i] = <<>> /\ wait[i] > 0)

Unanswered(i) ==
    pc[i] # "off" /\ (stop[i] \/ (st[i] = "master" /\ ~healthy[HostOf[i]]))

\* Mutant: the time left is a plain subtraction.
Down1Plain(n) == n - 1

\* saturating_duration_since one unit later.
Down1(n) == IF n = 0 THEN 0 ELSE n - 1

Holders == {h \in Hosts : held[h]}

\* Time passes.  The last three conjuncts only measure.
Tick ==
    /\ Timely => \A i \in Inst : Idle(i)
    /\ timer' = [i \in Inst |-> Down1(timer[i])]
    /\ wait' = [i \in Inst |-> Down1(wait[i])]
    /\ calm' = Lesser(calm + 1, Settle)
    /\ lag' = [i \in Inst |-> IF Unanswered(i) THEN Lesser(lag[i] + 1, MaxWait + 1)
                                               ELSE 0]
    /\ dual' = IF Cardinality(Holders) > 1 THEN Lesser(dual + 1, Settle) ELSE 0
    /\ UNCHANGED <<pc, st, mai, pub, inbox, held, envVars>>

-----------------------------------------------------------------------------

Init ==
    /\ pc = [i \in Inst |-> "off"]
    /\ st = [i \in Inst |-> "initialize"]
    /\ mai = [i \in Inst |-> AdvertInterval(i)]
    /\ timer = [i \in Inst |-> 0]
    /\ wait = [i \in Inst |-> 0]
    /\ inbox = [i \in Inst |-> <<>>]
    /\ stop = [i \in Inst |-> FALSE]
    /\ pub = [i \in Inst |-> "initialize"]
    /\ healthy \in [Hosts -> BOOLEAN]
    /\ held = [h \in Hosts |-> FALSE]
    /\ cut = {}
    /\ faults = 0
    /\ calm = 0
    /\ lag = [i \in Inst |-> 0]
    /\ dual = 0

Loop(i) ==
    \/ StopSeen(i) \/ Resign(i) \/ Block(i)
    \/ RecvIgnored(i) \/ RecvResigned(i) \/ RecvMaster(i)
    \/ RecvPeerResigned(i) \/ RecvDemoted(i)
    \/ Advertise(i) \/ TakeOver(i) \/ NotFit(i) \/ Woken(i)

Next ==
    \/ \E i \in Inst : Start(i) \/ Loop(i) \/ Stop(i) \/ RecvError(i) \/ ForeignPacket(i)
    \/ \E h \in Hosts : HealthChange(h) \/ LinkChange(h) \/ Crash(h) \/ Reboot(h)
    \/ Tick

Spec == Init /\ [][Next]_vars

\* Threads that run are scheduled, and time passes.  A thread that ended may stay so:
\* start_vrrp only logs an error of run, and nothing in the code starts it again.
FairSpec == Spec /\ WF_vars(Tick) /\ \A i \in Inst : WF_vars(Loop(i))

-----------------------------------------------------------------------------
(* Properties. *)

Messages == [prio : 0..255, src : Hosts, interval : Nat] \cup {Foreign}

\* Every variable stays in its type.
TypeOK ==
    /\ pc \in [Inst -> {"off", "top", "recv"}]
    /\ st \in [Inst -> {"initialize", "backup", "master"}]
    /\ mai \in [Inst -> Nat]
    /\ timer \in [Inst -> Nat]
    /\ wait \in [Inst -> Nat]
    /\ inbox \in [Inst -> Seq(Messages)]
    /\ stop \in [Inst -> BOOLEAN]
    /\ pub \in [Inst -> {"initialize", "backup", "master"}]
    /\ healthy \in [Hosts -> BOOLEAN]
    /\ held \in [Hosts -> BOOLEAN]
    /\ cut \in SUBSET Hosts
    /\ faults \in 0..MaxFaults
    /\ calm \in 0..Settle
    /\ lag \in [Inst -> 0..(MaxWait + 1)]
    /\ dual \in 0..Settle

\* What never loses track of the address: the process does not die, netlink
\* does not fail.
NeverDies == FaultKinds \cap {"crash", "recv_error", "release_fails"} = {}

\* The kernel has the VIP on a machine only while an instance there is Master:
\* every way out of Master (stop, health, demotion) releases it.
HolderIsMaster ==
    NeverDies =>
        \A h \in Hosts : held[h] => \E i \in Inst : HostOf[i] = h /\ st[i] = "master"

\* One instance on each machine: VRRP is not being restarted.
OneEach == \A i, j \in Inst : HostOf[i] = HostOf[j] => i = j

\* A Master has the VIP on its machine, if claiming works: what it advertises is
\* what it can serve.
MasterHolds ==
    OneEach /\ "claim_fails" \notin FaultKinds =>
        \A i \in Inst : st[i] = "master" => held[HostOf[i]]

\* Instances that can serve: running, not told to stop, with a healthy backend.
Fit == {i \in Inst : pc[i] # "off" /\ ~stop[i] /\ healthy[HostOf[i]]}

Masters == {i \in Inst : st[i] = "master"}

\* A fit instance is the only Master, and no fit instance that preempts has a
\* higher priority; without a fit instance there is no Master.
Elected ==
    IF Fit = {} THEN Masters = {}
    ELSE \E m \in Fit : /\ Masters = {m}
                         /\ \A k \in Fit : Preempt[k] => Priority[k] <= Priority[m]

\* However the group got there (split, resignations, restarts, errors), Settle
\* units after the last event the election is over and right.
ElectedInTime == calm = Settle /\ cut = {} => Elected

\* design.md: "the highest-priority healthy master holds it", and "VIP owner: one
\* node at a time": by then exactly the Masters' machines have the address.
PlacedInTime == calm = Settle => Holders = {HostOf[m] : m \in Masters}

\* If threads get to run, a stop or a lost pool is acted on within one read
\* timeout (vrrp.rs: "within about half a second"), whatever packets arrive.
AnsweredInTime == Timely => \A i \in Inst : lag[i] <= MaxWait

\* On a LAN that loses nothing two machines hold the VIP only until the better
\* Master's first advertisement.  An advertisement is sent when a read times out,
\* so each peer's own packets can put it off by one more MinWait.
BriefOverlap == dual <= MinWait * Cardinality(Hosts)

\* The election ends, and stays right.
Converges == <>[](cut = {}) => <>[]Elected
=============================================================================
