-------------------------------- MODULE Bgp --------------------------------
(***************************************************************************)
(* The BGP speaker (bgp.rs `session` and the reconnect loop of `spawn`)    *)
(* with one peer, and the task of main.rs that turns the config VIP's      *)
(* health into the watch channel the session follows.                      *)
(*                                                                         *)
(* The TCP connection is two queues; `rx` is what the reader task has read *)
(* and passed on.  The reader of a session that ended stays until its next *)
(* read.  The peer is a BGP router that follows the protocol, except for a *)
(* bounded number of faults.  `stuck` is a link that passes nothing and    *)
(* says nothing.  Time is in units; a task with something to do runs       *)
(* before time passes, which the real-time properties assume.              *)
(***************************************************************************)
EXTENDS Naturals, Sequences, FiniteSets

CONSTANTS
    HoldTime,    \* HOLD_TIME: the hold time of our OPEN
    OpenWait,    \* OPEN_WAIT: how long the peer's OPEN may take
    Backoff,     \* the pause between sessions
    PollEvery,   \* the pause between two looks at the pool (250 ms)
    PeerHolds,   \* hold times the peer may ask for
    MaxFlips,    \* changes of the pool's health
    MaxFaults    \* faults of the peer and the link

ASSUME BgpAssumption ==
    /\ HoldTime \in Nat /\ HoldTime >= 3
    /\ OpenWait \in Nat \ {0} /\ Backoff \in Nat \ {0} /\ PollEvery \in Nat \ {0}
    /\ PeerHolds \subseteq {0} \cup {h \in Nat : h >= 3}
    /\ MaxFlips \in Nat /\ MaxFaults \in Nat

VARIABLES
    pool,       \* the config VIP's pool has a healthy backend
    watch,      \* the value in the watch channel
    dirty,      \* this session's receiver has not seen its last change
    poll,       \* units until the health task looks again
    pc,         \* "idle", "opensent", "openconfirm", "established", "backoff"
    hold,       \* the negotiated hold time, 0 for none
    deadline,   \* units until the wait of this state ends
    keep,       \* units until the ticker fires
    announced,  \* the session's own flag
    rx, tx,     \* messages from and to the peer
    peer,       \* the peer's end: pc, hold, keep (its ticker), route (its table),
                \* said (ghost: it has sent a KEEPALIVE)
    stuck,      \* the link passes nothing
    lingers,    \* a reader of an ended session whose connection the peer still has
    orphans,    \* readers of ended sessions whose connection the peer has closed
    flips, faults,
    heard,      \* ghost: units since the established session read a message
    silent,     \* ghost: units since it wrote one
    stale       \* ghost: units the peer has had the route of an unhealthy pool

health   == <<pool, watch, poll, flips>>
session  == <<pc, hold, deadline, keep, announced>>
ghosts   == <<heard, silent, stale>>
readers  == <<lingers, orphans>>
vars     == <<health, dirty, session, rx, tx, peer, stuck, faults, readers, ghosts>>

NoPeer   == [pc |-> "none", hold |-> 0, keep |-> 0, route |-> FALSE,
             said |-> FALSE]
Lesser(a, b) == IF a <= b THEN a ELSE b

-----------------------------------------------------------------------------
(* Messages. *)

PeerOpen(h, good) == [t |-> "open", hold |-> h, good |-> good]
Plain(t)          == [t |-> t, hold |-> 0, good |-> TRUE]

\* Bytes written to a connection the peer has closed go nowhere.
Sent(ms) == IF peer.pc = "none" THEN tx ELSE tx \o ms

\* check_open: version and AS as configured, and a hold time RFC 4271 allows.
CheckOpen(m) == m.good /\ m.hold \notin {1, 2}

\* Mutant: the peer's hold time is not looked at.
HoldOurs(m) == HoldTime

\* The smaller of the two hold times.
Hold(m) == Lesser(HoldTime, m.hold)

-----------------------------------------------------------------------------
(* The health task of main.rs. *)

\* Mutant: only a pool that becomes healthy is said.
ChangedUp == ~watch /\ pool

\* send_if_modified notifies if the value changed.
Changed == watch # pool

Poll ==
    /\ poll = 0
    /\ watch' = pool
    /\ dirty' = (dirty \/ Changed)
    /\ poll' = PollEvery
    /\ UNCHANGED <<pool, flips, session, rx, tx, peer, stuck, faults, readers, ghosts>>

-----------------------------------------------------------------------------
(* session. *)

\* read_msg failed: the stream ended, or its marker or a length is wrong.  The
\* reader passes that on and returns.
ReadError == {"eof", "garbled"}
ReaderGone == \E i \in DOMAIN rx : rx[i].t \in ReadError

\* Mutant: the peer is told nothing, and our half stays open with the reader's.
GoodbyeNone(ms) == <<>>

\* The write half goes with the session, and with it our side of the stream.
Goodbye(ms) == ms \o <<"fin">>

\* The session ends, after writing ms; the reader's channel goes, not the reader.
\* spawn's loop pauses before the next one.
Ends(ms) ==
    /\ pc' = "backoff"
    /\ deadline' = Backoff
    /\ hold' = 0 /\ keep' = 0 /\ announced' = FALSE
    /\ tx' = Sent(Goodbye(ms))
    /\ rx' = <<>>
    /\ lingers' = (peer.pc # "none" /\ ~ReaderGone)
    /\ orphans' = IF peer.pc = "none" /\ ~ReaderGone THEN orphans + 1 ELSE orphans
    /\ heard' = 0 /\ silent' = 0
    /\ UNCHANGED <<health, dirty, peer, stuck, faults, stale>>

\* The end of the stream arrives: a reader nobody listens to returns.
ReaderEnds ==
    /\ orphans > 0 /\ ~stuck
    /\ orphans' = orphans - 1
    /\ UNCHANGED <<health, dirty, session, rx, tx, peer, stuck, faults, lingers, ghosts>>

\* `notify`: a NOTIFICATION first.
Notify == Ends(<<"notification">>)

\* The pause is over.
Retry ==
    /\ pc = "backoff" /\ deadline = 0
    /\ pc' = "idle"
    /\ UNCHANGED <<health, dirty, hold, deadline, keep, announced, rx, tx, peer, stuck,
                   faults, readers, ghosts>>

\* Connected: our OPEN goes out.  The peer takes one connection at a time.
Connect ==
    /\ pc = "idle" /\ ~stuck /\ peer.pc = "none"
    /\ pc' = "opensent" /\ deadline' = OpenWait
    /\ peer' = [NoPeer EXCEPT !.pc = "accepted"]
    /\ tx' = <<"open">> /\ rx' = <<>>
    /\ UNCHANGED <<health, dirty, hold, keep, announced, stuck, faults, readers, ghosts>>

\* Refused, or timed out.
ConnectFails ==
    /\ pc = "idle" /\ (stuck \/ peer.pc # "none")
    /\ pc' = "backoff" /\ deadline' = Backoff
    /\ UNCHANGED <<health, dirty, hold, keep, announced, rx, tx, peer, stuck, faults,
                   readers, ghosts>>

\* The peer's OPEN: answer with a KEEPALIVE, wait for its own.
AcceptOpen(next) ==
    LET h == Hold(Head(rx))
    IN  /\ pc = "opensent" /\ rx # <<>>
        /\ Head(rx).t = "open" /\ CheckOpen(Head(rx))
        /\ pc' = next /\ hold' = h
        /\ deadline' = IF h = 0 THEN OpenWait ELSE h
        /\ tx' = Sent(<<"keepalive">>)
        /\ rx' = Tail(rx)
        /\ UNCHANGED <<health, announced, peer, stuck, faults, readers, ghosts>>

\* Mutant: the session counts as Established with the peer's OPEN.
OpenAcceptedEarly == AcceptOpen("established") /\ dirty' = TRUE /\ keep' = hold' \div 3

OpenAccepted == AcceptOpen("openconfirm") /\ UNCHANGED <<dirty, keep>>

\* A wrong OPEN, or a message that is none, is answered with a NOTIFICATION.
OpenRefused ==
    /\ pc = "opensent" /\ rx # <<>>
    /\ Head(rx).t \notin {"notification"} \cup ReadError
    /\ ~(Head(rx).t = "open" /\ CheckOpen(Head(rx)))
    /\ Notify

\* Mutant: what the health said before the session is not looked at again.
EstablishedQuiet ==
    /\ pc = "openconfirm" /\ rx # <<>> /\ Head(rx).t = "keepalive"
    /\ pc' = "established"
    /\ deadline' = hold /\ keep' = hold \div 3
    /\ announced' = FALSE /\ heard' = 0
    /\ rx' = Tail(rx)
    /\ UNCHANGED <<health, dirty, hold, tx, peer, stuck, faults, silent, stale, readers>>

\* The peer's KEEPALIVE: Established.  mark_changed makes the loop look at the
\* health at once.
Established ==
    /\ pc = "openconfirm" /\ rx # <<>> /\ Head(rx).t = "keepalive"
    /\ pc' = "established"
    /\ deadline' = hold /\ keep' = hold \div 3
    /\ announced' = FALSE /\ dirty' = TRUE /\ heard' = 0
    /\ rx' = Tail(rx)
    /\ UNCHANGED <<health, hold, tx, peer, stuck, faults, silent, stale, readers>>

ConfirmRefused ==
    /\ pc = "openconfirm" /\ rx # <<>>
    /\ Head(rx).t \notin {"keepalive", "notification"} \cup ReadError
    /\ Notify

\* The wait for OPEN or KEEPALIVE is over.
WaitOver ==
    /\ pc \in {"opensent", "openconfirm"} /\ deadline = 0
    /\ Notify

\* In any state: the peer's NOTIFICATION, or no more messages to read.
PeerEnded ==
    /\ pc \in {"opensent", "openconfirm", "established"} /\ rx # <<>>
    /\ Head(rx).t \in {"notification"} \cup ReadError
    /\ Ends(<<>>)

(* The arms of the Established loop's select!: any ready one may win. *)

\* The ticker: a KEEPALIVE, with the deadline d from now on.
SendKeepalive(d) ==
    /\ pc = "established" /\ hold # 0 /\ keep = 0
    /\ tx' = Sent(<<"keepalive">>)
    /\ keep' = hold \div 3 /\ silent' = 0
    /\ deadline' = d
    /\ UNCHANGED <<health, dirty, pc, hold, announced, rx, peer, stuck, faults, readers, heard,
                   stale>>

\* Mutant: our own KEEPALIVE restarts the hold timer.
KeepaliveRestarts == SendKeepalive(hold)

Keepalive == SendKeepalive(deadline)

HoldExpired ==
    /\ pc = "established" /\ hold # 0 /\ deadline = 0
    /\ Notify

\* advertise.changed(), and then what changes for the peer.
HealthSeen(update, now) ==
    /\ pc = "established" /\ dirty
    /\ dirty' = FALSE
    /\ announced' = now
    /\ tx' = Sent(update)
    /\ silent' = IF update = <<>> THEN silent ELSE 0
    /\ UNCHANGED <<health, pc, hold, deadline, keep, rx, peer, stuck, faults, readers, heard,
                   stale>>

Announce == watch /\ ~announced /\ HealthSeen(<<"announce">>, TRUE)

\* Mutant: the flag changes, but no UPDATE goes out.
WithdrawForgotten == ~watch /\ announced /\ HealthSeen(<<>>, FALSE)

Withdraw == ~watch /\ announced /\ HealthSeen(<<"withdraw">>, FALSE)

NoChange == watch = announced /\ HealthSeen(<<>>, announced)

\* A KEEPALIVE or UPDATE of the peer restarts the hold timer.
PeerAlive ==
    /\ pc = "established" /\ rx # <<>>
    /\ Head(rx).t \in {"keepalive", "update"}
    /\ deadline' = hold /\ heard' = 0
    /\ rx' = Tail(rx)
    /\ UNCHANGED <<health, dirty, pc, hold, keep, announced, tx, peer, stuck, faults, silent,
                   stale, readers>>

PeerWrong ==
    /\ pc = "established" /\ rx # <<>>
    /\ Head(rx).t \in {"open", "other"}
    /\ Notify

\* A write of the loop fails: the peer has closed.
WriteFails ==
    /\ pc = "established" /\ peer.pc = "none"
    /\ dirty \/ (hold # 0 /\ keep = 0)
    /\ Ends(<<>>)

-----------------------------------------------------------------------------
(* The peer and the link (external). *)

\* A reader whose session has ended returns at its next message.
PeerSays(m, p) ==
    LET live == pc \in {"opensent", "openconfirm", "established"}
    IN  /\ peer' = [p EXCEPT !.said = @ \/ m.t = "keepalive"]
        /\ rx' = IF live /\ ~ReaderGone THEN Append(rx, m) ELSE rx
        /\ lingers' = FALSE
        /\ UNCHANGED <<health, dirty, session, stuck, orphans, ghosts>>

\* The peer closes its end.
PeerCloses ==
    /\ lingers' = FALSE
    /\ orphans' = IF lingers THEN orphans + 1 ELSE orphans

PeerOpens(h) ==
    /\ ~stuck /\ peer.pc = "accepted"
    /\ PeerSays(PeerOpen(h, TRUE), [peer EXCEPT !.pc = "opened", !.hold = Lesser(HoldTime, h)])
    /\ UNCHANGED <<tx, faults>>

\* Our OPEN is fine with the peer.
PeerConfirms ==
    /\ ~stuck /\ peer.pc = "opened" /\ tx # <<>> /\ Head(tx) = "open"
    /\ PeerSays(Plain("keepalive"), [peer EXCEPT !.pc = "up", !.keep = peer.hold \div 3])
    /\ tx' = Tail(tx)
    /\ UNCHANGED faults

PeerKeepalive ==
    /\ ~stuck /\ peer.pc = "up" /\ peer.hold # 0 /\ peer.keep = 0
    /\ PeerSays(Plain("keepalive"), [peer EXCEPT !.keep = peer.hold \div 3])
    /\ UNCHANGED <<tx, faults>>

\* The peer reads on: its table follows our UPDATEs, a NOTIFICATION or the end
\* of our stream ends the session and its routes.
PeerReads ==
    LET m == Head(tx)
    IN  /\ ~stuck /\ peer.pc # "none" /\ tx # <<>> /\ m # "open"
        /\ peer' = IF m \in {"notification", "fin"} THEN NoPeer
                   ELSE IF m = "keepalive" THEN peer
                   ELSE [peer EXCEPT !.route = (m = "announce")]
        /\ tx' = IF m \in {"notification", "fin"} THEN <<>> ELSE Tail(tx)
        /\ IF m \in {"notification", "fin"} THEN PeerCloses ELSE UNCHANGED readers
        /\ UNCHANGED <<health, dirty, session, rx, stuck, faults, ghosts>>

Fault == faults < MaxFaults /\ faults' = faults + 1

\* A message out of turn, or a bad OPEN.
PeerJunk(m) ==
    /\ Fault /\ ~stuck /\ peer.pc # "none"
    /\ PeerSays(m, peer)
    /\ UNCHANGED tx

\* The peer resets the session, with a NOTIFICATION or without.
PeerDrops(t) ==
    /\ Fault /\ ~stuck /\ peer.pc # "none"
    /\ PeerSays(Plain(t), NoPeer)
    /\ tx' = <<>>

\* The link stops passing anything, or passes again.
LinkChange ==
    /\ IF stuck THEN UNCHANGED faults ELSE Fault
    /\ stuck' = ~stuck
    /\ UNCHANGED <<health, dirty, session, rx, tx, peer, readers, ghosts>>

\* Cut off, the peer's own hold timer ends its session; we do not hear of it.
PeerExpires ==
    /\ stuck /\ peer.pc # "none" /\ peer.hold # 0
    /\ peer' = NoPeer /\ tx' = <<>>
    /\ PeerCloses
    /\ UNCHANGED <<health, dirty, session, rx, stuck, faults, ghosts>>

\* The last backend fails, or the first recovers.
HealthFlip ==
    /\ flips < MaxFlips
    /\ pool' = ~pool /\ flips' = flips + 1 /\ stale' = 0
    /\ UNCHANGED <<watch, poll, dirty, session, rx, tx, peer, stuck, faults, readers, heard,
                   silent>>

Down1(n) == IF n = 0 THEN 0 ELSE n - 1

\* Nothing is due now.
Rest ==
    /\ poll > 0 /\ rx = <<>> /\ pc # "idle"
    /\ pc = "established" => ~dirty /\ (hold # 0 => keep > 0 /\ deadline > 0)
    /\ pc # "established" => deadline > 0
    /\ ~stuck => tx = <<>> /\ orphans = 0 /\ (peer.pc = "up" /\ peer.hold # 0 => peer.keep > 0)

\* Time passes; the last three conjuncts only measure.
Tick ==
    /\ Rest
    /\ poll' = Down1(poll)
    /\ deadline' = Down1(deadline)
    /\ keep' = Down1(keep)
    /\ peer' = [peer EXCEPT !.keep = Down1(@)]
    /\ heard' = IF pc = "established" /\ hold # 0 THEN Lesser(heard + 1, hold + 1) ELSE 0
    /\ silent' = IF pc = "established" /\ hold # 0 THEN Lesser(silent + 1, hold + 1) ELSE 0
    /\ stale' = IF peer.route /\ ~pool /\ ~stuck THEN Lesser(stale + 1, PollEvery + 1) ELSE 0
    /\ UNCHANGED <<pool, watch, flips, dirty, pc, hold, announced, rx, tx, stuck, faults,
                   readers>>

-----------------------------------------------------------------------------

Init ==
    /\ pool \in BOOLEAN
    /\ watch = FALSE /\ dirty = FALSE /\ poll = 0
    /\ pc = "idle" /\ hold = 0 /\ deadline = 0 /\ keep = 0 /\ announced = FALSE
    /\ rx = <<>> /\ tx = <<>> /\ peer = NoPeer /\ stuck = FALSE
    /\ lingers = FALSE /\ orphans = 0
    /\ flips = 0 /\ faults = 0
    /\ heard = 0 /\ silent = 0 /\ stale = 0

Session ==
    \/ Retry \/ Connect \/ ConnectFails \/ OpenAccepted \/ OpenRefused
    \/ Established \/ ConfirmRefused \/ WaitOver \/ PeerEnded
    \/ Keepalive \/ HoldExpired \/ Announce \/ Withdraw \/ NoChange
    \/ PeerAlive \/ PeerWrong \/ WriteFails

Peer ==
    \/ \E h \in PeerHolds : PeerOpens(h)
    \/ PeerConfirms \/ PeerKeepalive \/ PeerReads

Junk == {PeerOpen(HoldTime, FALSE), PeerOpen(HoldTime, TRUE), PeerOpen(2, TRUE),
         Plain("keepalive"), Plain("update"), Plain("other"), Plain("garbled")}

Next ==
    \/ Session \/ ReaderEnds \/ Poll \/ Peer \/ Tick
    \/ \E m \in Junk : PeerJunk(m)
    \/ \E t \in {"notification", "eof"} : PeerDrops(t)
    \/ LinkChange \/ PeerExpires \/ HealthFlip

Spec == Init /\ [][Next]_vars

\* Tasks are scheduled, time passes, and the peer follows the protocol.
FairSpec ==
    /\ Spec
    /\ WF_vars(Session) /\ WF_vars(ReaderEnds) /\ WF_vars(Poll)
    /\ WF_vars(Peer) /\ WF_vars(Tick)

-----------------------------------------------------------------------------
(* Properties. *)

\* The peer's table once it has read q.
TableAfter(route, q) ==
    LET told == {i \in DOMAIN q : q[i] \in {"announce", "withdraw", "notification", "fin"}}
    IN  IF told = {} THEN route
        ELSE q[CHOOSE i \in told : \A j \in told : j <= i] = "announce"

\* The session's flag is the truth about the peer: once the peer has read what is
\* under way it has the route exactly if the session says it announced it, also
\* across sessions that ended at any point.
PeerTableRight ==
    peer.pc # "none" => (TableAfter(peer.route, tx) <=> announced)

\* bgp.rs: "only once the peer's KEEPALIVE arrives (Established) any UPDATE": the
\* peer has the route, or is about to, only if it has sent a KEEPALIVE.
AnnouncesWhenEstablished ==
    peer.pc # "none" /\ TableAfter(peer.route, tx) => peer.said

\* What is still to be read ends an Established session: an OPEN out of turn, or the
\* end of the stream.
Condemned == \E i \in DOMAIN rx : rx[i].t \in {"open"} \cup ReadError

\* Neither side is dropped or kept wrongly: bgp.rs: "a peer silent for a whole hold
\* time" is dropped, so an Established session never goes longer than that without
\* reading a message; and we write more often than the hold time the peer computed,
\* so it never has reason to drop us for silence (but for a peer that changed its
\* hold time by an OPEN out of turn, whose session is about to end).
HoldTimesKept ==
    pc = "established" =>
        /\ hold # 0 => heard <= hold
        /\ peer.pc = "up" /\ peer.hold # 0 /\ ~Condemned => silent < peer.hold

\* design.md: a withdraw is "as fast as the health check plus 250 ms": over a link
\* that works, the peer has the route of an unhealthy pool for one look at most.
WithdrawnInTime == stale <= PollEvery

\* Whatever happened before, the route ends up where the health is: over a link
\* that works at last the peer has it exactly while the pool is healthy.
RouteFollowsHealth == <>[]~stuck => <>[](peer.route = pool)

\* No reader outlives its session for ever: each session that ends leaves a task
\* and a socket behind, and over a link that works at last all of them go.
ReadersEnd == <>[]~stuck => <>[](~lingers /\ orphans = 0)
=============================================================================
