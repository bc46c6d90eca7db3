------------------------------ MODULE BgpProofs ------------------------------
(* Theorems about the BGP session, its peer and the health it follows, for     *)
(* every hold time, every pause and any number of faults.                      *)
EXTENDS Bgp, OrderLemmas, SequenceTheorems

USE BgpAssumption DEF BgpAssumption

-----------------------------------------------------------------------------
(* Types. *)

Out == {"open", "keepalive", "announce", "withdraw", "notification", "fin"}
In  == [t : {"open", "keepalive", "update", "other", "garbled", "notification", "eof"},
        hold : Nat, good : BOOLEAN]
Waiting == {"opensent", "openconfirm", "established"}

PeerType ==
    [pc : {"none", "accepted", "opened", "up"}, hold : Nat, keep : Nat, route : BOOLEAN,
     said : BOOLEAN]

\* Type correctness.
TypeInv ==
    /\ pool \in BOOLEAN /\ watch \in BOOLEAN /\ dirty \in BOOLEAN /\ poll \in Nat
    /\ pc \in {"idle", "backoff"} \cup Waiting
    /\ hold \in Nat /\ deadline \in Nat /\ keep \in Nat /\ announced \in BOOLEAN
    /\ rx \in Seq(In) /\ tx \in Seq(Out)
    /\ peer \in PeerType
    /\ stuck \in BOOLEAN /\ lingers \in BOOLEAN /\ orphans \in Nat
    /\ flips \in Nat /\ faults \in Nat
    /\ heard \in Nat /\ silent \in Nat /\ stale \in Nat

-----------------------------------------------------------------------------
(* The peer's table after a queue of messages. *)

Told == {"announce", "withdraw", "notification", "fin"}

\* The last message that tells of the route decides.
LEMMA TableLast ==
    ASSUME NEW r \in BOOLEAN, NEW q \in Seq(Out), NEW i \in DOMAIN q, q[i] \in Told,
           \A j \in DOMAIN q : q[j] \in Told => j <= i
    PROVE  TableAfter(r, q) <=> q[i] = "announce"
<1> DEFINE told == {j \in DOMAIN q : q[j] \in Told}
           k    == CHOOSE j \in told : \A l \in told : l <= j
<1>1. DOMAIN q = 1..Len(q) /\ Len(q) \in Nat
    BY LenProperties
<1>2. i \in told /\ \A l \in told : l <= i
    OBVIOUS
<1>3. k \in told /\ \A l \in told : l <= k
    BY <1>2
<1>4. k = i
    <2>1. k \in Nat /\ i \in Nat
        BY <1>1, <1>2, <1>3
    <2>2. k <= i /\ i <= k
        BY <1>2, <1>3
    <2> QED BY <2>1, <2>2
<1>5. TableAfter(r, q) <=> (IF told = {} THEN r ELSE q[k] = "announce")
    BY DEF TableAfter, Told
<1> HIDE DEF k
<1> QED BY <1>2, <1>4, <1>5

\* Without one the table stays.
LEMMA TableNone ==
    ASSUME NEW r \in BOOLEAN, NEW q \in Seq(Out), \A j \in DOMAIN q : q[j] \notin Told
    PROVE  TableAfter(r, q) <=> r
BY DEF TableAfter, Told

\* If there is one there is a last.
LEMMA TableSome ==
    ASSUME NEW q \in Seq(Out), NEW j \in DOMAIN q, q[j] \in Told
    PROVE  \E i \in DOMAIN q : q[i] \in Told /\ \A l \in DOMAIN q : q[l] \in Told => l <= i
<1> DEFINE T == {l \in DOMAIN q : q[l] \in Told}
<1>1. DOMAIN q = 1..Len(q) /\ Len(q) \in Nat
    BY LenProperties
<1>2. T \in SUBSET Nat /\ T # {} /\ \A l \in T : l <= Len(q)
    BY <1>1
<1>3. \E x \in T : \A y \in T : y <= x
    <2> HIDE DEF T
    <2> QED BY <1>1, <1>2, GreatestOf
<1> QED BY <1>3

\* A message more.
LEMMA TableAppend ==
    ASSUME NEW r \in BOOLEAN, NEW q \in Seq(Out), NEW m \in Out
    PROVE  TableAfter(r, q \o <<m>>) <=> IF m \in Told THEN m = "announce" ELSE TableAfter(r, q)
<1> DEFINE p == q \o <<m>>
           n == Len(q)
<1>1. /\ p \in Seq(Out) /\ DOMAIN p = 1..(n + 1) /\ DOMAIN q = 1..n /\ n \in Nat
      /\ p[n + 1] = m /\ \A j \in 1..n : p[j] = q[j]
    <2>1. <<m>> \in Seq(Out) /\ Len(<<m>>) = 1 /\ <<m>>[1] = m
        OBVIOUS
    <2> QED BY <2>1, ConcatProperties, LenProperties
<1> HIDE DEF p, n
<1>2. CASE m \in Told
    <2>1. n + 1 \in DOMAIN p /\ \A j \in DOMAIN p : j <= n + 1
        BY <1>1
    <2> QED BY <1>1, <1>2, <2>1, TableLast DEF p
<1>3. CASE m \notin Told /\ \A j \in DOMAIN q : q[j] \notin Told
    <2>1. \A j \in DOMAIN p : p[j] \notin Told
        BY <1>1, <1>3
    <2> QED BY <1>1, <1>3, <2>1, TableNone DEF p
<1>4. CASE m \notin Told /\ \E j \in DOMAIN q : q[j] \in Told
    <2>1. PICK i \in DOMAIN q : q[i] \in Told /\ \A l \in DOMAIN q : q[l] \in Told => l <= i
        BY <1>4, TableSome
    <2>2. /\ i \in DOMAIN p /\ p[i] = q[i]
          /\ \A l \in DOMAIN p : p[l] \in Told => l \in DOMAIN q /\ q[l] \in Told
        BY <1>1, <1>4, <2>1
    <2>3. TableAfter(r, p) <=> p[i] = "announce"
        BY <1>1, <2>1, <2>2, TableLast
    <2>4. TableAfter(r, q) <=> q[i] = "announce"
        BY <2>1, TableLast
    <2> QED BY <1>4, <2>2, <2>3, <2>4 DEF p
<1> QED BY <1>2, <1>3, <1>4

\* A message read.
LEMMA TableHead ==
    ASSUME NEW r \in BOOLEAN, NEW r2 \in BOOLEAN, NEW q \in Seq(Out), q # <<>>,
           r2 <=> IF Head(q) \in Told THEN Head(q) = "announce" ELSE r
    PROVE  TableAfter(r, q) <=> TableAfter(r2, Tail(q))
<1> DEFINE t == Tail(q)
           n == Len(q)
<1>1. /\ t \in Seq(Out) /\ n \in Nat \ {0} /\ DOMAIN q = 1..n /\ DOMAIN t = 1..(n - 1)
      /\ \A j \in 1..(n - 1) : t[j] = q[j + 1]
      /\ Head(q) = q[1]
    BY HeadTailProperties, LenProperties, EmptySeq
<1> HIDE DEF t, n
<1>3. CASE \E j \in DOMAIN t : t[j] \in Told
    <2>1. PICK i \in DOMAIN t : t[i] \in Told /\ \A l \in DOMAIN t : t[l] \in Told => l <= i
        BY <1>1, <1>3, TableSome
    <2>2. i + 1 \in DOMAIN q /\ q[i + 1] = t[i]
        BY <1>1, <2>1
    <2>3. ASSUME NEW l \in DOMAIN q, q[l] \in Told PROVE l <= i + 1
        <3>1. CASE l = 1
            BY <1>1, <2>1, <3>1
        <3>2. CASE l # 1
            <4>1. l - 1 \in DOMAIN t /\ t[l - 1] = q[l]
                BY <1>1, <3>2
            <4>2. l - 1 <= i
                BY <2>1, <2>3, <4>1
            <4> QED BY <1>1, <2>1, <4>2
        <3> QED BY <3>1, <3>2
    <2>4. TableAfter(r, q) <=> q[i + 1] = "announce"
        BY <2>1, <2>2, <2>3, TableLast
    <2>5. TableAfter(r2, t) <=> t[i] = "announce"
        BY <1>1, <2>1, TableLast
    <2> QED BY <2>2, <2>4, <2>5 DEF t
<1>4. CASE (\A j \in DOMAIN t : t[j] \notin Told) /\ Head(q) \in Told
    <2>1. ASSUME NEW l \in DOMAIN q, q[l] \in Told PROVE l <= 1
        <3>1. SUFFICES ASSUME l # 1 PROVE FALSE
            BY <1>1
        <3>2. l - 1 \in DOMAIN t /\ t[l - 1] = q[l]
            BY <1>1, <3>1
        <3> QED BY <1>4, <2>1, <3>2
    <2>2. TableAfter(r, q) <=> q[1] = "announce"
        BY <1>1, <1>4, <2>1, TableLast
    <2>3. TableAfter(r2, t) <=> r2
        BY <1>1, <1>4, TableNone
    <2> QED BY <1>1, <1>4, <2>2, <2>3 DEF t
<1>5. CASE (\A j \in DOMAIN t : t[j] \notin Told) /\ Head(q) \notin Told
    <2>1. ASSUME NEW l \in DOMAIN q PROVE q[l] \notin Told
        <3>1. CASE l = 1
            BY <1>1, <1>5, <3>1
        <3>2. CASE l # 1
            <4>1. l - 1 \in DOMAIN t /\ t[l - 1] = q[l]
                BY <1>1, <3>2
            <4> QED BY <1>5, <4>1
        <3> QED BY <3>1, <3>2
    <2>2. TableAfter(r, q) <=> r
        BY <2>1, TableNone
    <2>3. TableAfter(r2, t) <=> r2
        BY <1>1, <1>5, TableNone
    <2> QED BY <1>5, <2>2, <2>3 DEF t
<1> QED BY <1>3, <1>4, <1>5

-----------------------------------------------------------------------------
(* Type correctness, one step per action. *)

LEMMA SentType ==
    ASSUME TypeInv, NEW ms \in Seq(Out)
    PROVE  Sent(ms) \in Seq(Out)
BY ConcatProperties DEF Sent, TypeInv

LEMMA GoodbyeType == \A ms \in Seq(Out) : Goodbye(ms) \in Seq(Out)
<1>1. <<"fin">> \in Seq(Out)
    BY DEF Out
<1> QED BY <1>1, ConcatProperties DEF Goodbye

LEMMA NoPeerType == NoPeer \in PeerType
BY DEF NoPeer, PeerType

LEMMA EndsType ==
    ASSUME TypeInv, NEW ms \in Seq(Out), Ends(ms)
    PROVE  TypeInv'
<1>1. tx' \in Seq(Out)
    BY SentType, GoodbyeType DEF Ends
<1>2. rx' \in Seq(In)
    BY DEF Ends
<1>3. lingers' \in BOOLEAN
    BY Zenon DEF Ends
<1>4. orphans' \in Nat
    BY DEF Ends, TypeInv
<1>5. pc' \in {"idle", "backoff"} \cup Waiting /\ announced' \in BOOLEAN
    BY DEF Ends
<1>6. deadline' \in Nat /\ hold' \in Nat /\ keep' \in Nat /\ heard' \in Nat /\ silent' \in Nat
    BY DEF Ends
<1>7. UNCHANGED <<pool, watch, poll, flips, dirty, peer, stuck, faults, stale>>
    BY DEF Ends, health
<1> QED BY <1>1, <1>2, <1>3, <1>4, <1>5, <1>6, <1>7 DEF TypeInv

\* Every way a session ends.
Ending ==
    \/ OpenRefused \/ ConfirmRefused \/ WaitOver \/ PeerEnded \/ HoldExpired \/ PeerWrong
    \/ WriteFails

LEMMA EndingEnds == Ending => \E ms \in {<<>>, <<"notification">>} : Ends(ms)
BY DEF Ending, OpenRefused, ConfirmRefused, WaitOver, PeerEnded, HoldExpired, PeerWrong,
       WriteFails, Notify

LEMMA EndingType == TypeInv /\ Ending => TypeInv'
<1>1. <<>> \in Seq(Out) /\ <<"notification">> \in Seq(Out)
    BY DEF Out
<1> QED BY <1>1, EndsType, EndingEnds

\* What the peer says is read at the end of rx or not at all.
LEMMA PeerSaysRx ==
    ASSUME TypeInv, NEW m \in In, NEW p \in PeerType, PeerSays(m, p)
    PROVE  /\ rx' \in Seq(In) /\ peer' \in PeerType
           /\ rx' = rx \/ rx' = Append(rx, m)
<1>1. Append(rx, m) \in Seq(In)
    BY AppendProperties DEF TypeInv
<1>2. p.said \in BOOLEAN
    BY DEF PeerType
<1> QED BY <1>1, <1>2 DEF PeerSays, TypeInv, PeerType

\* The peer as its own steps leave it.
LEMMA PeerRecords ==
    ASSUME TypeInv
    PROVE  /\ \A h \in PeerHolds :
                  LET p == [peer EXCEPT !.pc = "opened", !.hold = Lesser(HoldTime, h)]
                  IN  /\ p \in PeerType /\ p.route = peer.route /\ p.said = peer.said
                      /\ p.pc = "opened" /\ p.hold = Lesser(HoldTime, h)
           /\ LET p == [peer EXCEPT !.pc = "up", !.keep = peer.hold \div 3]
              IN  /\ p \in PeerType /\ p.route = peer.route /\ p.said = peer.said
                  /\ p.pc = "up" /\ p.hold = peer.hold
           /\ LET p == [peer EXCEPT !.keep = peer.hold \div 3]
              IN  /\ p \in PeerType /\ p.route = peer.route /\ p.said = peer.said
                  /\ p.pc = peer.pc /\ p.hold = peer.hold
<1>1. \A h \in PeerHolds : Lesser(HoldTime, h) \in Nat
    BY DEF Lesser
<1>2. peer \in PeerType /\ peer.hold \div 3 \in Nat
    BY DEF TypeInv, PeerType
<1> QED BY <1>1, <1>2 DEF PeerType

\* Saying something changes nothing of the peer but that it has.
LEMMA PeerSaysPeer ==
    ASSUME NEW m, NEW p \in PeerType, PeerSays(m, p)
    PROVE  /\ peer'.pc = p.pc /\ peer'.hold = p.hold /\ peer'.keep = p.keep
           /\ peer'.route = p.route
           /\ peer'.said <=> p.said \/ m.t = "keepalive"
BY DEF PeerSays, PeerType

LEMMA PeerSaysType ==
    ASSUME TypeInv, NEW m \in In, NEW p \in PeerType, PeerSays(m, p),
           tx' \in Seq(Out), faults' \in Nat
    PROVE  TypeInv'
BY PeerSaysRx DEF PeerSays, TypeInv, health, session, ghosts

LEMMA PeerClosesType ==
    ASSUME TypeInv, PeerCloses
    PROVE  lingers' \in BOOLEAN /\ orphans' \in Nat
<1>1. lingers' \in BOOLEAN
    BY Zenon DEF PeerCloses
<1>2. orphans' \in Nat
    <2>1. orphans' = orphans \/ orphans' = orphans + 1
        BY DEF PeerCloses
    <2>2. orphans \in Nat
        BY DEF TypeInv
    <2> QED BY <2>1, <2>2
<1> QED BY <1>1, <1>2

LEMMA MessageTypes ==
    /\ \A t \in {"keepalive", "update", "other", "garbled", "notification", "eof"} : Plain(t) \in In
    /\ \A h \in Nat, g \in BOOLEAN : PeerOpen(h, g) \in In
    /\ \A m \in Junk : m \in In
BY DEF Plain, PeerOpen, In, Junk

LEMMA TypeStep == TypeInv /\ [Next]_vars => TypeInv'
<1> SUFFICES ASSUME TypeInv, [Next]_vars PROVE TypeInv'
    OBVIOUS
<1>1. /\ <<"open">> \in Seq(Out) /\ <<"keepalive">> \in Seq(Out) /\ <<"announce">> \in Seq(Out)
      /\ <<"withdraw">> \in Seq(Out) /\ <<>> \in Seq(Out) /\ <<>> \in Seq(In)
    BY DEF Out
<1>2. rx # <<>> => Tail(rx) \in Seq(In) /\ Head(rx) \in In
    BY HeadTailProperties DEF TypeInv
<1>3. tx # <<>> => Tail(tx) \in Seq(Out)
    BY HeadTailProperties DEF TypeInv
<1>4. hold \div 3 \in Nat /\ peer.hold \div 3 \in Nat
    BY DEF TypeInv, PeerType
<1>5. CASE UNCHANGED vars
    BY <1>5 DEF vars, health, session, readers, ghosts, TypeInv
<1>6. CASE Retry \/ ConnectFails
    BY <1>6 DEF Retry, ConnectFails, TypeInv, Waiting, health, readers, ghosts
<1>7. CASE Connect
    <2>1. peer' \in PeerType
        BY <1>7, NoPeerType DEF Connect, PeerType
    <2> QED BY <1>1, <1>7, <2>1 DEF Connect, TypeInv, Waiting, health, readers, ghosts
<1>8. CASE OpenAccepted
    <2>1. Hold(Head(rx)) \in Nat
        BY <1>2, <1>8 DEF OpenAccepted, AcceptOpen, Hold, Lesser, In
    <2>2. tx' \in Seq(Out) /\ rx' \in Seq(In)
        BY <1>1, <1>2, <1>8, SentType DEF OpenAccepted, AcceptOpen
    <2> QED BY <1>8, <2>1, <2>2
        DEF OpenAccepted, AcceptOpen, TypeInv, Waiting, health, readers, ghosts
<1>9. CASE Established
    BY <1>2, <1>4, <1>9 DEF Established, TypeInv, Waiting, health, readers
<1>10. CASE Ending
    BY <1>10, EndingType
<1>11. CASE Keepalive
    <2>1. tx' \in Seq(Out)
        BY <1>1, <1>11, SentType DEF Keepalive, SendKeepalive
    <2> QED BY <1>4, <1>11, <2>1 DEF Keepalive, SendKeepalive, TypeInv, health, readers
<1>12. CASE Announce \/ Withdraw \/ NoChange
    <2>1. tx' \in Seq(Out)
        BY <1>1, <1>12, SentType DEF Announce, Withdraw, NoChange, HealthSeen
    <2>2. announced' \in BOOLEAN
        BY <1>12 DEF Announce, Withdraw, NoChange, HealthSeen, TypeInv
    <2>3. silent' \in Nat /\ dirty' \in BOOLEAN
        <3>1. ASSUME NEW u, NEW now, HealthSeen(u, now) PROVE silent' \in Nat /\ dirty' \in BOOLEAN
            <4>1. silent' = silent \/ silent' = 0
                BY <3>1 DEF HealthSeen
            <4>2. dirty' \in BOOLEAN
                BY <3>1, Zenon DEF HealthSeen
            <4>3. silent \in Nat
                BY DEF TypeInv
            <4> QED BY <4>1, <4>2, <4>3
        <3> QED BY <1>12, <3>1 DEF Announce, Withdraw, NoChange
    <2>4. UNCHANGED <<pool, watch, poll, flips, pc, hold, deadline, keep, rx, peer, stuck, faults,
                      lingers, orphans, heard, stale>>
        BY <1>12 DEF Announce, Withdraw, NoChange, HealthSeen, health, readers
    <2> QED BY <2>1, <2>2, <2>3, <2>4 DEF TypeInv
<1>13. CASE PeerAlive
    BY <1>2, <1>13 DEF PeerAlive, TypeInv, health, readers
<1>14. CASE ReaderEnds
    BY <1>14 DEF ReaderEnds, TypeInv, health, session, ghosts
<1>15. CASE Poll
    BY <1>15 DEF Poll, TypeInv, session, readers, ghosts
<1>16. ASSUME NEW h \in PeerHolds, PeerOpens(h) PROVE TypeInv'
    <2>1. [peer EXCEPT !.pc = "opened", !.hold = Lesser(HoldTime, h)] \in PeerType
        BY PeerRecords
    <2>2. PeerOpen(h, TRUE) \in In
        BY MessageTypes
    <2> QED BY <1>16, <2>1, <2>2, PeerSaysType DEF PeerOpens, TypeInv
<1>17. CASE PeerConfirms
    <2>1. [peer EXCEPT !.pc = "up", !.keep = peer.hold \div 3] \in PeerType
        BY PeerRecords
    <2> QED BY <1>3, <1>17, <2>1, MessageTypes, PeerSaysType DEF PeerConfirms, TypeInv
<1>18. CASE PeerKeepalive
    <2>1. [peer EXCEPT !.keep = peer.hold \div 3] \in PeerType
        BY PeerRecords
    <2> QED BY <1>18, <2>1, MessageTypes, PeerSaysType DEF PeerKeepalive, TypeInv
<1>19. CASE PeerReads
    <2>1. peer' \in PeerType
        BY <1>19, NoPeerType DEF PeerReads, TypeInv, PeerType
    <2>2. tx' \in Seq(Out)
        BY <1>1, <1>3, <1>19 DEF PeerReads
    <2>3. lingers' \in BOOLEAN /\ orphans' \in Nat
        BY <1>19, PeerClosesType DEF PeerReads, TypeInv, readers
    <2>4. UNCHANGED <<pool, watch, poll, flips, dirty, pc, hold, deadline, keep, announced, rx,
                      stuck, faults, heard, silent, stale>>
        BY <1>19 DEF PeerReads, health, session, ghosts
    <2> QED BY <2>1, <2>2, <2>3, <2>4 DEF TypeInv
<1>20. CASE Tick
    <2>1. ASSUME NEW n \in Nat PROVE Down1(n) \in Nat
        BY DEF Down1
    <2>2. ASSUME NEW n \in Nat, NEW m \in Nat PROVE Lesser(n + 1, m + 1) \in Nat
        BY DEF Lesser
    <2>3. poll' \in Nat /\ deadline' \in Nat /\ keep' \in Nat
        BY <1>20, <2>1 DEF Tick, TypeInv
    <2>4. heard' \in Nat /\ silent' \in Nat
        BY <1>20, <2>2 DEF Tick, TypeInv
    <2>5. stale' \in Nat
        BY <1>20, <2>2 DEF Tick, TypeInv
    <2>6. peer' \in PeerType
        BY <1>20, <2>1 DEF Tick, TypeInv, PeerType
    <2> QED BY <1>20, <2>3, <2>4, <2>5, <2>6 DEF Tick, TypeInv, readers
<1>21. ASSUME NEW m \in Junk, PeerJunk(m) PROVE TypeInv'
    BY <1>21, MessageTypes, PeerSaysType DEF PeerJunk, Fault, TypeInv
<1>22. ASSUME NEW t \in {"notification", "eof"}, PeerDrops(t) PROVE TypeInv'
    BY <1>1, <1>22, MessageTypes, NoPeerType, PeerSaysType DEF PeerDrops, Fault, TypeInv
<1>23. CASE LinkChange
    BY <1>23 DEF LinkChange, Fault, TypeInv, health, session, readers, ghosts
<1>24. CASE PeerExpires
    <2>1. lingers' \in BOOLEAN /\ orphans' \in Nat
        BY <1>24, PeerClosesType DEF PeerExpires
    <2>2. peer' \in PeerType /\ tx' \in Seq(Out)
        BY <1>1, <1>24, NoPeerType DEF PeerExpires
    <2> QED BY <1>24, <2>1, <2>2 DEF PeerExpires, TypeInv, health, session, ghosts
<1>25. CASE HealthFlip
    BY <1>25 DEF HealthFlip, TypeInv, session, readers
<1> QED BY <1>5, <1>6, <1>7, <1>8, <1>9, <1>10, <1>11, <1>12, <1>13, <1>14, <1>15, <1>16, <1>17,
           <1>18, <1>19, <1>20, <1>21, <1>22, <1>23, <1>24, <1>25
        DEF Next, Session, Peer, Ending

LEMMA TypeStart == Init => TypeInv
<1> SUFFICES ASSUME Init PROVE TypeInv
    OBVIOUS
<1>1. rx \in Seq(In) /\ tx \in Seq(Out) /\ peer \in PeerType
    BY NoPeerType DEF Init
<1> QED BY <1>1 DEF Init, TypeInv

\* Every variable keeps its type.
THEOREM TypeCorrect == Spec => []TypeInv
BY TypeStart, TypeStep, PTL DEF Spec

-----------------------------------------------------------------------------
(* The peer's table. *)

\* A session that is not Established has announced nothing.
QuietInv == pc # "established" => ~announced

\* One message sent.
LEMMA SendOne ==
    ASSUME TypeInv, NEW m \in Out, tx' = Sent(<<m>>), UNCHANGED peer, peer.pc # "none"
    PROVE  TableAfter(peer'.route, tx') <=>
           IF m \in Told THEN m = "announce" ELSE TableAfter(peer.route, tx)
<1>1. peer.route \in BOOLEAN /\ tx \in Seq(Out)
    BY DEF TypeInv, PeerType
<1>2. tx' = tx \o <<m>>
    BY DEF Sent
<1>3. TableAfter(peer.route, tx \o <<m>>) <=>
      IF m \in Told THEN m = "announce" ELSE TableAfter(peer.route, tx)
    BY <1>1, TableAppend
<1> QED BY <1>2, <1>3

\* The last thing a session sends takes its route back.
LEMMA EndsTable ==
    ASSUME TypeInv, NEW ms \in Seq(Out), Ends(ms), peer.pc # "none"
    PROVE  ~TableAfter(peer'.route, tx')
<1>1. peer.route \in BOOLEAN /\ tx \in Seq(Out) /\ peer' = peer /\ "fin" \in Out /\ "fin" \in Told
    BY DEF TypeInv, PeerType, Ends, Out, Told
<1>2. <<"fin">> \in Seq(Out)
    BY DEF Out
<1>3. tx' = tx \o (ms \o <<"fin">>)
    BY DEF Ends, Sent, Goodbye
<1>4. tx' = (tx \o ms) \o <<"fin">> /\ tx \o ms \in Seq(Out)
    BY <1>1, <1>2, <1>3, ConcatAssociative, ConcatProperties
<1>5. TableAfter(peer.route, (tx \o ms) \o <<"fin">>) <=> "fin" = "announce"
    BY <1>1, <1>4, TableAppend
<1> QED BY <1>1, <1>4, <1>5

\* One message read.
LEMMA ReadOne ==
    ASSUME TypeInv, tx # <<>>, tx' = Tail(tx), peer'.route \in BOOLEAN,
           peer'.route <=> IF Head(tx) \in Told THEN Head(tx) = "announce" ELSE peer.route
    PROVE  TableAfter(peer'.route, tx') <=> TableAfter(peer.route, tx)
<1>1. peer.route \in BOOLEAN /\ tx \in Seq(Out)
    BY DEF TypeInv, PeerType
<1> QED BY <1>1, TableHead

LEMMA TableStep ==
    TypeInv /\ QuietInv /\ PeerTableRight /\ [Next]_vars => QuietInv' /\ PeerTableRight'
<1> SUFFICES ASSUME TypeInv, QuietInv, PeerTableRight, [Next]_vars
             PROVE  QuietInv' /\ PeerTableRight'
    OBVIOUS
<1> DEFINE Goal == QuietInv' /\ PeerTableRight'
<1>1. ASSUME UNCHANGED <<tx, announced>>, peer'.route = peer.route,
             peer.pc = "none" => peer'.pc = "none",
             (pc' = "established") <=> (pc = "established")
      PROVE  Goal
    BY <1>1 DEF QuietInv, PeerTableRight
<1>2. CASE Retry \/ ConnectFails \/ UNCHANGED vars
    BY <1>1, <1>2 DEF Retry, ConnectFails, vars, session
<1>3. CASE Connect
    <2>1. /\ pc' # "established" /\ ~announced' /\ tx' = <<"open">>
          /\ peer' = [NoPeer EXCEPT !.pc = "accepted"]
        BY <1>3 DEF Connect, QuietInv
    <2>2. peer'.route = FALSE
        BY <2>1 DEF NoPeer
    <2>3. <<"open">> \in Seq(Out) /\ \A j \in DOMAIN <<"open">> : <<"open">>[j] \notin Told
        BY DEF Out, Told
    <2>4. ~TableAfter(FALSE, <<"open">>)
        BY <2>3, TableNone
    <2> QED BY <2>1, <2>2, <2>4 DEF QuietInv, PeerTableRight
<1>4. CASE OpenAccepted
    <2>1. /\ pc' = "openconfirm" /\ pc = "opensent" /\ UNCHANGED <<announced, peer>>
          /\ tx' = Sent(<<"keepalive">>)
        BY <1>4 DEF OpenAccepted, AcceptOpen
    <2>2. peer.pc # "none" => (TableAfter(peer'.route, tx') <=> TableAfter(peer.route, tx))
        BY <2>1, SendOne DEF Out, Told
    <2> QED BY <2>1, <2>2 DEF QuietInv, PeerTableRight
<1>5. CASE Established
    BY <1>5 DEF Established, QuietInv, PeerTableRight
<1>6. CASE Ending
    <2>1. PICK ms \in {<<>>, <<"notification">>} : Ends(ms)
        BY <1>6, EndingEnds
    <2>2. ms \in Seq(Out)
        <3>1. <<>> \in Seq(Out) /\ <<"notification">> \in Seq(Out)
            BY DEF Out
        <3> QED BY <3>1
    <2>3. ~announced' /\ peer' = peer
        BY <2>1 DEF Ends
    <2> QED BY <2>1, <2>2, <2>3, EndsTable DEF QuietInv, PeerTableRight
<1>7. CASE Keepalive
    <2>1. UNCHANGED <<pc, announced, peer>> /\ tx' = Sent(<<"keepalive">>)
        BY <1>7 DEF Keepalive, SendKeepalive
    <2>2. peer.pc # "none" => (TableAfter(peer'.route, tx') <=> TableAfter(peer.route, tx))
        BY <2>1, SendOne DEF Out, Told
    <2> QED BY <2>1, <2>2 DEF QuietInv, PeerTableRight
<1>8. CASE Announce
    <2>1. announced' /\ pc' = "established" /\ UNCHANGED peer /\ tx' = Sent(<<"announce">>)
        BY <1>8 DEF Announce, HealthSeen
    <2>2. peer.pc # "none" => TableAfter(peer'.route, tx')
        BY <2>1, SendOne DEF Out, Told
    <2> QED BY <2>1, <2>2 DEF QuietInv, PeerTableRight
<1>9. CASE Withdraw
    <2>1. ~announced' /\ UNCHANGED peer /\ tx' = Sent(<<"withdraw">>)
        BY <1>9 DEF Withdraw, HealthSeen
    <2>2. peer.pc # "none" => ~TableAfter(peer'.route, tx')
        BY <2>1, SendOne DEF Out, Told
    <2> QED BY <2>1, <2>2 DEF QuietInv, PeerTableRight
<1>10. CASE NoChange
    <2>1. UNCHANGED <<pc, announced, peer>> /\ tx' = Sent(<<>>)
        BY <1>10 DEF NoChange, HealthSeen
    <2>2. tx' = tx
        BY <2>1, ConcatEmptySeq DEF Sent, TypeInv
    <2> QED BY <1>1, <2>1, <2>2
<1>11. CASE PeerAlive \/ ReaderEnds \/ Poll \/ LinkChange \/ HealthFlip
    BY <1>1, <1>11 DEF PeerAlive, ReaderEnds, Poll, LinkChange, HealthFlip, session
<1>12. CASE (\E h \in PeerHolds : PeerOpens(h)) \/ PeerKeepalive \/ \E m \in Junk : PeerJunk(m)
    <2>1. UNCHANGED <<tx, pc, announced>> /\ peer.pc # "none"
        BY <1>12 DEF PeerOpens, PeerKeepalive, PeerJunk, PeerSays, session
    <2>2. peer'.route = peer.route
        <3>1. ASSUME NEW h \in PeerHolds, PeerOpens(h) PROVE peer'.route = peer.route
            <4> DEFINE p == [peer EXCEPT !.pc = "opened", !.hold = Lesser(HoldTime, h)]
            <4>1. p \in PeerType /\ p.route = peer.route
                BY PeerRecords
            <4> QED BY <3>1, <4>1, PeerSaysPeer DEF PeerOpens
        <3>2. ASSUME PeerKeepalive PROVE peer'.route = peer.route
            <4> DEFINE p == [peer EXCEPT !.keep = peer.hold \div 3]
            <4>1. p \in PeerType /\ p.route = peer.route
                BY PeerRecords
            <4> QED BY <3>2, <4>1, PeerSaysPeer DEF PeerKeepalive
        <3>3. ASSUME NEW m \in Junk, PeerJunk(m) PROVE peer'.route = peer.route
            BY <3>3, PeerSaysPeer DEF PeerJunk, TypeInv
        <3> QED BY <1>12, <3>1, <3>2, <3>3
    <2> QED BY <1>1, <2>1, <2>2
<1>13. CASE PeerConfirms
    <2>1. /\ UNCHANGED <<pc, announced>> /\ peer.pc # "none" /\ tx # <<>> /\ Head(tx) = "open"
          /\ tx' = Tail(tx)
        BY <1>13 DEF PeerConfirms, PeerSays, session
    <2>2. peer'.route = peer.route /\ peer'.route \in BOOLEAN
        <3> DEFINE p == [peer EXCEPT !.pc = "up", !.keep = peer.hold \div 3]
        <3>1. p \in PeerType /\ p.route = peer.route /\ peer.route \in BOOLEAN
            BY PeerRecords DEF TypeInv, PeerType
        <3> QED BY <1>13, <3>1, PeerSaysPeer DEF PeerConfirms
    <2>3. TableAfter(peer'.route, tx') <=> TableAfter(peer.route, tx)
        BY <2>1, <2>2, ReadOne DEF Told
    <2> QED BY <2>1, <2>3 DEF QuietInv, PeerTableRight
<1>14. CASE PeerReads
    <2>1. UNCHANGED <<pc, announced>> /\ peer.pc # "none" /\ tx # <<>> /\ Head(tx) # "open"
        BY <1>14 DEF PeerReads, session
    <2>2. CASE Head(tx) \in {"notification", "fin"}
        <3>1. peer' = NoPeer
            BY <1>14, <2>2 DEF PeerReads
        <3> QED BY <2>1, <3>1 DEF QuietInv, PeerTableRight, NoPeer
    <2>3. CASE Head(tx) \notin {"notification", "fin"}
        <3>1. Head(tx) \in {"keepalive", "announce", "withdraw"}
            BY <2>1, <2>3, HeadTailProperties DEF TypeInv, Out
        <3>2. /\ tx' = Tail(tx)
              /\ peer'.route <=> IF Head(tx) \in Told THEN Head(tx) = "announce" ELSE peer.route
            BY <1>14, <3>1 DEF PeerReads, TypeInv, PeerType, Told
        <3>4. peer'.route \in BOOLEAN
            BY TypeStep DEF TypeInv, PeerType
        <3>3. TableAfter(peer'.route, tx') <=> TableAfter(peer.route, tx)
            BY <2>1, <3>2, <3>4, ReadOne
        <3> QED BY <2>1, <3>3 DEF QuietInv, PeerTableRight
    <2> QED BY <2>2, <2>3
<1>15. CASE Tick
    <2>1. peer'.route = peer.route /\ peer'.pc = peer.pc
        BY <1>15 DEF Tick, TypeInv, PeerType
    <2> QED BY <1>1, <1>15, <2>1 DEF Tick
<1>16. CASE PeerExpires \/ \E t \in {"notification", "eof"} : PeerDrops(t)
    <2>1. UNCHANGED <<pc, announced>> /\ peer'.pc = "none"
        BY <1>16 DEF PeerExpires, PeerDrops, PeerSays, session, NoPeer
    <2> QED BY <2>1 DEF QuietInv, PeerTableRight
<1> HIDE DEF Goal
<1> SUFFICES Goal
    BY DEF Goal
<1> QED BY <1>2, <1>3, <1>4, <1>5, <1>6, <1>7, <1>8, <1>9, <1>10, <1>11, <1>12, <1>13, <1>14,
           <1>15, <1>16 DEF Next, Session, Peer, Ending, Goal

-----------------------------------------------------------------------------
(* What is still to be read. *)

Has(q, S) == \E i \in DOMAIN q : q[i] \in S

LEMMA HasAppend ==
    ASSUME NEW q \in Seq(In), NEW m \in In, NEW S
    PROVE  Has(Append(q, m), S) <=> Has(q, S) \/ m \in S
<1> DEFINE p == Append(q, m)
           n == Len(q)
<1>1. /\ DOMAIN p = 1..(n + 1) /\ DOMAIN q = 1..n /\ n \in Nat
      /\ p[n + 1] = m /\ \A j \in 1..n : p[j] = q[j]
    BY AppendProperties, LenProperties
<1> HIDE DEF p, n
<1>2. ASSUME NEW i \in DOMAIN p, p[i] \in S PROVE Has(q, S) \/ m \in S
    <2>1. i \in 1..n \/ i = n + 1
        BY <1>1
    <2> QED BY <1>1, <1>2, <2>1 DEF Has
<1>3. Has(q, S) \/ m \in S => \E i \in DOMAIN p : p[i] \in S
    <2>1. n + 1 \in DOMAIN p /\ 1..n \subseteq DOMAIN p
        BY <1>1
    <2> QED BY <1>1, <2>1 DEF Has
<1> QED BY <1>2, <1>3 DEF Has, p

LEMMA HasTail ==
    ASSUME NEW q \in Seq(In), q # <<>>, NEW S
    PROVE  Has(q, S) <=> Head(q) \in S \/ Has(Tail(q), S)
<1> DEFINE t == Tail(q)
           n == Len(q)
<1>1. /\ n \in Nat \ {0} /\ DOMAIN q = 1..n /\ DOMAIN t = 1..(n - 1)
      /\ \A j \in 1..(n - 1) : t[j] = q[j + 1]
      /\ Head(q) = q[1]
    BY HeadTailProperties, LenProperties, EmptySeq
<1> HIDE DEF t, n
<1>2. ASSUME NEW i \in DOMAIN q, q[i] \in S PROVE Head(q) \in S \/ \E j \in DOMAIN t : t[j] \in S
    <2>1. CASE i = 1
        BY <1>1, <1>2, <2>1
    <2>2. CASE i # 1
        <3>1. i - 1 \in DOMAIN t /\ t[i - 1] = q[i]
            BY <1>1, <2>2
        <3> QED BY <1>2, <3>1
    <2> QED BY <2>1, <2>2
<1>3. ASSUME NEW j \in DOMAIN t, t[j] \in S PROVE \E i \in DOMAIN q : q[i] \in S
    <2>1. j + 1 \in DOMAIN q /\ q[j + 1] = t[j]
        BY <1>1
    <2> QED BY <1>3, <2>1
<1>4. 1 \in DOMAIN q
    BY <1>1
<1> QED BY <1>1, <1>2, <1>3, <1>4 DEF Has, t

LEMMA HasNone == \A S : ~Has(<<>>, S)
BY DEF Has

Alive     == {m \in In : m.t = "keepalive"}
Fatal     == {m \in In : m.t \in {"open"} \cup ReadError}
Opening(h) == {m \in In : \/ m.t \in ReadError
                          \/ m.t = "open" /\ Lesser(HoldTime, m.hold) = h}

LEMMA ReaderGoneHas ==
    ASSUME TypeInv
    PROVE  /\ ReaderGone => Has(rx, Fatal) /\ \A h : Has(rx, Opening(h))
           /\ Has(rx, Fatal) <=> Condemned
<1>1. \A i \in DOMAIN rx : rx[i] \in In
    BY ElementOfSeq, LenProperties DEF TypeInv
<1> QED BY <1>1 DEF Has, ReaderGone, Fatal, Opening, Condemned

-----------------------------------------------------------------------------
(* The invariants beside that of the peer's table. *)

\* A KEEPALIVE that was read, or waits to be, was said.
SaidInv ==
    peer.pc # "none" /\ (pc = "established" \/ Has(rx, Alive)) => peer.said

\* The hold timer and the time since the last message make up the hold time; the
\* ticker and the time since our last message stay within a third of it.
TimersInv ==
    /\ hold # 1 /\ hold # 2
    /\ pc = "established" /\ hold # 0 => heard + deadline = hold /\ silent + keep <= hold \div 3
    /\ pc # "established" \/ hold = 0 => silent = 0

\* Both ends have the same hold time, unless an OPEN or the end of the stream is
\* still to be read.
OpenInv ==
    peer.pc \in {"opened", "up"} =>
        /\ pc = "opensent" => Has(rx, Opening(peer.hold))
        /\ pc \in {"openconfirm", "established"} => hold = peer.hold \/ Has(rx, Fatal)

\* A session with nothing to look at has announced what the health task said last.
SeenInv == pc = "established" /\ ~dirty => (announced <=> watch)

\* The peer's route of an unhealthy pool is older than the last look at the pool only
\* if that look has been said.
StaleInv ==
    /\ peer.pc = "none" => ~peer.route
    /\ poll <= PollEvery /\ stale <= PollEvery
    /\ stale > 0 => ~pool /\ (watch => stale + poll <= PollEvery)

LEMMA TickPeer ==
    ASSUME TypeInv, Tick
    PROVE  /\ peer'.pc = peer.pc /\ peer'.hold = peer.hold /\ peer'.route = peer.route
           /\ peer'.said = peer.said
BY DEF Tick, TypeInv, PeerType

\* A message of the peer that is not its last.
Speaks ==
    \/ \E h \in PeerHolds : PeerOpens(h)
    \/ PeerConfirms \/ PeerKeepalive \/ \E m \in Junk : PeerJunk(m)

LEMMA SpeaksHow ==
    ASSUME TypeInv, Speaks
    PROVE  \E m \in In, p \in PeerType :
               /\ PeerSays(m, p) /\ peer.pc # "none" /\ p.pc # "none"
               /\ p.said = peer.said /\ p.route = peer.route
               /\ \/ p.hold = peer.hold /\ (p.pc \in {"opened", "up"} => peer.pc \in {"opened", "up"})
                  \/ m.t = "open" /\ p.hold = Lesser(HoldTime, m.hold)
<1> DEFINE Goal == \E m \in In, p \in PeerType :
               /\ PeerSays(m, p) /\ peer.pc # "none" /\ p.pc # "none"
               /\ p.said = peer.said /\ p.route = peer.route
               /\ \/ p.hold = peer.hold /\ (p.pc \in {"opened", "up"} => peer.pc \in {"opened", "up"})
                  \/ m.t = "open" /\ p.hold = Lesser(HoldTime, m.hold)
<1>1. ASSUME NEW h \in PeerHolds, PeerOpens(h) PROVE Goal
    <2> DEFINE p == [peer EXCEPT !.pc = "opened", !.hold = Lesser(HoldTime, h)]
               m == PeerOpen(h, TRUE)
    <2>1. /\ p \in PeerType /\ p.route = peer.route /\ p.said = peer.said
          /\ p.pc = "opened" /\ p.hold = Lesser(HoldTime, h)
        BY PeerRecords
    <2>2. m \in In /\ m.t = "open" /\ m.hold = h
        BY MessageTypes DEF PeerOpen
    <2>3. PeerSays(m, p) /\ peer.pc # "none"
        BY <1>1 DEF PeerOpens
    <2> HIDE DEF p, m
    <2> QED BY <2>1, <2>2, <2>3
<1>2. ASSUME PeerConfirms PROVE Goal
    <2> DEFINE p == [peer EXCEPT !.pc = "up", !.keep = peer.hold \div 3]
    <2>1. /\ p \in PeerType /\ p.route = peer.route /\ p.said = peer.said
          /\ p.pc = "up" /\ p.hold = peer.hold
        BY PeerRecords
    <2>2. Plain("keepalive") \in In
        BY MessageTypes
    <2>3. PeerSays(Plain("keepalive"), p) /\ peer.pc = "opened"
        BY <1>2 DEF PeerConfirms
    <2> HIDE DEF p
    <2> QED BY <2>1, <2>2, <2>3
<1>3. ASSUME PeerKeepalive PROVE Goal
    <2> DEFINE p == [peer EXCEPT !.keep = peer.hold \div 3]
    <2>1. /\ p \in PeerType /\ p.route = peer.route /\ p.said = peer.said
          /\ p.pc = peer.pc /\ p.hold = peer.hold
        BY PeerRecords
    <2>2. Plain("keepalive") \in In
        BY MessageTypes
    <2>3. PeerSays(Plain("keepalive"), p) /\ peer.pc = "up"
        BY <1>3 DEF PeerKeepalive
    <2> HIDE DEF p
    <2> QED BY <2>1, <2>2, <2>3
<1>4. ASSUME NEW m \in Junk, PeerJunk(m) PROVE Goal
    BY <1>4, MessageTypes DEF PeerJunk, TypeInv
<1> QED BY <1>1, <1>2, <1>3, <1>4 DEF Speaks

-----------------------------------------------------------------------------
(* Their steps. *)

LEMMA EndingState ==
    ASSUME Ending
    PROVE  /\ pc' = "backoff" /\ rx' = <<>> /\ hold' = 0 /\ silent' = 0 /\ announced' = FALSE
           /\ UNCHANGED <<pool, watch, poll, peer, stale>>
BY EndingEnds DEF Ends, health

LEMMA PeerReadsPeer ==
    ASSUME TypeInv, PeerReads
    PROVE  /\ peer' = NoPeer \/ (/\ peer'.pc = peer.pc /\ peer'.hold = peer.hold
                                 /\ peer'.said = peer.said)
           /\ UNCHANGED <<pc, rx, hold>>
BY DEF PeerReads, TypeInv, PeerType, session

\* The peer is gone.
Gone == PeerExpires \/ \E t \in {"notification", "eof"} : PeerDrops(t)

LEMMA GonePeer ==
    ASSUME Gone
    PROVE  peer'.pc = "none" /\ ~peer'.route /\ UNCHANGED <<health, dirty, session, ghosts>>
<1>1. ASSUME PeerExpires
      PROVE  peer'.pc = "none" /\ ~peer'.route /\ UNCHANGED <<health, dirty, session, ghosts>>
    BY <1>1 DEF PeerExpires, NoPeer
<1>2. ASSUME NEW t \in {"notification", "eof"}, PeerDrops(t)
      PROVE  peer'.pc = "none" /\ ~peer'.route /\ UNCHANGED <<health, dirty, session, ghosts>>
    BY <1>2, NoPeerType, PeerSaysPeer DEF PeerDrops, NoPeer, PeerSays
<1> QED BY <1>1, <1>2 DEF Gone

\* Steps that leave the session, its peer and what it reads alone.
Elsewhere == ReaderEnds \/ Poll \/ LinkChange \/ HealthFlip

LEMMA ElsewhereKeeps ==
    ASSUME Elsewhere
    PROVE  UNCHANGED <<pc, hold, deadline, keep, announced, rx, peer, heard, silent>>
BY DEF Elsewhere, ReaderEnds, Poll, LinkChange, HealthFlip, session, ghosts

LEMMA SaidStep == TypeInv /\ SaidInv /\ [Next]_vars => SaidInv'
<1> SUFFICES ASSUME TypeInv, SaidInv, [Next]_vars PROVE SaidInv'
    OBVIOUS
<1>1. ASSUME UNCHANGED rx, peer'.said = peer.said, peer'.pc # "none" => peer.pc # "none",
             pc' = "established" => pc = "established"
      PROVE  SaidInv'
    BY <1>1 DEF SaidInv
<1>2. ASSUME UNCHANGED peer, pc' # "established" \/ pc = "established" \/ Head(rx).t = "keepalive",
             rx # <<>>, rx' = Tail(rx)
      PROVE  SaidInv'
    <2>1. Has(rx, Alive) <=> Head(rx) \in Alive \/ Has(rx', Alive)
        BY <1>2, HasTail DEF TypeInv
    <2>2. Head(rx) \in In
        BY <1>2, HeadTailProperties DEF TypeInv
    <2> QED BY <1>2, <2>1, <2>2 DEF SaidInv, Alive
<1>3. CASE UNCHANGED vars
    BY <1>1, <1>3 DEF vars, session
<1>4. CASE Retry \/ ConnectFails \/ Keepalive
    BY <1>1, <1>4 DEF Retry, ConnectFails, Keepalive, SendKeepalive
<1>5. CASE Announce \/ Withdraw \/ NoChange
    BY <1>1, <1>5 DEF Announce, Withdraw, NoChange, HealthSeen
<1>6. CASE Connect
    BY <1>6, HasNone DEF Connect, SaidInv
<1>7. CASE OpenAccepted \/ Established \/ PeerAlive
    BY <1>2, <1>7 DEF OpenAccepted, AcceptOpen, Established, PeerAlive
<1>8. CASE Ending
    BY <1>8, EndingState, HasNone DEF SaidInv
<1>9. CASE Elsewhere
    BY <1>1, <1>9, ElsewhereKeeps
<1>10. CASE Speaks
    <2>1. PICK m \in In, p \in PeerType :
              PeerSays(m, p) /\ peer.pc # "none" /\ p.pc # "none" /\ p.said = peer.said
        BY <1>10, SpeaksHow
    <2>2. (rx' = rx \/ rx' = Append(rx, m)) /\ UNCHANGED pc
        BY <2>1, PeerSaysRx DEF PeerSays, session
    <2>3. peer'.said <=> peer.said \/ m.t = "keepalive"
        BY <2>1, PeerSaysPeer
    <2>4. Has(Append(rx, m), Alive) <=> Has(rx, Alive) \/ m \in Alive
        BY HasAppend DEF TypeInv
    <2> QED BY <2>1, <2>2, <2>3, <2>4 DEF SaidInv, Alive
<1>11. CASE PeerReads
    BY <1>1, <1>11, PeerReadsPeer DEF SaidInv, NoPeer
<1>12. CASE Gone
    BY <1>12, GonePeer DEF SaidInv
<1>13. CASE Tick
    BY <1>1, <1>13, TickPeer DEF Tick
<1> QED BY <1>3, <1>4, <1>5, <1>6, <1>7, <1>8, <1>9, <1>10, <1>11, <1>12, <1>13
        DEF Next, Session, Peer, Ending, Speaks, Gone, Elsewhere

LEMMA TimersStep == TypeInv /\ TimersInv /\ [Next]_vars => TimersInv'
<1> SUFFICES ASSUME TypeInv, TimersInv, [Next]_vars PROVE TimersInv'
    OBVIOUS
<1>1. ASSUME UNCHANGED <<pc, hold, deadline, keep, heard, silent>> PROVE TimersInv'
    BY <1>1 DEF TimersInv
<1>2. hold \in Nat /\ hold \div 3 \in Nat /\ heard \in Nat /\ silent \in Nat /\ keep \in Nat
      /\ deadline \in Nat
    BY DEF TypeInv
<1>3. CASE UNCHANGED vars
    BY <1>1, <1>3 DEF vars, session, ghosts
<1>4. CASE Retry \/ ConnectFails \/ Connect
    BY <1>4 DEF Retry, ConnectFails, Connect, ghosts, TimersInv
<1>5. CASE OpenAccepted
    <2>1. Head(rx) \in In
        BY <1>5, HeadTailProperties DEF OpenAccepted, AcceptOpen, TypeInv
    <2>2. Lesser(HoldTime, Head(rx).hold) \notin {1, 2}
        BY <1>5, <2>1 DEF OpenAccepted, AcceptOpen, CheckOpen, Lesser, In
    <2> QED BY <1>5, <2>2 DEF OpenAccepted, AcceptOpen, Hold, ghosts, TimersInv
<1>6. CASE Established
    BY <1>2, <1>6 DEF Established, TimersInv
<1>7. CASE Ending
    BY <1>7, EndingState DEF TimersInv
<1>8. CASE Keepalive
    BY <1>2, <1>8 DEF Keepalive, SendKeepalive, TimersInv
<1>9. CASE Announce \/ Withdraw \/ NoChange
    <2>1. UNCHANGED <<pc, hold, deadline, keep, heard>> /\ (silent' = silent \/ silent' = 0)
        BY <1>9 DEF Announce, Withdraw, NoChange, HealthSeen
    <2> QED BY <1>2, <2>1 DEF TimersInv
<1>10. CASE PeerAlive
    BY <1>2, <1>10 DEF PeerAlive, TimersInv
<1>11. CASE Elsewhere
    BY <1>1, <1>11, ElsewhereKeeps
<1>12. CASE Speaks
    BY <1>1, <1>12, SpeaksHow DEF PeerSays, session, ghosts
<1>13. CASE PeerReads
    BY <1>1, <1>13 DEF PeerReads, session, ghosts
<1>14. CASE Gone
    BY <1>1, <1>14, GonePeer DEF session, ghosts
<1>15. CASE Tick
    <2>1. CASE pc = "established" /\ hold # 0
        <3>1. UNCHANGED <<pc, hold>> /\ deadline > 0 /\ keep > 0
            BY <1>15, <2>1 DEF Tick, Rest
        <3>2. deadline' = deadline - 1 /\ keep' = keep - 1
            BY <1>2, <1>15, <3>1 DEF Tick, Down1
        <3>3. heard' = Lesser(heard + 1, hold + 1) /\ silent' = Lesser(silent + 1, hold + 1)
            BY <1>15, <2>1 DEF Tick
        <3>4. heard' = heard + 1 /\ silent' <= silent + 1
            BY <1>2, <2>1, <3>1, <3>3 DEF TimersInv, Lesser
        <3>5. silent' \in Nat
            BY <1>2, <3>3 DEF Lesser
        <3>6. heard + deadline = hold /\ silent + keep <= hold \div 3
            BY <2>1 DEF TimersInv
        <3>7. heard' + deadline' = hold
            BY <1>2, <3>1, <3>2, <3>4, <3>6
        <3>8. \A a, b, k, t \in Nat : k > 0 /\ a + k <= t /\ b <= a + 1 => b + (k - 1) <= t
            OBVIOUS
        <3>9. silent' + keep' <= hold \div 3
            BY <1>2, <3>1, <3>2, <3>4, <3>5, <3>6, <3>8
        <3> QED BY <2>1, <3>1, <3>7, <3>9 DEF TimersInv
    <2>2. CASE ~(pc = "established" /\ hold # 0)
        BY <1>15, <2>2 DEF Tick, TimersInv
    <2> QED BY <2>1, <2>2
<1> QED BY <1>3, <1>4, <1>5, <1>6, <1>7, <1>8, <1>9, <1>10, <1>11, <1>12, <1>13, <1>14, <1>15
        DEF Next, Session, Peer, Ending, Speaks, Gone, Elsewhere

LEMMA OpenStep == TypeInv /\ OpenInv /\ [Next]_vars => OpenInv'
<1> SUFFICES ASSUME TypeInv, OpenInv, [Next]_vars PROVE OpenInv'
    OBVIOUS
<1>1. ASSUME UNCHANGED <<rx, hold>>, peer'.hold = peer.hold, peer'.pc = peer.pc,
             pc' = pc \/ pc' \notin Waiting
      PROVE  OpenInv'
    BY <1>1 DEF OpenInv, Waiting
<1>2. ASSUME UNCHANGED <<peer, hold>>, pc' = "established", pc \in {"openconfirm", "established"},
             rx # <<>>, rx' = Tail(rx), Head(rx).t \in {"keepalive", "update"}
      PROVE  OpenInv'
    <2>1. Has(rx, Fatal) <=> Head(rx) \in Fatal \/ Has(rx', Fatal)
        BY <1>2, HasTail DEF TypeInv
    <2> QED BY <1>2, <2>1 DEF OpenInv, Fatal, ReadError
<1>3. CASE UNCHANGED vars
    BY <1>1, <1>3 DEF vars, session
<1>4. CASE Retry \/ ConnectFails \/ Keepalive
    BY <1>1, <1>4 DEF Retry, ConnectFails, Keepalive, SendKeepalive, Waiting
<1>5. CASE Announce \/ Withdraw \/ NoChange
    BY <1>1, <1>5 DEF Announce, Withdraw, NoChange, HealthSeen
<1>6. CASE Connect
    <2>1. peer'.pc = "accepted"
        BY <1>6 DEF Connect, NoPeer
    <2> QED BY <2>1 DEF OpenInv
<1>7. CASE Established \/ PeerAlive
    BY <1>2, <1>7 DEF Established, PeerAlive
<1>8. CASE OpenAccepted
    <2>1. /\ pc = "opensent" /\ pc' = "openconfirm" /\ UNCHANGED peer /\ rx # <<>>
          /\ rx' = Tail(rx) /\ Head(rx).t = "open" /\ hold' = Lesser(HoldTime, Head(rx).hold)
        BY <1>8 DEF OpenAccepted, AcceptOpen, Hold
    <2>2. \A h : Has(rx, Opening(h)) <=> Head(rx) \in Opening(h) \/ Has(rx', Opening(h))
        BY <2>1, HasTail DEF TypeInv
    <2>3. Has(rx', Opening(peer.hold)) => Has(rx', Fatal)
        BY DEF Has, Opening, Fatal
    <2>4. Head(rx) \in Opening(peer.hold) => hold' = peer.hold
        BY <2>1 DEF Opening, ReadError
    <2> QED BY <2>1, <2>2, <2>3, <2>4 DEF OpenInv
<1>9. CASE Ending
    BY <1>9, EndingState DEF OpenInv
<1>10. CASE Elsewhere
    BY <1>1, <1>10, ElsewhereKeeps
<1>11. CASE Speaks
    <2>1. PICK m \in In, p \in PeerType :
              /\ PeerSays(m, p)
              /\ \/ p.hold = peer.hold /\ (p.pc \in {"opened", "up"} => peer.pc \in {"opened", "up"})
                 \/ m.t = "open" /\ p.hold = Lesser(HoldTime, m.hold)
        BY <1>11, SpeaksHow
    <2>2. UNCHANGED <<pc, hold>> /\ peer'.pc = p.pc /\ peer'.hold = p.hold
        BY <2>1, PeerSaysPeer DEF PeerSays, session
    <2>3. pc \in Waiting => rx' = IF ReaderGone THEN rx ELSE Append(rx, m)
        BY <2>1 DEF PeerSays, Waiting
    <2>4. CASE ReaderGone
        BY <2>2, <2>3, <2>4, ReaderGoneHas DEF OpenInv, Waiting
    <2>5. CASE ~ReaderGone
        <3>1. \A S : Has(Append(rx, m), S) <=> Has(rx, S) \/ m \in S
            BY HasAppend DEF TypeInv
        <3>2. CASE p.hold = peer.hold /\ (p.pc \in {"opened", "up"} => peer.pc \in {"opened", "up"})
            BY <2>2, <2>3, <2>5, <3>1, <3>2 DEF OpenInv, Waiting
        <3>3. CASE m.t = "open" /\ p.hold = Lesser(HoldTime, m.hold)
            <4>1. m \in Opening(p.hold) /\ m \in Fatal
                BY <3>3 DEF Opening, Fatal
            <4> QED BY <2>2, <2>3, <2>5, <3>1, <4>1 DEF OpenInv, Waiting
        <3> QED BY <2>1, <3>2, <3>3
    <2> QED BY <2>4, <2>5
<1>12. CASE PeerReads
    <2>1. CASE peer' = NoPeer
        BY <2>1 DEF OpenInv, NoPeer
    <2>2. CASE peer' # NoPeer
        BY <1>1, <1>12, <2>2, PeerReadsPeer
    <2> QED BY <2>1, <2>2
<1>13. CASE Gone
    BY <1>13, GonePeer DEF OpenInv
<1>14. CASE Tick
    BY <1>1, <1>14, TickPeer DEF Tick
<1> QED BY <1>3, <1>4, <1>5, <1>6, <1>7, <1>8, <1>9, <1>10, <1>11, <1>12, <1>13, <1>14
        DEF Next, Session, Peer, Ending, Speaks, Gone, Elsewhere

LEMMA SeenStep == TypeInv /\ SeenInv /\ [Next]_vars => SeenInv'
<1> SUFFICES ASSUME TypeInv, SeenInv, [Next]_vars PROVE SeenInv'
    OBVIOUS
<1>1. ASSUME UNCHANGED <<dirty, announced, watch>>, pc' = pc \/ pc' # "established"
      PROVE  SeenInv'
    BY <1>1 DEF SeenInv
<1>2. CASE UNCHANGED vars
    BY <1>1, <1>2 DEF vars, session, health
<1>3. CASE Retry \/ ConnectFails \/ Connect \/ OpenAccepted \/ Keepalive \/ PeerAlive
    BY <1>1, <1>3 DEF Retry, ConnectFails, Connect, OpenAccepted, AcceptOpen, Keepalive,
                      SendKeepalive, PeerAlive, health
<1>4. CASE Established
    BY <1>4 DEF Established, SeenInv
<1>5. CASE Ending
    BY <1>5, EndingState DEF SeenInv
<1>6. CASE Announce \/ Withdraw
    BY <1>6 DEF Announce, Withdraw, HealthSeen, SeenInv, health
<1>7. CASE NoChange
    BY <1>7 DEF NoChange, HealthSeen, SeenInv, health
<1>8. CASE Poll
    <2>1. UNCHANGED <<pc, announced>> /\ (dirty' <=> dirty \/ Changed) /\ watch' = pool
        BY <1>8 DEF Poll, session
    <2>2. ~dirty' => ~dirty /\ (watch' <=> watch)
        BY <2>1 DEF Changed, TypeInv
    <2> QED BY <2>1, <2>2 DEF SeenInv
<1>9. CASE ReaderEnds \/ LinkChange \/ HealthFlip \/ PeerReads \/ Tick
    BY <1>1, <1>9 DEF ReaderEnds, LinkChange, HealthFlip, PeerReads, Tick, health, session
<1>10. CASE Speaks
    BY <1>1, <1>10, SpeaksHow DEF PeerSays, health, session
<1>11. CASE Gone
    BY <1>1, <1>11, GonePeer DEF health, session
<1> QED BY <1>2, <1>3, <1>4, <1>5, <1>6, <1>7, <1>8, <1>9, <1>10, <1>11
        DEF Next, Session, Peer, Ending, Speaks, Gone

LEMMA StaleStep ==
    TypeInv /\ QuietInv /\ PeerTableRight /\ SeenInv /\ StaleInv /\ [Next]_vars => StaleInv'
<1> SUFFICES ASSUME TypeInv, QuietInv, PeerTableRight, SeenInv, StaleInv, [Next]_vars
             PROVE  StaleInv'
    OBVIOUS
<1>1. ASSUME UNCHANGED <<pool, watch, poll, stale>>, peer'.pc = "none" => ~peer'.route
      PROVE  StaleInv'
    BY <1>1 DEF StaleInv
<1>2. CASE UNCHANGED vars
    BY <1>1, <1>2 DEF vars, health, ghosts, StaleInv
<1>3. CASE Retry \/ ConnectFails \/ OpenAccepted \/ Established \/ Keepalive \/ PeerAlive
    BY <1>1, <1>3 DEF Retry, ConnectFails, OpenAccepted, AcceptOpen, Established, Keepalive,
                      SendKeepalive, PeerAlive, health, ghosts, StaleInv
<1>4. CASE Announce \/ Withdraw \/ NoChange
    BY <1>1, <1>4 DEF Announce, Withdraw, NoChange, HealthSeen, health, StaleInv
<1>5. CASE Connect
    BY <1>1, <1>5 DEF Connect, NoPeer, health, ghosts
<1>6. CASE Ending
    BY <1>1, <1>6, EndingState DEF StaleInv
<1>7. CASE ReaderEnds \/ LinkChange
    BY <1>1, <1>7 DEF ReaderEnds, LinkChange, health, ghosts, StaleInv
<1>8. CASE HealthFlip
    BY <1>8 DEF HealthFlip, StaleInv
<1>9. CASE Poll
    <2>1. watch' = pool /\ poll' = PollEvery /\ UNCHANGED <<pool, peer, stale>>
        BY <1>9 DEF Poll, ghosts
    <2> QED BY <2>1 DEF StaleInv
<1>10. CASE Speaks
    <2>1. PICK m \in In, p \in PeerType : PeerSays(m, p) /\ p.pc # "none"
        BY <1>10, SpeaksHow
    <2>2. peer'.pc # "none"
        BY <2>1, PeerSaysPeer
    <2> QED BY <1>1, <2>1, <2>2 DEF PeerSays, health, ghosts
<1>11. CASE PeerReads
    <2>1. peer'.pc = "none" => ~peer'.route
        <3>1. peer.pc # "none"
            BY <1>11 DEF PeerReads
        <3> QED BY <1>11, <3>1, PeerReadsPeer DEF NoPeer
    <2> QED BY <1>1, <1>11, <2>1 DEF PeerReads, health, ghosts
<1>12. CASE Gone
    BY <1>1, <1>12, GonePeer DEF health, ghosts
<1>13. CASE Tick
    <2>1. UNCHANGED <<pool, watch>> /\ peer'.pc = peer.pc /\ peer'.route = peer.route
        BY <1>13, TickPeer DEF Tick
    <2>2. poll \in Nat /\ stale \in Nat /\ poll > 0 /\ poll' = poll - 1
        BY <1>13 DEF Tick, Rest, Down1, TypeInv
    <2>3. CASE peer.route /\ ~pool /\ ~stuck
        <3>1. tx = <<>>
            BY <1>13, <2>3 DEF Tick, Rest
        <3>2. <<>> \in Seq(Out) /\ \A j \in DOMAIN <<>> : <<>>[j] \notin Told
            OBVIOUS
        <3>3. TableAfter(peer.route, <<>>) <=> peer.route
            BY <3>2, TableNone DEF TypeInv, PeerType
        <3>4. announced
            BY <2>3, <3>1, <3>3 DEF StaleInv, PeerTableRight
        <3>5. pc = "established" /\ ~dirty
            BY <1>13, <3>4 DEF QuietInv, Tick, Rest
        <3>6. watch
            BY <3>4, <3>5 DEF SeenInv
        <3>7. stale + poll <= PollEvery
            BY <2>2, <3>6 DEF StaleInv
        <3>8. stale' = stale + 1
            BY <1>13, <2>2, <2>3, <3>7 DEF Tick, Lesser
        <3> QED BY <2>1, <2>2, <2>3, <3>7, <3>8 DEF StaleInv
    <2>4. CASE ~(peer.route /\ ~pool /\ ~stuck)
        <3>1. stale' = 0
            BY <1>13, <2>4 DEF Tick
        <3> QED BY <2>1, <2>2, <3>1 DEF StaleInv
    <2> QED BY <2>3, <2>4
<1> QED BY <1>2, <1>3, <1>4, <1>5, <1>6, <1>7, <1>8, <1>9, <1>10, <1>11, <1>12, <1>13
        DEF Next, Session, Peer, Ending, Speaks, Gone

\* The inductive invariant.
IInv ==
    /\ TypeInv /\ QuietInv /\ PeerTableRight
    /\ SaidInv /\ TimersInv /\ OpenInv /\ SeenInv /\ StaleInv

LEMMA Inductive == Spec => []IInv
<1>1. Init => IInv
    <2> SUFFICES ASSUME Init PROVE IInv
        OBVIOUS
    <2>1. SaidInv /\ OpenInv
        BY DEF Init, SaidInv, OpenInv, NoPeer
    <2>2. TimersInv /\ SeenInv /\ QuietInv
        BY DEF Init, TimersInv, SeenInv, QuietInv
    <2>3. StaleInv /\ PeerTableRight
        BY DEF Init, StaleInv, PeerTableRight, NoPeer
    <2> QED BY <2>1, <2>2, <2>3, TypeStart DEF IInv
<1>2. IInv /\ [Next]_vars => IInv'
    BY TypeStep, TableStep, SaidStep, TimersStep, OpenStep, SeenStep, StaleStep DEF IInv
<1> QED BY <1>1, <1>2, PTL DEF Spec

\* Once the peer has read what is under way, it has the route exactly if the session
\* says it announced it, however its sessions before ended (bgp.rs session).
THEOREM PeerTableTrue == Spec => []PeerTableRight
<1>1. IInv => PeerTableRight
    BY DEF IInv
<1> QED BY <1>1, Inductive, PTL

\* No UPDATE before the session is Established: whoever has the route, or will have
\* it, has sent a KEEPALIVE.
THEOREM NoEarlyUpdate == Spec => []AnnouncesWhenEstablished
<1>1. IInv => AnnouncesWhenEstablished
    BY DEF IInv, AnnouncesWhenEstablished, PeerTableRight, QuietInv, SaidInv
<1> QED BY <1>1, Inductive, PTL

\* An Established session reads a message in every hold time, and writes one in every
\* third of the hold time that its peer has computed.
THEOREM HoldTimesRespected == Spec => []HoldTimesKept
<1>1. IInv => HoldTimesKept
    <2> SUFFICES ASSUME IInv, pc = "established" PROVE HoldTimesKept
        BY DEF HoldTimesKept
    <2>1. hold \in Nat /\ heard \in Nat /\ deadline \in Nat /\ silent \in Nat /\ keep \in Nat
        BY DEF IInv, TypeInv
    <2>2. hold # 0 => heard <= hold
        BY <2>1 DEF IInv, TimersInv
    <2>3. ASSUME peer.pc = "up", peer.hold # 0, ~Condemned PROVE silent < peer.hold
        <3>1. hold = peer.hold
            BY <2>3, ReaderGoneHas DEF IInv, OpenInv
        <3>2. silent + keep <= hold \div 3
            BY <2>3, <3>1 DEF IInv, TimersInv
        <3>3. hold \div 3 \in Nat /\ hold \div 3 < hold
            BY <2>1, <2>3, <3>1
        <3> QED BY <2>1, <3>1, <3>2, <3>3
    <2> QED BY <2>2, <2>3 DEF HoldTimesKept
<1> QED BY <1>1, Inductive, PTL

\* Over a link that works the peer keeps the route of an unhealthy pool for one look
\* at the pool at most.
THEOREM WithdrawnSoon == Spec => []WithdrawnInTime
<1>1. IInv => WithdrawnInTime
    BY DEF IInv, StaleInv, WithdrawnInTime
<1> QED BY <1>1, Inductive, PTL
=============================================================================
