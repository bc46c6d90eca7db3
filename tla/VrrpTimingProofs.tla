-------------------------- MODULE VrrpTimingProofs --------------------------
(***************************************************************************)
(* Real time in the VRRP control loop: for a group of any size, how long a *)
(* Master that must give up can stay one; for two machines of any          *)
(* priorities, intervals and read timeouts on a LAN that loses nothing, how*)
(* long both can hold the address, and by when the election is over.       *)
(***************************************************************************)
EXTENDS VrrpProofs, FiniteSetTheorems

USE ConstantsAssumption DEF ConstantsAssumption

-----------------------------------------------------------------------------
(* The setting. *)

\* Two machines with the same interval, hi the better Master: by priority, or by
\* address among equal priorities that are not both the address owner's (255).
Pair(hi, lo) ==
    /\ Inst = {hi, lo} /\ HostOf[hi] # HostOf[lo]
    /\ Priority[lo] # 255
    /\ \/ Priority[lo] < Priority[hi]
       \/ Priority[lo] = Priority[hi] /\ Addr[HostOf[lo]] < Addr[HostOf[hi]]
    /\ AdvertInterval(lo) = AdvertInterval(hi)
    /\ MinWait < AdvertInterval(hi)

\* Threads get to run, no packet is lost, netlink works; pools come and go, instances
\* are stopped and started, machines reboot.
LossFree == Timely /\ FaultKinds \subseteq {"health", "stop", "reboot"}

-----------------------------------------------------------------------------
(* One instance by itself. *)

\* A thread has a state other than Initialize and a socket; it never reads longer than
\* its timer and MinWait ask for.
RunInv ==
    \A i \in Inst : /\ st[i] = "initialize" <=> pc[i] = "off"
                    /\ pc[i] = "off" => inbox[i] = <<>>
                    /\ pc[i] = "recv" => wait[i] <= Greater(timer[i], MinWait)

\* A timer at 0 is read for MinWait, and no read takes less.
LEMMA ReadTimeoutBounds ==
    \A t \in Nat : /\ ReadTimeout(t) <= Greater(t, MinWait) /\ MinWait <= ReadTimeout(t)
                   /\ t <= MinWait => ReadTimeout(t) = MinWait
BY DEF ReadTimeout, Lesser, Greater

\* A packet only gets into the queue of a running thread.
LEMMA DeliveredToRunning ==
    ASSUME TypeOK, NEW i \in Inst, NEW prio, NEW j \in Inst, pc[j] = "off"
    PROVE  Delivered(i, prio)[j] = inbox[j]
BY DEF Delivered, Reaches

\* Every step keeps RunInv.
LEMMA RunStep == TypeOK /\ RunInv /\ [Next]_vars => RunInv'
<1> SUFFICES ASSUME TypeOK, RunInv, [Next]_vars, NEW j \in Inst
             PROVE  /\ st'[j] = "initialize" <=> pc'[j] = "off"
                    /\ pc'[j] = "off" => inbox'[j] = <<>>
                    /\ pc'[j] = "recv" => wait'[j] <= Greater(timer'[j], MinWait)
    BY DEF RunInv
<1> DEFINE Goal == /\ st'[j] = "initialize" <=> pc'[j] = "off"
                   /\ pc'[j] = "off" => inbox'[j] = <<>>
                   /\ pc'[j] = "recv" => wait'[j] <= Greater(timer'[j], MinWait)
<1>1. /\ st[j] = "initialize" <=> pc[j] = "off"
      /\ pc[j] = "off" => inbox[j] = <<>>
      /\ pc[j] = "recv" => wait[j] <= Greater(timer[j], MinWait)
    BY DEF RunInv
<1>2. ASSUME NEW i \in Inst, Start(i) PROVE Goal
    BY <1>1, <1>2 DEF Start, StartState, TypeOK
<1>3. ASSUME NEW i \in Inst, StopSeen(i) PROVE Goal
    <2>1. CASE i = j
        <3>1. inbox'[j] = <<>>
            BY <1>3, <2>1, ResignationType DEF StopSeen, TypeOK
        <3> QED BY <1>3, <2>1, <3>1 DEF StopSeen, Ends, TypeOK
    <2>2. CASE i # j
        <3>1. pc[j] = "off" => inbox'[j] = <<>>
            <4>1. CASE st[i] = "master"
                <5>1. inbox' = [Delivered(i, 0) EXCEPT ![i] = <<>>]
                    BY <1>3, <4>1 DEF StopSeen
                <5>2. inbox'[j] = Delivered(i, 0)[j]
                    BY <2>2, <5>1, ResignationType
                <5> QED BY <1>1, <5>2, DeliveredToRunning
            <4>2. CASE st[i] # "master"
                BY <1>1, <1>3, <2>2, <4>2 DEF StopSeen, TypeOK
            <4> QED BY <4>1, <4>2
        <3> QED BY <1>1, <1>3, <2>2, <3>1 DEF StopSeen, Ends, TypeOK
    <2> QED BY <2>1, <2>2
<1>4. ASSUME NEW i \in Inst, Resign(i) PROVE Goal
    <2>1. MasterDown(i, mai[i]) \in Nat
        BY MasterDownType DEF TypeOK
    <2>2. ReadTimeout(MasterDown(i, mai[i])) <= Greater(MasterDown(i, mai[i]), MinWait)
        BY <2>1, ReadTimeoutBounds
    <2>3. pc[j] = "off" => inbox'[j] = <<>>
        BY <1>1, <1>4, DeliveredToRunning DEF Resign
    <2>4. i = j => Goal
        BY <1>4, <2>2, <2>3 DEF Resign, TypeOK
    <2>5. i # j => Goal
        BY <1>1, <1>4, <2>3 DEF Resign, TypeOK
    <2> QED BY <2>4, <2>5
<1>5. ASSUME NEW i \in Inst, Block(i) PROVE Goal
    <2>1. ReadTimeout(timer[i]) <= Greater(timer[i], MinWait)
        BY ReadTimeoutBounds DEF TypeOK
    <2> QED BY <1>1, <1>5, <2>1 DEF Block, TypeOK
<1>6. ASSUME NEW i \in Inst, Received(i),
             UNCHANGED st \/ st' = [st EXCEPT ![i] = "backup"],
             \A k \in Inst \ {i} : timer'[k] = timer[k]
      PROVE  Goal
    BY <1>1, <1>6 DEF Received, TypeOK
<1>7. ASSUME NEW i \in Inst, TimedOut(i),
             UNCHANGED st \/ st' = [st EXCEPT ![i] = "master"],
             \A k \in Inst \ {i} : timer'[k] = timer[k],
             UNCHANGED inbox \/ inbox' = Delivered(i, Priority[i])
      PROVE  Goal
    <2>1. pc[j] = "off" => inbox'[j] = <<>>
        BY <1>1, <1>7, DeliveredToRunning
    <2> QED BY <1>1, <1>7, <2>1 DEF TimedOut, TypeOK
<1>8. ASSUME NEW i \in Inst, Loop(i) PROVE Goal
    <2>1. CASE RecvIgnored(i) \/ RecvResigned(i) \/ RecvMaster(i) \/ RecvPeerResigned(i)
               \/ RecvDemoted(i)
        <3>1. /\ UNCHANGED st \/ st' = [st EXCEPT ![i] = "backup"]
              /\ \A k \in Inst \ {i} : timer'[k] = timer[k]
            BY <2>1 DEF RecvIgnored, RecvResigned, RecvMaster, RecvPeerResigned,
                        RecvDemoted, Demote, TypeOK
        <3>2. Received(i)
            BY <2>1 DEF RecvIgnored, RecvResigned, RecvMaster, RecvPeerResigned, RecvDemoted
        <3> QED BY <1>6, <3>1, <3>2
    <2>2. CASE Advertise(i) \/ TakeOver(i) \/ NotFit(i) \/ Woken(i)
        <3>1. /\ TimedOut(i)
              /\ UNCHANGED st \/ st' = [st EXCEPT ![i] = "master"]
              /\ \A k \in Inst \ {i} : timer'[k] = timer[k]
              /\ UNCHANGED inbox \/ inbox' = Delivered(i, Priority[i])
            BY <2>2 DEF Advertise, TakeOver, BecomeMaster, NotFit, Woken, TypeOK
        <3> QED BY <1>7, <3>1
    <2> QED BY <1>3, <1>4, <1>5, <1>8, <2>1, <2>2 DEF Loop
<1>9. ASSUME NEW h \in Hosts, Dies(h) PROVE Goal
    BY <1>1, <1>9 DEF Dies, TypeOK
<1>10. ASSUME NEW i \in Inst, RecvError(i) PROVE Goal
    BY <1>1, <1>10 DEF RecvError, Ends, TypeOK
<1>11. ASSUME NEW i \in Inst, ForeignPacket(i) PROVE Goal
    BY <1>1, <1>11 DEF ForeignPacket, loopVars, TypeOK
<1>12. CASE Tick
    BY <1>1, <1>12 DEF Tick, Down1, Greater, TypeOK
<1>13. ASSUME UNCHANGED <<loopVars, inbox>> PROVE Goal
    BY <1>1, <1>13 DEF loopVars
<1> QED
    BY <1>2, <1>8, <1>9, <1>10, <1>11, <1>12, <1>13
    DEF Next, Stop, HealthChange, LinkChange, Crash, Reboot, vars

\* So RunInv always holds, in any group.
LEMMA RunAlways == Spec => []RunInv
<1>1. Init => RunInv
    BY DEF Init, RunInv
<1> QED BY <1>1, RunStep, TypeCorrect, PTL DEF Spec
-----------------------------------------------------------------------------
(* Two instances on a LAN that loses nothing. *)

\* What instance j sends: advertisements and resignations.
Says(j) == {Advert(j, 0), Advert(j, Priority[j])}

\* The LAN is whole; only the other's packets arrive, so the interval learned is one's
\* own; a read that has timed out (and so is about to send) finds the other's queue
\* empty, and if it is a Backup's, one machine at most had the address.
PairInv ==
    /\ cut = {}
    /\ \A i \in Inst : mai[i] = AdvertInterval(i)
    /\ \A i, j \in Inst : i # j => inbox[i] \in Seq(Says(j))
    /\ \A i, j \in Inst : i # j /\ pc[i] = "recv" /\ wait[i] = 0 => inbox[j] = <<>>
    /\ \A i \in Inst : pc[i] = "recv" /\ wait[i] = 0 /\ st[i] = "backup" => dual = 0

\* Of all steps, the ones a LAN that loses nothing and a living process leave.
LEMMA LossFreeNext ==
    ASSUME LossFree, [Next]_vars
    PROVE  \/ \E i \in Inst : Start(i) \/ Loop(i)
           \/ \E h \in Hosts : Reboot(h)
           \/ Tick
           \/ /\ UNCHANGED <<loopVars, inbox, held, cut>>
              /\ (calm' = 0 /\ dual' = 0) \/ UNCHANGED <<healthy, calm, dual>>
<1>1. "cut" \notin FaultKinds /\ "crash" \notin FaultKinds
      /\ "recv_error" \notin FaultKinds /\ "foreign" \notin FaultKinds
    BY DEF LossFree
<1>2. ASSUME NEW i \in Inst, Stop(i)
      PROVE  UNCHANGED <<loopVars, inbox, held, cut>> /\ calm' = 0 /\ dual' = 0
    BY <1>2 DEF Stop, Fault
<1>3. ASSUME NEW h \in Hosts, HealthChange(h)
      PROVE  UNCHANGED <<loopVars, inbox, held, cut>> /\ calm' = 0 /\ dual' = 0
    BY <1>3 DEF HealthChange, Fault
<1>4. /\ \A i \in Inst : ~RecvError(i) /\ ~ForeignPacket(i)
      /\ \A h \in Hosts : ~LinkChange(h) /\ ~Crash(h)
    BY <1>1 DEF RecvError, ForeignPacket, LinkChange, Crash, Fault
<1>5. UNCHANGED vars => UNCHANGED <<loopVars, inbox, held, cut, healthy, calm, dual>>
    BY DEF vars, envVars, ghosts
<1> QED BY <1>2, <1>3, <1>4, <1>5 DEF Next

\* The same for netlink: what is asked of it is done.
LEMMA LossFreeNetlink ==
    ASSUME LossFree
    PROVE  NeverDies /\ "claim_fails" \notin FaultKinds
BY DEF LossFree, NeverDies

\* A packet reaches the other's queue, if there is a queue and room in it.
LEMMA DeliveredToOther ==
    ASSUME TypeOK, NEW hi \in Inst, NEW lo \in Inst, Pair(hi, lo), PairInv,
           NEW i \in Inst, NEW j \in Inst, i # j, NEW prio
    PROVE  /\ Delivered(i, prio)[i] = inbox[i]
           /\ \/ Delivered(i, prio)[j] = inbox[j]
              \/ Delivered(i, prio)[j] = Append(inbox[j], Advert(i, prio)) /\ pc[j] # "off"
           /\ inbox[j] = <<>> /\ pc[j] # "off" =>
                 Delivered(i, prio)[j] = Append(inbox[j], Advert(i, prio))
<1>1. HostOf[i] # HostOf[j]
    BY DEF Pair
<1>2. cut = {}
    BY DEF PairInv
<1>3. inbox[j] = <<>> => Len(inbox[j]) < MaxInbox
    BY DEF TypeOK
<1> QED BY <1>1, <1>2, <1>3 DEF Delivered, Reaches

\* Two machines have the address only while both are Master.
LEMMA TwoHolders ==
    ASSUME TypeOK, HolderIsMaster, LossFree, NEW hi \in Inst, NEW lo \in Inst, Pair(hi, lo),
           Cardinality(Holders) > 1
    PROVE  st[hi] = "master" /\ st[lo] = "master"
<1>1. \A h \in Hosts : held[h] => \E i \in Inst : HostOf[i] = h /\ st[i] = "master"
    BY LossFreeNetlink DEF HolderIsMaster
<1>2. ASSUME NEW i \in Inst, Holders \subseteq {HostOf[i]} PROVE FALSE
    <2>1. IsFiniteSet({HostOf[i]}) /\ Cardinality({HostOf[i]}) = 1
        BY FS_Singleton
    <2>2. Cardinality(Holders) <= 1
        BY <1>2, <2>1, FS_Subset
    <2>3. Cardinality(Holders) \in Nat
        BY <1>2, <2>1, FS_Subset, FS_CardinalityType
    <2> QED BY <2>2, <2>3
<1>3. st[hi] # "master" => Holders \subseteq {HostOf[lo]}
    BY <1>1 DEF Holders, Pair
<1>4. st[lo] # "master" => Holders \subseteq {HostOf[hi]}
    BY <1>1 DEF Holders, Pair
<1> QED BY <1>2, <1>3, <1>4

\* What is received came from the other, and carries one's own interval.
LEMMA HeardFromOther ==
    ASSUME TypeOK, NEW hi \in Inst, NEW lo \in Inst, Pair(hi, lo), PairInv,
           NEW i \in Inst, NEW j \in Inst, i # j, inbox[i] # <<>>
    PROVE  /\ Head(inbox[i]) \in Says(j)
           /\ Tail(inbox[i]) \in Seq(Says(j))
           /\ Head(inbox[i]) # Foreign
           /\ Head(inbox[i]).prio \in {0, Priority[j]}
           /\ Head(inbox[i]).src = HostOf[j]
           /\ Greater(Head(inbox[i]).interval, 1) = AdvertInterval(i)
<1>1. inbox[i] \in Seq(Says(j))
    BY DEF PairInv
<1>2. Head(inbox[i]) \in Says(j) /\ Tail(inbox[i]) \in Seq(Says(j))
    BY <1>1
<1>3. /\ Head(inbox[i]).prio \in {0, Priority[j]}
      /\ Head(inbox[i]).src = HostOf[j]
      /\ Head(inbox[i]).interval = AdvertInterval(j)
    BY <1>2 DEF Says, Advert
<1>4. Head(inbox[i]).prio # 256
    <2>1. Priority[j] \in 1..255
        OBVIOUS
    <2>2. \A p \in 1..255 : p # 256
        OBVIOUS
    <2>3. 0 # 256
        OBVIOUS
    <2> QED BY <1>3, <2>1, <2>2, <2>3, Zenon
<1>5. Head(inbox[i]) # Foreign
    BY <1>4 DEF Foreign
<1>6. AdvertInterval(j) = AdvertInterval(i) /\ AdvertInterval(i) \in Nat
      /\ AdvertInterval(i) >= 1
    BY AdvertIntervalType DEF Pair
<1>7. Greater(Head(inbox[i]).interval, 1) = AdvertInterval(i)
    BY <1>3, <1>6 DEF Greater
<1> QED BY <1>2, <1>3, <1>5, <1>7

\* Every step keeps PairInv.
LEMMA PairStep ==
    ASSUME NEW hi \in Inst, NEW lo \in Inst, Pair(hi, lo), LossFree,
           TypeOK, RunInv, HolderIsMaster, PairInv, [Next]_vars
    PROVE  PairInv'
<1> DEFINE Mais     == \A i \in Inst : mai[i] = AdvertInterval(i)
           Queues   == \A i, j \in Inst : i # j => inbox[i] \in Seq(Says(j))
           Fresh    == \A i, j \in Inst : i # j /\ pc[i] = "recv" /\ wait[i] = 0
                                          => inbox[j] = <<>>
           Calm     == \A i \in Inst : pc[i] = "recv" /\ wait[i] = 0 /\ st[i] = "backup"
                                          => dual = 0
<1>0. cut = {} /\ Mais /\ Queues /\ Fresh /\ Calm
    BY DEF PairInv
<1>a. ASSUME cut' = {}, Mais', Queues', Fresh', Calm' PROVE PairInv'
    BY <1>a DEF PairInv
\* A step that leaves its thread at the top, in a new read, or gone.
<1>1. ASSUME NEW i \in Inst, pc'[i] = "recv" => wait'[i] > 0,
             \A k \in Inst \ {i} : pc'[k] = pc[k] /\ wait'[k] = wait[k] /\ st'[k] = st[k],
             \A k \in Inst \ {i} : pc[k] = "recv" /\ wait[k] = 0 =>
                                      inbox'[i] = inbox[i] \/ inbox'[i] = <<>>,
             dual' = 0 \/ UNCHANGED dual
      PROVE  Fresh' /\ Calm'
    <2> SUFFICES ASSUME NEW a \in Inst, pc'[a] = "recv", wait'[a] = 0
                 PROVE  /\ \A b \in Inst : a # b => inbox'[b] = <<>>
                        /\ st'[a] = "backup" => dual' = 0
        OBVIOUS
    <2>1. a # i /\ pc[a] = "recv" /\ wait[a] = 0
        BY <1>1
    <2>2. \A b \in Inst : a # b => b = i
        BY <2>1 DEF Pair
    <2> QED BY <1>0, <1>1, <2>1, <2>2
<1>2. ASSUME NEW i \in Inst, Received(i), UNCHANGED mai \/ mai' = [mai EXCEPT ![i] = AdvertInterval(i)],
             \A k \in Inst \ {i} : st'[k] = st[k]
      PROVE  PairInv'
    <2>1. PICK j \in Inst : i # j
        BY DEF Pair
    <2>2. inbox'[i] \in Seq(Says(j)) /\ inbox'[j] = inbox[j]
        BY <1>2, <2>1, HeardFromOther DEF Received, TypeOK
    <2>3. Inst = {i, j}
        BY <2>1 DEF Pair
    <2>4. Queues'
        BY <1>0, <2>2, <2>3
    <2>5. /\ pc'[i] = "top" /\ UNCHANGED <<cut, dual>>
          /\ \A k \in Inst \ {i} : pc'[k] = pc[k] /\ wait'[k] = wait[k]
        BY <1>2 DEF Received, TypeOK, envVars, ghosts
    <2>6. \A k \in Inst \ {i} : pc[k] = "recv" /\ wait[k] = 0 => inbox[i] = <<>>
        BY <1>0
    <2>7. Fresh' /\ Calm'
        BY <1>1, <1>2, <2>5, <2>6 DEF Received
    <2>8. Mais'
        <3>1. UNCHANGED mai => Mais'
            BY <1>0
        <3>2. mai' = [mai EXCEPT ![i] = AdvertInterval(i)] => Mais'
            BY <1>0 DEF TypeOK
        <3> QED BY <1>2, <3>1, <3>2
    <2> QED BY <1>0, <1>a, <2>4, <2>5, <2>7, <2>8
\* Any other step of one thread.
<1>3. ASSUME NEW i \in Inst, NEW j \in Inst, i # j, UNCHANGED cut, dual' = 0 \/ UNCHANGED dual,
             UNCHANGED mai \/ mai' = [mai EXCEPT ![i] = AdvertInterval(i)],
             pc'[i] = "recv" => wait'[i] > 0,
             pc'[j] = pc[j], wait'[j] = wait[j], st'[j] = st[j],
             inbox'[i] = inbox[i] \/ inbox'[i] = <<>>,
             \/ inbox'[j] = inbox[j]
             \/ inbox'[j] = Append(inbox[j], Advert(i, 0))
             \/ inbox'[j] = Append(inbox[j], Advert(i, Priority[i]))
      PROVE  PairInv'
    <2>1. Inst = {i, j}
        BY <1>3 DEF Pair
    <2>2. Advert(i, 0) \in Says(i) /\ Advert(i, Priority[i]) \in Says(i)
        BY DEF Says
    <2>3. inbox[i] \in Seq(Says(j)) /\ inbox[j] \in Seq(Says(i))
        BY <1>0, <1>3
    <2>4. inbox'[i] \in Seq(Says(j)) /\ inbox'[j] \in Seq(Says(i))
        <3>0. <<>> \in Seq(Says(j))
            OBVIOUS
        <3>1. inbox'[i] \in Seq(Says(j))
            BY <1>3, <2>3, <3>0, Zenon
        <3>2. \A m \in Says(i) : Append(inbox[j], m) \in Seq(Says(i))
            BY <2>3
        <3>3. inbox'[j] \in Seq(Says(i))
            BY <1>3, <2>2, <2>3, <3>2
        <3> QED BY <3>1, <3>3
    <2>5. Queues'
        BY <2>1, <2>4
    <2>6. Fresh' /\ Calm'
        BY <1>1, <1>3, <2>1
    <2>7. Mais'
        BY <1>0, <1>3 DEF TypeOK
    <2> QED BY <1>0, <1>3, <1>a, <2>5, <2>6, <2>7
<1>4. ASSUME NEW i \in Inst, Start(i) PROVE PairInv'
    <2>1. PICK j \in Inst : i # j
        BY DEF Pair
    <2>2. /\ pc'[i] = "top" /\ pc'[j] = pc[j] /\ wait'[j] = wait[j] /\ st'[j] = st[j]
          /\ mai' = [mai EXCEPT ![i] = AdvertInterval(i)]
          /\ UNCHANGED <<inbox, cut>> /\ dual' = 0
        BY <1>4, <2>1 DEF Start, TypeOK
    <2> QED BY <1>3, <2>1, <2>2
<1>5. ASSUME NEW i \in Inst, StopSeen(i) PROVE PairInv'
    <2>1. PICK j \in Inst : i # j
        BY DEF Pair
    <2>2. /\ pc'[i] = "off" /\ pc'[j] = pc[j] /\ wait'[j] = wait[j] /\ st'[j] = st[j]
          /\ mai' = [mai EXCEPT ![i] = AdvertInterval(i)]
          /\ UNCHANGED <<cut, dual>>
        BY <1>5, <2>1 DEF StopSeen, Ends, TypeOK, envVars
    <2>3. /\ inbox'[i] = <<>>
          /\ inbox'[j] = inbox[j] \/ inbox'[j] = Append(inbox[j], Advert(i, 0))
        <3>1. CASE st[i] = "master"
            <4>1. inbox' = [Delivered(i, 0) EXCEPT ![i] = <<>>]
                BY <1>5, <3>1 DEF StopSeen
            <4>2. inbox'[i] = <<>> /\ inbox'[j] = Delivered(i, 0)[j]
                BY <2>1, <4>1, ResignationType
            <4> QED BY <2>1, <4>2, DeliveredToOther
        <3>2. CASE st[i] # "master"
            BY <1>5, <2>1, <3>2 DEF StopSeen, TypeOK
        <3> QED BY <3>1, <3>2
    <2> QED BY <1>3, <2>1, <2>2, <2>3
<1>6. ASSUME NEW i \in Inst, Resign(i) PROVE PairInv'
    <2>1. PICK j \in Inst : i # j
        BY DEF Pair
    <2>2. ReadTimeout(MasterDown(i, mai[i])) > 0
        <3>1. MasterDown(i, mai[i]) \in Nat
            BY MasterDownType DEF TypeOK
        <3> QED BY <3>1, ReadTimeoutBounds, ReadTimeoutType
    <2>3. /\ wait'[i] > 0 /\ pc'[j] = pc[j] /\ wait'[j] = wait[j] /\ st'[j] = st[j]
          /\ UNCHANGED <<mai, cut, dual>>
        BY <1>6, <2>1, <2>2 DEF Resign, TypeOK, envVars
    <2>4. inbox' = Delivered(i, 0)
        BY <1>6 DEF Resign
    <2>5. /\ inbox'[i] = inbox[i]
          /\ inbox'[j] = inbox[j] \/ inbox'[j] = Append(inbox[j], Advert(i, 0))
        BY <2>1, <2>4, DeliveredToOther
    <2> QED BY <1>3, <2>1, <2>3, <2>5
<1>7. ASSUME NEW i \in Inst, Block(i) PROVE PairInv'
    <2>1. PICK j \in Inst : i # j
        BY DEF Pair
    <2>2. ReadTimeout(timer[i]) > 0
        <3>1. timer[i] \in Nat
            BY DEF TypeOK
        <3> QED BY <3>1, ReadTimeoutBounds, ReadTimeoutType
    <2>3. /\ wait'[i] > 0 /\ pc'[j] = pc[j] /\ wait'[j] = wait[j] /\ st'[j] = st[j]
          /\ UNCHANGED <<mai, cut, dual, inbox>>
        BY <1>7, <2>1, <2>2 DEF Block, TypeOK, envVars
    <2> QED BY <1>3, <2>1, <2>3
<1>8. ASSUME NEW i \in Inst, RecvIgnored(i) \/ RecvResigned(i) \/ RecvMaster(i)
                              \/ RecvPeerResigned(i) \/ RecvDemoted(i)
      PROVE  PairInv'
    <2>1. PICK j \in Inst : i # j
        BY DEF Pair
    <2>2. Received(i)
        BY <1>8 DEF RecvIgnored, RecvResigned, RecvMaster, RecvPeerResigned, RecvDemoted
    <2>3. Greater(Head(inbox[i]).interval, 1) = AdvertInterval(i)
        BY <2>1, <2>2, HeardFromOther DEF Received
    <2>4. /\ UNCHANGED mai \/ mai' = [mai EXCEPT ![i] = AdvertInterval(i)]
          /\ \A k \in Inst \ {i} : st'[k] = st[k]
        BY <1>8, <2>3 DEF RecvIgnored, RecvResigned, RecvMaster, RecvPeerResigned,
                          RecvDemoted, Demote, TypeOK
    <2> QED BY <1>2, <2>2, <2>4
<1>9. ASSUME NEW i \in Inst, Advertise(i) \/ TakeOver(i) \/ NotFit(i) \/ Woken(i)
      PROVE  PairInv'
    <2>1. PICK j \in Inst : i # j
        BY DEF Pair
    <2>2. /\ TimedOut(i)
          /\ UNCHANGED mai \/ mai' = [mai EXCEPT ![i] = AdvertInterval(i)]
          /\ st'[j] = st[j]
          /\ UNCHANGED inbox \/ inbox' = Delivered(i, Priority[i])
        BY <1>9, <2>1 DEF Advertise, TakeOver, BecomeMaster, NotFit, Woken, TypeOK
    <2>3. /\ pc'[i] = "top" /\ pc'[j] = pc[j] /\ wait'[j] = wait[j] /\ UNCHANGED <<cut, dual>>
        BY <2>1, <2>2 DEF TimedOut, TypeOK, envVars, ghosts
    <2>4. /\ inbox'[i] = inbox[i]
          /\ inbox'[j] = inbox[j] \/ inbox'[j] = Append(inbox[j], Advert(i, Priority[i]))
        BY <2>1, <2>2, DeliveredToOther
    <2> QED BY <1>3, <2>1, <2>2, <2>3, <2>4
<1>10. ASSUME NEW h \in Hosts, Reboot(h) PROVE PairInv'
    <2>1. PICK i \in Inst : HostOf[i] = h
        BY <1>10 DEF Reboot, Dies
    <2>2. PICK j \in Inst : i # j
        BY DEF Pair
    <2>3. HostOf[j] # h
        BY <2>1, <2>2 DEF Pair
    <2>4. /\ pc'[i] = "off" /\ pc'[j] = pc[j] /\ wait'[j] = wait[j] /\ st'[j] = st[j]
          /\ inbox'[i] = <<>> /\ inbox'[j] = inbox[j]
        BY <1>10, <2>1, <2>2, <2>3 DEF Reboot, Dies, TypeOK
    <2>5. mai' = [mai EXCEPT ![i] = AdvertInterval(i)]
        <3>1. \A k \in Inst : k # i => HostOf[k] # h
            BY <2>1, <2>3, <2>2 DEF Pair
        <3>2. mai' = [k \in Inst |-> IF HostOf[k] = h THEN AdvertInterval(k) ELSE mai[k]]
            BY <1>10 DEF Reboot, Dies
        <3> QED BY <2>1, <3>1, <3>2 DEF TypeOK
    <2>6. UNCHANGED cut /\ dual' = 0
        BY <1>10 DEF Reboot, Fault
    <2> QED BY <1>3, <2>2, <2>4, <2>5, <2>6
<1>11. CASE Tick
    <2>1. \A i \in Inst : Idle(i)
        BY <1>11 DEF Tick, LossFree
    <2>2. \A i \in Inst : inbox[i] = <<>>
        BY <2>1 DEF Idle, RunInv
    <2>3. Fresh'
        BY <1>11, <2>2 DEF Tick
    <2>4. Calm'
        <3> SUFFICES ASSUME NEW i \in Inst, st[i] = "backup" PROVE dual' = 0
            BY <1>11 DEF Tick
        <3>1. ~(Cardinality(Holders) > 1)
            BY TwoHolders DEF Pair
        <3> QED BY <1>11, <3>1 DEF Tick
    <2>5. UNCHANGED <<cut, mai, inbox>>
        BY <1>11 DEF Tick, envVars
    <2> QED BY <1>0, <1>a, <2>3, <2>4, <2>5
<1>12. ASSUME UNCHANGED <<loopVars, inbox, held, cut>>, dual' = 0 \/ UNCHANGED dual
       PROVE  PairInv'
    BY <1>12 DEF loopVars, PairInv
<1>13. ASSUME NEW i \in Inst, Loop(i) PROVE PairInv'
    BY <1>5, <1>6, <1>7, <1>8, <1>9, <1>13 DEF Loop
<1> QED BY <1>4, <1>10, <1>11, <1>12, <1>13, LossFreeNext

\* So PairInv always holds of two on such a LAN.
LEMMA PairAlways ==
    ASSUME NEW hi \in Inst, NEW lo \in Inst, Pair(hi, lo), LossFree
    PROVE  Spec => []PairInv
<1>1. Init => PairInv
    <2> SUFFICES ASSUME Init PROVE PairInv
        OBVIOUS
    <2>1. \A i \in Inst : /\ pc[i] = "off" /\ mai[i] = AdvertInterval(i) /\ inbox[i] = <<>>
        BY DEF Init
    <2>2. \A j \in Inst : <<>> \in Seq(Says(j))
        OBVIOUS
    <2>3. cut = {} /\ dual = 0
        BY DEF Init
    <2> QED BY <2>1, <2>2, <2>3 DEF PairInv
<1>2. TypeOK /\ RunInv /\ HolderIsMaster /\ PairInv /\ [Next]_vars => PairInv'
    BY PairStep
<1> QED BY <1>1, <1>2, TypeCorrect, RunAlways, NoStrayAddress, PTL DEF Spec

-----------------------------------------------------------------------------
(* The overlap. *)

\* A queue holds an advertisement; a resignation.
Heralds(q) == \E k \in DOMAIN q : q[k].prio # 0
Resigns(q) == \E k \in DOMAIN q : q[k].prio = 0

\* At most so much of hi's read is left: one with a packet to read starts over.
Left(hi) == IF pc[hi] = "recv" /\ inbox[hi] = <<>> THEN wait[hi] ELSE MinWait

\* Why the overlap ends.  hi's next advertisement is never further off than lo's
\* patience, unless one is on its way.  When both are Masters hi has one due now, and
\* sends it when its read ends; lo's own advertisement can restart that read once,
\* since lo then has none due for longer than the read takes.
OverlapInv(hi, lo) ==
    /\ st[hi] = "master" => timer[hi] <= AdvertInterval(hi)
    /\ st[hi] = "master" /\ Resigns(inbox[lo]) => dual = 0 /\ timer[hi] = 0
    /\ st[hi] = "master" /\ st[lo] = "backup" =>
           timer[hi] <= timer[lo] \/ Heralds(inbox[lo])
    /\ st[hi] = "master" /\ st[lo] = "master" =>
           \/ Heralds(inbox[lo])
           \/ /\ timer[hi] = 0
              /\ \/ dual + Left(hi) <= MinWait
                 \/ dual + Left(hi) <= 2 * MinWait /\ timer[lo] > Left(hi)
    /\ dual <= 2 * MinWait

\* An empty queue announces nothing; a packet more, and a packet less.
LEMMA QueueFacts ==
    /\ ~Heralds(<<>>) /\ ~Resigns(<<>>)
    /\ \A S : \A q \in Seq(S) : \A m \in S :
           /\ Heralds(Append(q, m)) <=> Heralds(q) \/ m.prio # 0
           /\ Resigns(Append(q, m)) <=> Resigns(q) \/ m.prio = 0
    /\ \A S : \A q \in Seq(S) : q # <<>> =>
           /\ Heralds(q) <=> Head(q).prio # 0 \/ Heralds(Tail(q))
           /\ Resigns(q) <=> Head(q).prio = 0 \/ Resigns(Tail(q))
<1>1. ~Heralds(<<>>) /\ ~Resigns(<<>>)
    BY DEF Heralds, Resigns
<1>2. ASSUME NEW S, NEW q \in Seq(S), NEW m \in S
      PROVE  /\ Heralds(Append(q, m)) <=> Heralds(q) \/ m.prio # 0
             /\ Resigns(Append(q, m)) <=> Resigns(q) \/ m.prio = 0
    <2>1. /\ DOMAIN q = 1..Len(q) /\ Len(q) \in Nat
          /\ DOMAIN Append(q, m) = 1..(Len(q) + 1)
          /\ \A k \in 1..Len(q) : Append(q, m)[k] = q[k]
          /\ Append(q, m)[Len(q) + 1] = m
        OBVIOUS
    <2> DEFINE n == Len(q)
    <2>2. \A k \in 1..(n + 1) : k \in 1..n \/ k = n + 1
        BY <2>1
    <2>3. (\A k \in 1..n : k \in 1..(n + 1)) /\ n + 1 \in 1..(n + 1)
        BY <2>1
    <2> HIDE DEF n
    <2>4. Heralds(Append(q, m)) <=> Heralds(q) \/ m.prio # 0
        BY <2>1, <2>2, <2>3, Zenon DEF Heralds, n
    <2>5. Resigns(Append(q, m)) <=> Resigns(q) \/ m.prio = 0
        BY <2>1, <2>2, <2>3, Zenon DEF Resigns, n
    <2> QED BY <2>4, <2>5
<1>3. ASSUME NEW S, NEW q \in Seq(S), q # <<>>
      PROVE  /\ Heralds(q) <=> Head(q).prio # 0 \/ Heralds(Tail(q))
             /\ Resigns(q) <=> Head(q).prio = 0 \/ Resigns(Tail(q))
    <2>1. /\ DOMAIN q = 1..Len(q) /\ Len(q) \in Nat /\ Len(q) >= 1
          /\ Head(q) = q[1]
          /\ DOMAIN Tail(q) = 1..(Len(q) - 1)
          /\ \A k \in 1..(Len(q) - 1) : Tail(q)[k] = q[k + 1]
        BY <1>3
    <2>2. \A k \in DOMAIN q : q[k] = Head(q) \/ \E l \in DOMAIN Tail(q) : q[k] = Tail(q)[l]
        <3> SUFFICES ASSUME NEW k \in 1..Len(q), k # 1
                     PROVE  \E l \in DOMAIN Tail(q) : q[k] = Tail(q)[l]
            BY <2>1
        <3>1. k - 1 \in 1..(Len(q) - 1) /\ (k - 1) + 1 = k
            BY <2>1
        <3> QED BY <2>1, <3>1
    <2>3. \A l \in DOMAIN Tail(q) : \E k \in DOMAIN q : q[k] = Tail(q)[l]
        <3> SUFFICES ASSUME NEW l \in 1..(Len(q) - 1) PROVE \E k \in DOMAIN q : q[k] = Tail(q)[l]
            BY <2>1
        <3>1. l + 1 \in 1..Len(q)
            BY <2>1
        <3> QED BY <2>1, <3>1
    <2>4. \E k \in DOMAIN q : q[k] = Head(q)
        <3>1. 1 \in 1..Len(q)
            BY <2>1
        <3> QED BY <2>1, <3>1
    <2>5. Heralds(q) <=> Head(q).prio # 0 \/ Heralds(Tail(q))
        <3>1. Heralds(q) => Head(q).prio # 0 \/ Heralds(Tail(q))
            BY <2>2, Zenon DEF Heralds
        <3>2. Head(q).prio # 0 => Heralds(q)
            BY <2>4, Zenon DEF Heralds
        <3>3. Heralds(Tail(q)) => Heralds(q)
            BY <2>3, Zenon DEF Heralds
        <3> QED BY <3>1, <3>2, <3>3
    <2>6. Resigns(q) <=> Head(q).prio = 0 \/ Resigns(Tail(q))
        BY <2>2, <2>3, <2>4, Zenon DEF Resigns
    <2> QED BY <2>5, <2>6
<1> QED BY <1>1, <1>2, <1>3

\* A step of one thread is its own but for the packet it sends.
LEMMA OtherUntouched ==
    ASSUME TypeOK, NEW i \in Inst, NEW j \in Inst, i # j, Loop(i)
    PROVE  /\ pc'[j] = pc[j] /\ st'[j] = st[j] /\ timer'[j] = timer[j] /\ wait'[j] = wait[j]
           /\ lag'[j] = lag[j] /\ UNCHANGED <<stop, healthy, calm, dual>>
<1> DEFINE Same == /\ pc'[j] = pc[j] /\ wait'[j] = wait[j] /\ lag'[j] = lag[j]
                   /\ UNCHANGED <<stop, healthy, calm, dual>>
<1>1. StopSeen(i) => Same /\ st'[j] = st[j] /\ timer'[j] = timer[j]
    BY DEF StopSeen, Ends, TypeOK, envVars
<1>2. Resign(i) => Same /\ st'[j] = st[j] /\ timer'[j] = timer[j]
    BY DEF Resign, TypeOK, envVars
<1>3. Block(i) => Same /\ st'[j] = st[j] /\ timer'[j] = timer[j]
    BY DEF Block, TypeOK, envVars
<1>4. Received(i) => Same
    BY DEF Received, TypeOK, envVars, ghosts
<1>5. TimedOut(i) => Same
    BY DEF TimedOut, TypeOK, envVars, ghosts
<1> HIDE DEF Same
<1>6. RecvIgnored(i) \/ RecvResigned(i) \/ RecvMaster(i) \/ RecvPeerResigned(i)
         \/ RecvDemoted(i) => Received(i) /\ st'[j] = st[j] /\ timer'[j] = timer[j]
    BY DEF RecvIgnored, RecvResigned, RecvMaster, RecvPeerResigned, RecvDemoted, Demote, TypeOK
<1>7. Advertise(i) \/ TakeOver(i) \/ NotFit(i) \/ Woken(i)
         => TimedOut(i) /\ st'[j] = st[j] /\ timer'[j] = timer[j]
    BY DEF Advertise, TakeOver, BecomeMaster, NotFit, Woken, TypeOK
<1>8. Same /\ st'[j] = st[j] /\ timer'[j] = timer[j]
    BY <1>1, <1>2, <1>3, <1>4, <1>5, <1>6, <1>7 DEF Loop
<1> QED BY <1>8 DEF Same

\* hi's read ends within MinWait when its advertisement is due.
LEMMA LeftBound ==
    ASSUME TypeOK, RunInv, NEW hi \in Inst
    PROVE  /\ Left(hi) \in Nat
           /\ timer[hi] = 0 => Left(hi) <= MinWait
BY DEF Left, TypeOK, RunInv, Greater

\* hi is not Master: nothing but the ghost to account for.
LEMMA HiAway ==
    ASSUME NEW hi \in Inst, NEW lo \in Inst, TypeOK, OverlapInv(hi, lo),
           st'[hi] # "master", dual' = 0 \/ UNCHANGED dual
    PROVE  OverlapInv(hi, lo)'
<1>1. dual <= 2 * MinWait /\ 0 <= 2 * MinWait
    BY DEF OverlapInv
<1>2. dual' <= 2 * MinWait
    BY <1>1
<1> QED BY <1>2 DEF OverlapInv

\* hi is Master, with an advertisement due now and nothing to account for yet.
LEMMA HiDue ==
    ASSUME NEW hi \in Inst, NEW lo \in Inst, TypeOK', RunInv', timer'[hi] = 0, dual' = 0
    PROVE  OverlapInv(hi, lo)'
<1>1. Left(hi)' \in Nat /\ Left(hi)' <= MinWait
    BY DEF Left, TypeOK, RunInv, Greater
<1>2. AdvertInterval(hi) \in Nat /\ timer'[lo] \in Nat
    BY AdvertIntervalType DEF TypeOK
<1> QED BY <1>1, <1>2 DEF OverlapInv

\* hi stays Master and its advertisement gets no further away.
LEMMA HiStays ==
    ASSUME NEW hi \in Inst, NEW lo \in Inst, TypeOK, TypeOK', RunInv, RunInv', OverlapInv(hi, lo),
           st[hi] = "master", st'[lo] = st[lo], timer'[lo] = timer[lo],
           inbox'[lo] = inbox[lo], UNCHANGED dual,
           timer'[hi] = timer[hi] \/ timer'[hi] = 0,
           timer[hi] = 0 => Left(hi)' <= Left(hi)
    PROVE  OverlapInv(hi, lo)'
<1>1. Left(hi) \in Nat /\ Left(hi)' \in Nat
    BY DEF Left, TypeOK
<1>2. AdvertInterval(hi) \in Nat /\ timer[lo] \in Nat /\ timer[hi] \in Nat /\ dual \in Nat
    BY AdvertIntervalType DEF TypeOK
<1> QED BY <1>1, <1>2 DEF OverlapInv

\* The timers of a Backup that hears of a Master are longer than an interval.
LEMMA MasterDownLong == \A i \in Inst : \A m \in Nat : m <= MasterDown(i, m)
BY SkewType DEF MasterDown

\* lo follows and yields to all of hi's advertisements.
LEMMA LoYields ==
    ASSUME NEW hi \in Inst, NEW lo \in Inst, Pair(hi, lo), TypeOK, PairInv
    PROVE  inbox[lo] # <<>> /\ Head(inbox[lo]).prio # 0 =>
               YieldsTo(lo, Head(inbox[lo])) /\ Follows(lo, Head(inbox[lo]))
<1>1. hi # lo
    BY DEF Pair
<1>2. /\ Priority[hi] \in Nat /\ Priority[lo] \in Nat
      /\ Addr[HostOf[hi]] \in Nat /\ Addr[HostOf[lo]] \in Nat
    OBVIOUS
<1>3. /\ \/ Priority[hi] > Priority[lo]
         \/ Priority[hi] = Priority[lo] /\ Addr[HostOf[hi]] > Addr[HostOf[lo]]
      /\ Priority[hi] >= Priority[lo]
    BY <1>2 DEF Pair
<1>4. inbox[lo] # <<>> /\ Head(inbox[lo]).prio # 0 =>
          Head(inbox[lo]).prio = Priority[hi] /\ Head(inbox[lo]).src = HostOf[hi]
    BY <1>1, HeardFromOther
<1> QED BY <1>3, <1>4, Zenon DEF YieldsTo, Follows

\* hi yields to none of lo's.
LEMMA HiKeeps ==
    ASSUME NEW hi \in Inst, NEW lo \in Inst, Pair(hi, lo), TypeOK, PairInv
    PROVE  ~RecvDemoted(hi)
<1>1. hi # lo
    BY DEF Pair
<1>2. /\ Priority[hi] \in Nat /\ Priority[lo] \in Nat
      /\ Addr[HostOf[hi]] \in Nat /\ Addr[HostOf[lo]] \in Nat
    OBVIOUS
<1>3. /\ ~(Priority[lo] > Priority[hi])
      /\ ~(Priority[lo] = Priority[hi] /\ Addr[HostOf[lo]] > Addr[HostOf[hi]])
    BY <1>2 DEF Pair
<1>4. inbox[hi] # <<>> /\ Head(inbox[hi]).prio # 0 =>
          Head(inbox[hi]).prio = Priority[lo] /\ Head(inbox[hi]).src = HostOf[lo]
    BY <1>1, HeardFromOther
<1>5. inbox[hi] # <<>> /\ Head(inbox[hi]).prio # 0 => ~YieldsTo(hi, Head(inbox[hi]))
    BY <1>3, <1>4, Zenon DEF YieldsTo
<1>6. RecvDemoted(hi) => /\ inbox[hi] # <<>> /\ Head(inbox[hi]).prio # 0
                         /\ YieldsTo(hi, Head(inbox[hi]))
    BY DEF RecvDemoted, Received, Demote
<1> QED BY <1>5, <1>6

\* Every turn of hi's loop keeps OverlapInv.
LEMMA HiLoopStep ==
    ASSUME NEW hi \in Inst, NEW lo \in Inst, Pair(hi, lo), LossFree, TypeOK, TypeOK',
           RunInv, RunInv', PairInv, OverlapInv(hi, lo), Loop(hi)
    PROVE  OverlapInv(hi, lo)'
<1>1. hi # lo
    BY DEF Pair
<1>2. /\ pc'[lo] = pc[lo] /\ st'[lo] = st[lo] /\ timer'[lo] = timer[lo] /\ wait'[lo] = wait[lo]
      /\ UNCHANGED dual
    BY <1>1, OtherUntouched
<1>3. CASE StopSeen(hi) \/ Resign(hi) \/ RecvDemoted(hi) \/ NotFit(hi)
    <2>1. st'[hi] # "master"
        BY <1>3 DEF StopSeen, Ends, Resign, RecvDemoted, Demote, NotFit, TypeOK
    <2> QED BY <1>2, <2>1, HiAway
<1>4. CASE Block(hi)
    <2>1. /\ pc[hi] = "top" /\ pc'[hi] = "recv" /\ st'[hi] = st[hi] /\ timer'[hi] = timer[hi]
          /\ wait'[hi] = ReadTimeout(timer[hi]) /\ UNCHANGED inbox
        BY <1>4 DEF Block, TypeOK
    <2>2. timer[hi] = 0 => wait'[hi] = MinWait
        BY <2>1, ReadTimeoutBounds
    <2>3. timer[hi] = 0 => Left(hi)' <= Left(hi)
        BY <2>1, <2>2 DEF Left
    <2> QED BY <1>2, <2>1, <2>3, HiAway, HiStays
<1>5. CASE RecvIgnored(hi) \/ RecvResigned(hi) \/ RecvMaster(hi) \/ RecvPeerResigned(hi)
    <2>1. Received(hi) /\ UNCHANGED st
        BY <1>5 DEF RecvIgnored, RecvResigned, RecvMaster, RecvPeerResigned
    <2>2. st[hi] = "master" => timer'[hi] = timer[hi] \/ timer'[hi] = 0
        BY <1>5 DEF RecvIgnored, RecvResigned, RecvMaster, RecvPeerResigned, TypeOK
    <2>3. Left(hi) = MinWait /\ Left(hi)' = MinWait
        BY <2>1 DEF Received, Left, TypeOK
    <2>4. inbox'[lo] = inbox[lo]
        BY <1>1, <2>1 DEF Received, TypeOK
    <2> QED BY <1>2, <2>1, <2>2, <2>3, <2>4, HiAway, HiStays
<1>6. CASE Woken(hi)
    <2>1. timer[hi] # 0 /\ UNCHANGED <<st, timer, inbox>>
        BY <1>6 DEF Woken, TypeOK
    <2> QED BY <1>2, <2>1, HiAway, HiStays
<1>7. CASE TakeOver(hi)
    <2>1. timer'[hi] = 0 /\ dual = 0
        BY <1>7 DEF TakeOver, BecomeMaster, TimedOut, PairInv, TypeOK
    <2> QED BY <1>2, <2>1, HiDue
<1>8. CASE Advertise(hi)
    <2>1. /\ st'[hi] = st[hi] /\ timer'[hi] = AdvertInterval(hi)
          /\ inbox' = Delivered(hi, Priority[hi]) /\ pc[hi] = "recv" /\ wait[hi] = 0
        BY <1>8 DEF Advertise, TimedOut, TypeOK
    <2>2. inbox[lo] = <<>>
        BY <1>1, <2>1 DEF PairInv
    <2>3. CASE pc[lo] = "off"
        <3>1. inbox'[lo] = <<>>
            BY <2>1, <2>2, <2>3, DeliveredToRunning
        <3>2. st'[lo] = "initialize"
            BY <1>2, <2>3 DEF RunInv
        <3> QED BY <1>2, <2>1, <3>1, <3>2, QueueFacts, AdvertIntervalType DEF OverlapInv
    <2>4. CASE pc[lo] # "off"
        <3>1. inbox'[lo] = Append(<<>>, Advert(hi, Priority[hi]))
            BY <1>1, <2>1, <2>2, <2>4, DeliveredToOther
        <3>2. Advert(hi, Priority[hi]).prio # 0
            <4>1. Priority[hi] # 0
                OBVIOUS
            <4> QED BY <4>1 DEF Advert
        <3>3. Advert(hi, Priority[hi]) \in Says(hi) /\ <<>> \in Seq(Says(hi))
            BY DEF Says
        <3>4. Heralds(inbox'[lo]) /\ ~Resigns(inbox'[lo])
            BY <3>1, <3>2, <3>3, QueueFacts
        <3> QED BY <1>2, <2>1, <3>4, AdvertIntervalType DEF OverlapInv
    <2> QED BY <2>3, <2>4
<1> QED BY <1>3, <1>4, <1>5, <1>6, <1>7, <1>8 DEF Loop

\* lo is gone, or a Backup that waits a whole Master_Down_Interval.
LEMMA LoBehind ==
    ASSUME NEW hi \in Inst, NEW lo \in Inst, Pair(hi, lo), TypeOK, OverlapInv(hi, lo),
           st'[hi] = st[hi], timer'[hi] = timer[hi], dual' = 0 \/ UNCHANGED dual,
           Resigns(inbox[lo])' => Resigns(inbox[lo]),
           \/ st'[lo] = "initialize"
           \/ st'[lo] = "backup" /\ timer'[lo] = MasterDown(lo, AdvertInterval(lo))
    PROVE  OverlapInv(hi, lo)'
<1>1. AdvertInterval(hi) <= MasterDown(lo, AdvertInterval(lo))
    BY AdvertIntervalType, MasterDownLong DEF Pair
<1>2. /\ AdvertInterval(hi) \in Nat /\ MasterDown(lo, AdvertInterval(lo)) \in Nat
      /\ timer[hi] \in Nat
    BY AdvertIntervalType, MasterDownType DEF TypeOK
<1>3. dual <= 2 * MinWait /\ 0 <= 2 * MinWait
    BY DEF OverlapInv
<1>4. dual' <= 2 * MinWait
    BY <1>3
<1> QED BY <1>1, <1>2, <1>4 DEF OverlapInv

\* Every turn of lo's loop keeps OverlapInv.
LEMMA LoLoopStep ==
    ASSUME NEW hi \in Inst, NEW lo \in Inst, Pair(hi, lo), LossFree, TypeOK, TypeOK',
           RunInv, RunInv', PairInv, OverlapInv(hi, lo), Loop(lo)
    PROVE  OverlapInv(hi, lo)'
<1>1. hi # lo
    BY DEF Pair
<1>2. /\ pc'[hi] = pc[hi] /\ st'[hi] = st[hi] /\ timer'[hi] = timer[hi] /\ wait'[hi] = wait[hi]
      /\ UNCHANGED dual
    BY <1>1, OtherUntouched
<1>3. CASE st[hi] # "master"
    BY <1>2, <1>3, HiAway
<1>4. mai[lo] = AdvertInterval(lo)
    BY DEF PairInv
<1>5. inbox[lo] \in Seq(Says(hi))
    BY <1>1 DEF PairInv
<1>6. CASE StopSeen(lo)
    <2>1. st'[lo] = "initialize" /\ pc'[lo] = "off"
        BY <1>6 DEF StopSeen, Ends, TypeOK
    <2>2. inbox'[lo] = <<>>
        BY <2>1 DEF RunInv
    <2> QED BY <1>2, <2>1, <2>2, LoBehind, QueueFacts
<1>7. CASE Resign(lo)
    <2>1. st'[lo] = "backup" /\ timer'[lo] = MasterDown(lo, mai[lo]) /\ inbox' = Delivered(lo, 0)
        BY <1>7 DEF Resign, TypeOK
    <2>2. inbox'[lo] = inbox[lo]
        BY <1>1, <2>1, DeliveredToOther
    <2> QED BY <1>2, <1>4, <2>1, <2>2, LoBehind
<1>8. CASE NotFit(lo)
    <2>1. st'[lo] = "backup" /\ timer'[lo] = MasterDown(lo, mai[lo]) /\ UNCHANGED inbox
        BY <1>8 DEF NotFit, TypeOK
    <2> QED BY <1>2, <1>4, <2>1, LoBehind
\* What lo reads.
<1>9. ASSUME Received(lo)
      PROVE  /\ inbox[lo] # <<>> /\ inbox'[lo] = Tail(inbox[lo]) /\ inbox'[hi] = inbox[hi]
             /\ Heralds(inbox[lo]) => Head(inbox[lo]).prio # 0 \/ Heralds(inbox'[lo])
             /\ Resigns(inbox'[lo]) => Resigns(inbox[lo])
             /\ Head(inbox[lo]).prio = 0 => Resigns(inbox[lo])
    <2>1. inbox[lo] # <<>> /\ inbox'[lo] = Tail(inbox[lo]) /\ inbox'[hi] = inbox[hi]
        BY <1>1, <1>9 DEF Received, TypeOK
    <2> QED BY <1>5, <2>1, QueueFacts
<1>10. CASE RecvMaster(lo) \/ RecvDemoted(lo)
    <2>1. Received(lo)
        BY <1>10 DEF RecvMaster, RecvDemoted
    <2>2. Greater(Head(inbox[lo]).interval, 1) = AdvertInterval(lo)
        BY <1>1, <1>9, <2>1, HeardFromOther
    <2>3. st'[lo] = "backup" /\ timer'[lo] = MasterDown(lo, AdvertInterval(lo))
        BY <1>10, <2>2 DEF RecvMaster, RecvDemoted, Demote, TypeOK
    <2> QED BY <1>2, <1>9, <2>1, <2>3, LoBehind
\* A resignation that outlived hi's return finds it about to advertise.
<1>11. CASE RecvResigned(lo) \/ RecvPeerResigned(lo)
    <2>1. Received(lo) /\ Head(inbox[lo]).prio = 0
        BY <1>11 DEF RecvResigned, RecvPeerResigned
    <2>2. st[hi] = "master" => dual = 0 /\ timer[hi] = 0
        BY <1>9, <2>1 DEF OverlapInv
    <2> QED BY <1>2, <1>3, <2>2, HiDue
<1>12. ~RecvIgnored(lo)
    <2> SUFFICES ASSUME RecvIgnored(lo) PROVE FALSE
        OBVIOUS
    <2>1. Received(lo) /\ Ignored(lo, Head(inbox[lo]))
        BY DEF RecvIgnored
    <2>2. inbox[lo] # <<>> /\ Head(inbox[lo]) # Foreign
        BY <1>1, <1>9, <2>1, HeardFromOther
    <2> QED BY <2>1, <2>2, LoYields DEF Ignored
<1>13. CASE Block(lo) \/ Woken(lo)
    <2>1. UNCHANGED <<st, timer, inbox>>
        BY <1>13 DEF Block, Woken
    <2>2. Left(hi)' = Left(hi)
        BY <1>2, <2>1 DEF Left
    <2> QED BY <1>2, <2>1, <2>2 DEF OverlapInv
\* lo's patience ended, so hi, if it is Master, is about to advertise too.
<1>14. CASE TakeOver(lo)
    <2>1. /\ pc[lo] = "recv" /\ inbox[lo] = <<>> /\ wait[lo] = 0 /\ st[lo] = "backup"
          /\ timer[lo] = 0
        BY <1>14 DEF TakeOver, BecomeMaster, TimedOut
    <2>2. dual = 0
        BY <2>1 DEF PairInv
    <2>3. st[hi] = "master" => timer[hi] = 0
        <3>1. timer[hi] \in Nat
            BY DEF TypeOK
        <3>2. st[hi] = "master" => timer[hi] <= 0
            BY <2>1, QueueFacts DEF OverlapInv
        <3> QED BY <3>1, <3>2
    <2> QED BY <1>2, <1>3, <2>2, <2>3, HiDue
\* lo's advertisement restarts hi's read, once.
<1>15. CASE Advertise(lo)
    <2>1. /\ pc[lo] = "recv" /\ inbox[lo] = <<>> /\ wait[lo] = 0 /\ st[lo] = "master"
          /\ timer[lo] = 0 /\ st'[lo] = "master" /\ timer'[lo] = AdvertInterval(lo)
          /\ inbox' = Delivered(lo, Priority[lo])
        BY <1>15 DEF Advertise, TimedOut, TypeOK
    <2>2. inbox'[lo] = <<>>
        BY <1>1, <2>1, DeliveredToOther
    <2>3. CASE st[hi] = "master"
        <3>1. pc[hi] # "off" /\ inbox[hi] = <<>>
            BY <1>1, <2>1, <2>3 DEF RunInv, PairInv
        <3>2. inbox'[hi] = Append(<<>>, Advert(lo, Priority[lo]))
            BY <1>1, <2>1, <3>1, DeliveredToOther
        <3>3. inbox'[hi] # <<>>
            BY <3>2
        <3>4. Left(hi)' = MinWait
            BY <3>3 DEF Left
        <3>5. timer[hi] = 0 /\ dual + Left(hi) <= MinWait
            BY <2>1, <2>3, QueueFacts, LeftBound DEF OverlapInv
        <3>6. dual \in Nat /\ Left(hi) \in Nat /\ AdvertInterval(lo) > MinWait
              /\ AdvertInterval(hi) \in Nat
            <4>1. dual \in Nat
                BY DEF TypeOK
            <4>2. AdvertInterval(hi) \in Nat /\ AdvertInterval(hi) = AdvertInterval(lo)
                  /\ MinWait < AdvertInterval(hi)
                BY AdvertIntervalType DEF Pair
            <4> QED BY <4>1, <4>2, LeftBound
        <3>7. dual + MinWait <= 2 * MinWait
            BY <3>5, <3>6
        <3> QED BY <1>2, <2>1, <2>2, <2>3, <3>4, <3>5, <3>6, <3>7, QueueFacts DEF OverlapInv
    <2> QED BY <1>3, <2>3
<1> QED BY <1>6, <1>7, <1>8, <1>10, <1>11, <1>12, <1>13, <1>14, <1>15 DEF Loop

\* Every step keeps OverlapInv.
LEMMA OverlapStep ==
    ASSUME NEW hi \in Inst, NEW lo \in Inst, Pair(hi, lo), LossFree, TypeOK, TypeOK',
           RunInv, RunInv', HolderIsMaster, PairInv, OverlapInv(hi, lo), [Next]_vars
    PROVE  OverlapInv(hi, lo)'
<1>1. hi # lo /\ Inst = {hi, lo}
    BY DEF Pair
<1>2. CASE Start(hi)
    <2>1. dual' = 0 /\ (st'[hi] # "master" \/ timer'[hi] = 0)
        BY <1>2 DEF Start, TypeOK
    <2> QED BY <2>1, HiAway, HiDue
<1>3. CASE Start(lo)
    <2>1. StartState(lo) = "backup"
        BY DEF StartState, Pair
    <2>2. /\ st'[hi] = st[hi] /\ timer'[hi] = timer[hi] /\ dual' = 0 /\ UNCHANGED inbox
          /\ st'[lo] = "backup" /\ timer'[lo] = MasterDown(lo, AdvertInterval(lo))
        BY <1>1, <1>3, <2>1 DEF Start, TypeOK
    <2> QED BY <2>2, LoBehind
<1>4. ASSUME NEW h \in Hosts, Reboot(h) PROVE OverlapInv(hi, lo)'
    <2>1. dual' = 0
        BY <1>4 DEF Reboot, Fault
    <2>2. CASE h = HostOf[hi]
        <3>1. st'[hi] = "initialize"
            BY <1>4, <2>2 DEF Reboot, Dies
        <3> QED BY <2>1, <3>1, HiAway
    <2>3. CASE h # HostOf[hi]
        <3>1. h = HostOf[lo]
            BY <1>1, <1>4, <2>3 DEF Reboot, Dies
        <3>2. /\ st'[hi] = st[hi] /\ timer'[hi] = timer[hi]
              /\ st'[lo] = "initialize" /\ inbox'[lo] = <<>>
            BY <1>4, <2>3, <3>1 DEF Reboot, Dies
        <3> QED BY <2>1, <3>2, QueueFacts, LoBehind
    <2> QED BY <2>2, <2>3
\* Time passes: every queue is empty, and hi, if it is Master, is in its read.
<1>5. CASE Tick
    <2>1. \A i \in Inst : Idle(i)
        BY <1>5 DEF Tick, LossFree
    <2>2. inbox[lo] = <<>> /\ inbox[hi] = <<>>
        BY <2>1 DEF Idle, RunInv
    <2>3. /\ UNCHANGED <<pc, st, inbox>>
          /\ timer'[hi] = Down1(timer[hi]) /\ timer'[lo] = Down1(timer[lo])
          /\ wait'[hi] = Down1(wait[hi])
        BY <1>5 DEF Tick
    <2>4. /\ timer[hi] \in Nat /\ timer[lo] \in Nat /\ wait[hi] \in Nat /\ dual \in Nat
          /\ AdvertInterval(hi) \in Nat /\ dual' \in Nat
        BY AdvertIntervalType DEF TypeOK
    <2>5. dual' = 0 \/ (dual' <= dual + 1 /\ st[hi] = "master" /\ st[lo] = "master")
        <3>1. CASE Cardinality(Holders) > 1
            <4>1. dual' = Lesser(dual + 1, Settle)
                BY <1>5, <3>1 DEF Tick
            <4>2. dual' <= dual + 1
                BY <2>4, <4>1 DEF Lesser
            <4> QED BY <3>1, <4>2, TwoHolders
        <3>2. CASE ~(Cardinality(Holders) > 1)
            BY <1>5, <3>2 DEF Tick
        <3> QED BY <3>1, <3>2
    <2>6. ~Heralds(inbox[lo]) /\ ~Resigns(inbox[lo])
        BY <2>2, QueueFacts
    <2>7. st[hi] = "master" => pc[hi] = "recv" /\ wait[hi] > 0
        BY <2>1 DEF Idle, RunInv
    <2>8. st[hi] = "master" => /\ Left(hi) = wait[hi] /\ Left(hi)' = wait[hi] - 1
        BY <2>2, <2>3, <2>4, <2>7 DEF Left, Down1
    <2>9. CASE st[hi] # "master"
        BY <2>3, <2>5, <2>9, HiAway
    <2>10. CASE st[hi] = "master" /\ st[lo] # "master"
        <3>1. dual' = 0
            BY <2>5, <2>10
        <3>2. /\ timer[hi] <= AdvertInterval(hi)
              /\ st[lo] = "backup" => timer[hi] <= timer[lo]
            BY <2>6, <2>10 DEF OverlapInv
        <3>3. /\ timer'[hi] <= AdvertInterval(hi)
              /\ st[lo] = "backup" => timer'[hi] <= timer'[lo]
            BY <2>3, <2>4, <3>2 DEF Down1
        <3> QED BY <2>3, <2>6, <2>10, <3>1, <3>3 DEF OverlapInv
    <2>11. CASE st[hi] = "master" /\ st[lo] = "master"
        <3>1. /\ timer[hi] = 0
              /\ \/ dual + wait[hi] <= MinWait
                 \/ dual + wait[hi] <= 2 * MinWait /\ timer[lo] > wait[hi]
            BY <2>6, <2>8, <2>11 DEF OverlapInv
        <3>2. dual' <= dual + 1
            BY <2>4, <2>5
        <3>3. /\ timer'[hi] = 0 /\ dual' <= 2 * MinWait
              /\ \/ dual' + (wait[hi] - 1) <= MinWait
                 \/ dual' + (wait[hi] - 1) <= 2 * MinWait /\ timer'[lo] > wait[hi] - 1
            BY <2>3, <2>4, <2>7, <2>11, <3>1, <3>2 DEF Down1
        <3> QED BY <2>3, <2>4, <2>6, <2>8, <2>11, <3>3 DEF OverlapInv
    <2> QED BY <2>9, <2>10, <2>11
<1>6. ASSUME UNCHANGED <<loopVars, inbox, held, cut>>, dual' = 0 \/ UNCHANGED dual
      PROVE  OverlapInv(hi, lo)'
    <2>1. UNCHANGED <<pc, st, timer, wait, inbox>>
        BY <1>6 DEF loopVars
    <2>2. Left(hi)' = Left(hi) /\ Left(hi) \in Nat
        BY <2>1, LeftBound DEF Left
    <2>3. dual \in Nat
        BY DEF TypeOK
    <2> QED BY <1>6, <2>1, <2>2, <2>3 DEF OverlapInv
<1> QED
    BY <1>1, <1>2, <1>3, <1>4, <1>5, <1>6, HiLoopStep, LoLoopStep, LossFreeNext

\* There are two machines.
LEMMA TwoHosts ==
    ASSUME NEW hi \in Inst, NEW lo \in Inst, Pair(hi, lo)
    PROVE  2 * MinWait <= MinWait * Cardinality(Hosts)
<1>1. HostOf[hi] # HostOf[lo] /\ {HostOf[hi], HostOf[lo]} \subseteq Hosts
    BY DEF Pair
<1>2. Cardinality({HostOf[hi]}) = 1 /\ IsFiniteSet({HostOf[hi]})
    BY FS_Singleton
<1>3. {HostOf[hi], HostOf[lo]} = {HostOf[hi]} \cup {HostOf[lo]}
    OBVIOUS
<1>4. HostOf[lo] \notin {HostOf[hi]}
    BY <1>1
<1>5. Cardinality({HostOf[hi]} \cup {HostOf[lo]}) = Cardinality({HostOf[hi]}) + 1
    BY <1>2, <1>4, FS_AddElement
<1>6. Cardinality({HostOf[hi], HostOf[lo]}) = 2
    BY <1>2, <1>3, <1>5
<1>7. IsFiniteSet(Hosts)
    OBVIOUS
<1>8. Cardinality({HostOf[hi], HostOf[lo]}) <= Cardinality(Hosts) /\ Cardinality(Hosts) \in Nat
    BY <1>1, <1>7, FS_Subset, FS_CardinalityType
<1>9. Cardinality(Hosts) \in Nat /\ 2 <= Cardinality(Hosts)
    BY <1>6, <1>8
<1>10. \A n, w \in Nat : 2 <= n => 2 * w <= w * n
    OBVIOUS
<1> QED BY <1>9, <1>10

\* On a LAN that loses nothing, of two machines of any priorities, interval and read
\* timeouts, both have the address for two shortest read timeouts (20 ms) at most after
\* any resignation, restart, reboot or return of a pool: what the loop does when a read
\* times out (it advertises) is soon enough, whatever the other's packets do to the read.
THEOREM OverlapIsBrief ==
    ASSUME NEW hi \in Inst, NEW lo \in Inst, Pair(hi, lo), LossFree
    PROVE  Spec => []BriefOverlap
<1>1. Init => OverlapInv(hi, lo)
    BY DEF Init, OverlapInv
<1>2. TypeOK /\ TypeOK' /\ RunInv /\ RunInv' /\ HolderIsMaster /\ PairInv
        /\ OverlapInv(hi, lo) /\ [Next]_vars => OverlapInv(hi, lo)'
    BY OverlapStep
<1>3. TypeOK /\ OverlapInv(hi, lo) => BriefOverlap
    <2> SUFFICES ASSUME TypeOK, OverlapInv(hi, lo) PROVE BriefOverlap
        OBVIOUS
    <2>1. dual \in Nat /\ dual <= 2 * MinWait
        BY DEF TypeOK, OverlapInv
    <2>2. Cardinality(Hosts) \in Nat
        BY FS_CardinalityType
    <2> QED BY <2>1, <2>2, TwoHosts DEF BriefOverlap
<1>4. Spec => []PairInv
    BY PairAlways
<1> QED
    BY <1>1, <1>2, <1>3, <1>4, TypeCorrect, RunAlways, NoStrayAddress, PTL DEF Spec

-----------------------------------------------------------------------------
(* A request that goes unanswered, in a group of any size. *)

\* Nothing has happened for as long as a request waits: a thread only takes on the
\* address with a healthy pool.
RequestInv == Timely => \A i \in Inst : Unanswered(i) => calm <= lag[i]

\* Every step keeps RequestInv.
LEMMA RequestStep ==
    ASSUME TypeOK, TypeOK', AnsweredInv, RequestInv, [Next]_vars
    PROVE  RequestInv'
<1> SUFFICES ASSUME Timely, NEW j \in Inst, Unanswered(j)' PROVE calm' <= lag'[j]
    BY DEF RequestInv
<1>1. Unanswered(j) => calm <= lag[j]
    BY DEF RequestInv
<1>2. lag'[j] \in Nat /\ lag[j] \in Nat /\ calm \in Nat /\ calm' \in Nat
    BY DEF TypeOK
<1>3. ASSUME calm' = 0 PROVE calm' <= lag'[j]
    BY <1>2, <1>3
<1>4. ASSUME NEW i \in Inst, Loop(i) PROVE calm' <= lag'[j]
    <2>1. CASE i # j
        <3>1. /\ pc'[j] = pc[j] /\ st'[j] = st[j] /\ lag'[j] = lag[j]
              /\ UNCHANGED <<stop, healthy, calm>>
            BY <1>4, <2>1, OtherUntouched
        <3>2. Unanswered(j)
            BY <3>1 DEF Unanswered
        <3> QED BY <1>1, <3>1, <3>2
    <2>2. CASE i = j
        <3>1. ~StopSeen(j)
            BY DEF StopSeen, Ends, Unanswered, TypeOK
        <3>2. ~Resign(j)
            BY DEF Resign, Unanswered, TypeOK, envVars
        <3>3. ~Block(j)
            BY DEF Block, Unanswered, TypeOK, envVars
        <3>4. CASE RecvIgnored(j) \/ RecvResigned(j) \/ RecvMaster(j) \/ RecvPeerResigned(j)
                   \/ RecvDemoted(j)
            <4>1. Received(j) /\ (st'[j] = st[j] \/ st'[j] = "backup")
                BY <3>4 DEF RecvIgnored, RecvResigned, RecvMaster, RecvPeerResigned,
                            RecvDemoted, Demote, TypeOK
            <4>2. pc[j] # "off" /\ UNCHANGED <<stop, healthy, calm, lag>>
                BY <4>1 DEF Received, envVars, ghosts
            <4>3. Unanswered(j)
                BY <4>1, <4>2 DEF Unanswered
            <4> QED BY <1>1, <4>2, <4>3
        <3>5. CASE Advertise(j) \/ TakeOver(j) \/ NotFit(j) \/ Woken(j)
            <4>1. TimedOut(j) /\ (st'[j] = st[j] \/ healthy[HostOf[j]])
                BY <3>5 DEF Advertise, TakeOver, BecomeMaster, NotFit, Woken, TypeOK
            <4>2. pc[j] # "off" /\ UNCHANGED <<stop, healthy, calm, lag>>
                BY <4>1 DEF TimedOut, envVars, ghosts
            <4>3. Unanswered(j)
                BY <4>1, <4>2 DEF Unanswered
            <4> QED BY <1>1, <4>2, <4>3
        <3> QED BY <1>4, <2>2, <3>1, <3>2, <3>3, <3>4, <3>5 DEF Loop
    <2> QED BY <2>1, <2>2
<1>5. CASE Tick
    <2>1. UNCHANGED <<pc, st, stop, healthy>>
        BY <1>5 DEF Tick, envVars
    <2>2. Unanswered(j)
        BY <2>1 DEF Unanswered
    <2>3. lag[j] <= MaxWait
        BY DEF AnsweredInv
    <2>4. lag'[j] = Lesser(lag[j] + 1, MaxWait + 1) /\ calm' = Lesser(calm + 1, Settle)
        BY <1>5, <2>2 DEF Tick
    <2>5. lag'[j] = lag[j] + 1 /\ calm' <= calm + 1
        <3>1. lag[j] + 1 <= MaxWait + 1
            BY <1>2, <2>3
        <3>2. lag'[j] = lag[j] + 1
            BY <2>4, <3>1 DEF Lesser
        <3>3. calm' <= calm + 1
            BY <1>2, <2>4 DEF Lesser
        <3> QED BY <3>2, <3>3
    <2> QED BY <1>1, <1>2, <2>2, <2>5
<1>6. CASE UNCHANGED vars
    <2>1. UNCHANGED <<pc, st, stop, healthy, calm, lag>>
        BY <1>6 DEF vars, loopVars, envVars, ghosts
    <2> QED BY <1>1, <2>1 DEF Unanswered
<1>7. ASSUME NEW i \in Inst, Start(i) \/ Stop(i) \/ RecvError(i) \/ ForeignPacket(i)
      PROVE  calm' = 0
    BY <1>7 DEF Start, Stop, RecvError, ForeignPacket, Fault
<1>8. ASSUME NEW h \in Hosts, HealthChange(h) \/ LinkChange(h) \/ Crash(h) \/ Reboot(h)
      PROVE  calm' = 0
    BY <1>8 DEF HealthChange, LinkChange, Crash, Reboot, Fault
<1> QED BY <1>3, <1>4, <1>5, <1>6, <1>7, <1>8 DEF Next

\* So both invariants about requests always hold, in any group.
LEMMA RequestAlways == Spec => [](AnsweredInv /\ RequestInv)
<1>1. Init => RequestInv
    BY DEF Init, RequestInv, Unanswered
<1>2. Init => AnsweredInv
    BY DEF Init, AnsweredInv
<1>3. TypeOK /\ TypeOK' /\ AnsweredInv /\ RequestInv /\ [Next]_vars => RequestInv'
    BY RequestStep
<1> QED BY <1>1, <1>2, <1>3, AnsweredStep, TypeCorrect, PTL DEF Spec

\* Whoever must answer has had less than one MaxWait of calm to do it in.
LEMMA RequestIsFresh ==
    ASSUME TypeOK, Timely, AnsweredInv, RequestInv, NEW i \in Inst, Unanswered(i)
    PROVE  calm <= MaxWait
<1>1. calm <= lag[i] /\ lag[i] <= MaxWait
    BY DEF AnsweredInv, RequestInv
<1>2. calm \in Nat /\ lag[i] \in Nat
    BY DEF TypeOK
<1> QED BY <1>1, <1>2

\* One read timeout after the last event only instances that can serve are Master.
MastersFit == Timely /\ calm > MaxWait => Masters \subseteq Fit

\* In a group of any size on any LAN, with threads that get to run: one read timeout
\* (500 ms) after the last event no instance without a healthy pool, and none that was
\* told to stop, is Master, and none becomes Master later.
THEOREM OnlyFitMasters == Spec => []MastersFit
<1>1. TypeOK /\ MasterRuns /\ AnsweredInv /\ RequestInv => MastersFit
    <2> SUFFICES ASSUME TypeOK, MasterRuns, AnsweredInv, RequestInv, Timely, calm > MaxWait,
                        NEW i \in Inst, st[i] = "master"
                 PROVE  i \in Fit
        BY DEF MastersFit, Masters
    <2>1. calm \in Nat
        BY DEF TypeOK
    <2>2. ~Unanswered(i)
        BY <2>1, RequestIsFresh
    <2>3. pc[i] # "off"
        BY DEF MasterRuns
    <2> QED BY <2>2, <2>3 DEF Unanswered, Fit
<1> QED BY <1>1, TypeCorrect, MasterRunsAlways, RequestAlways, PTL

-----------------------------------------------------------------------------
(* The election of two: the timers and the packets on their way. *)

\* The longest timer of the two.
Longest(lo) == MasterDown(lo, AdvertInterval(lo))

\* How the intervals of the two compare.
LEMMA LongestFacts ==
    ASSUME NEW hi \in Inst, NEW lo \in Inst, Pair(hi, lo)
    PROVE  /\ AdvertInterval(lo) \in Nat /\ Longest(lo) \in Nat
           /\ MinWait < AdvertInterval(lo) /\ 3 * AdvertInterval(lo) <= Longest(lo)
           /\ \A i \in Inst : /\ AdvertInterval(i) = AdvertInterval(lo)
                              /\ MasterDown(i, AdvertInterval(i)) \in Nat
                              /\ MasterDown(i, AdvertInterval(i)) <= Longest(lo)
                              /\ 3 * AdvertInterval(lo) <= MasterDown(i, AdvertInterval(i))
                              /\ Skew(i, AdvertInterval(i)) \in Nat
                              /\ Skew(i, AdvertInterval(i)) <= AdvertInterval(lo)
<1>1. AdvertInterval(lo) \in Nat
    BY AdvertIntervalType
<1>2. AdvertInterval(hi) = AdvertInterval(lo) /\ MinWait < AdvertInterval(lo) /\ Inst = {hi, lo}
    BY DEF Pair
<1>3. \A i \in Inst : AdvertInterval(i) = AdvertInterval(lo)
    BY <1>2
<1>4. Priority[hi] \in Nat /\ Priority[lo] \in Nat
    OBVIOUS
<1>5. Priority[hi] >= Priority[lo]
    BY <1>4 DEF Pair
<1>6. MasterDown(hi, AdvertInterval(lo)) <= MasterDown(lo, AdvertInterval(lo))
    BY <1>1, <1>5, HigherPriorityFirst
<1>7. \A i \in Inst : MasterDown(i, AdvertInterval(lo)) \in Nat
    BY <1>1, MasterDownType
<1>8. \A i \in Inst : MasterDown(i, AdvertInterval(lo)) <= Longest(lo)
    BY <1>2, <1>6, <1>7 DEF Longest
<1>9. \A i \in Inst : /\ Skew(i, AdvertInterval(lo)) \in Nat
                      /\ Skew(i, AdvertInterval(lo)) <= AdvertInterval(lo)
    BY <1>1, SkewType
<1>10. \A i \in Inst : 3 * AdvertInterval(lo) <= MasterDown(i, AdvertInterval(lo))
    BY <1>1, <1>9 DEF MasterDown
<1> QED BY <1>1, <1>2, <1>3, <1>7, <1>8, <1>9, <1>10 DEF Longest

\* No timer is longer than what it was set to.
TimersInv(lo) ==
    \A i \in Inst : /\ st[i] = "backup" => timer[i] <= Longest(lo)
                    /\ st[i] = "master" => timer[i] <= AdvertInterval(lo)

\* What a turn of the loop does to its own timer.
LEMMA TimerAfterTurn ==
    ASSUME NEW hi \in Inst, NEW lo \in Inst, Pair(hi, lo), TypeOK, PairInv,
           NEW i \in Inst, Loop(i)
    PROVE  \/ st'[i] = "initialize"
           \/ st'[i] = st[i] /\ timer'[i] = timer[i]
           \/ st'[i] = "backup" /\ timer'[i] = MasterDown(i, AdvertInterval(i))
           \/ st'[i] = "backup" /\ timer'[i] = Skew(i, AdvertInterval(i))
           \/ st'[i] = "master" /\ timer'[i] \in {0, AdvertInterval(i)}
<1>1. mai[i] = AdvertInterval(i)
    BY DEF PairInv
<1>2. CASE StopSeen(i)
    BY <1>2 DEF StopSeen, Ends, TypeOK
<1>3. CASE Resign(i)
    BY <1>1, <1>3 DEF Resign, TypeOK
<1>4. CASE Block(i) \/ RecvIgnored(i) \/ Woken(i)
    BY <1>4 DEF Block, RecvIgnored, Woken
<1>5. CASE RecvResigned(i)
    BY <1>1, <1>5 DEF RecvResigned, TypeOK
<1>6. CASE RecvMaster(i) \/ RecvDemoted(i)
    <2>1. PICK j \in Inst : i # j
        BY DEF Pair
    <2>2. inbox[i] # <<>>
        BY <1>6 DEF RecvMaster, RecvDemoted, Received
    <2>3. Greater(Head(inbox[i]).interval, 1) = AdvertInterval(i)
        BY <2>1, <2>2, HeardFromOther
    <2>4. CASE RecvMaster(i)
        BY <2>3, <2>4 DEF RecvMaster, TypeOK
    <2>5. CASE RecvDemoted(i)
        BY <2>3, <2>5 DEF RecvDemoted, Demote, TypeOK
    <2> QED BY <1>6, <2>4, <2>5
<1>7. CASE RecvPeerResigned(i)
    BY <1>7 DEF RecvPeerResigned, TypeOK
<1>8. CASE Advertise(i) \/ TakeOver(i)
    BY <1>8 DEF Advertise, TakeOver, BecomeMaster, TypeOK
<1>9. CASE NotFit(i)
    BY <1>1, <1>9 DEF NotFit, TypeOK
<1> QED BY <1>2, <1>3, <1>4, <1>5, <1>6, <1>7, <1>8, <1>9 DEF Loop

\* Every step keeps TimersInv.
LEMMA TimersStep ==
    ASSUME NEW hi \in Inst, NEW lo \in Inst, Pair(hi, lo), LossFree, TypeOK, PairInv,
           TimersInv(lo), [Next]_vars
    PROVE  TimersInv(lo)'
<1> SUFFICES ASSUME NEW j \in Inst
             PROVE  /\ st'[j] = "backup" => timer'[j] <= Longest(lo)
                    /\ st'[j] = "master" => timer'[j] <= AdvertInterval(lo)
    BY DEF TimersInv
<1> DEFINE Goal == /\ st'[j] = "backup" => timer'[j] <= Longest(lo)
                   /\ st'[j] = "master" => timer'[j] <= AdvertInterval(lo)
<1>1. /\ st[j] = "backup" => timer[j] <= Longest(lo)
      /\ st[j] = "master" => timer[j] <= AdvertInterval(lo)
    BY DEF TimersInv
<1>2. /\ AdvertInterval(lo) \in Nat /\ Longest(lo) \in Nat /\ AdvertInterval(lo) <= Longest(lo)
      /\ AdvertInterval(j) = AdvertInterval(lo)
      /\ MasterDown(j, AdvertInterval(j)) <= Longest(lo)
      /\ Skew(j, AdvertInterval(j)) \in Nat /\ Skew(j, AdvertInterval(j)) <= Longest(lo)
    <2>1. /\ AdvertInterval(lo) \in Nat /\ Longest(lo) \in Nat
          /\ 3 * AdvertInterval(lo) <= Longest(lo)
          /\ AdvertInterval(j) = AdvertInterval(lo)
          /\ MasterDown(j, AdvertInterval(j)) <= Longest(lo)
          /\ Skew(j, AdvertInterval(j)) \in Nat
          /\ Skew(j, AdvertInterval(j)) <= AdvertInterval(lo)
        BY LongestFacts
    <2> QED BY <2>1
<1>3. ASSUME st'[j] = st[j], timer'[j] = timer[j] PROVE Goal
    BY <1>1, <1>3
<1>4. ASSUME NEW i \in Inst, Start(i) PROVE Goal
    <2>1. CASE i = j
        BY <1>2, <1>4, <2>1 DEF Start, StartState, TypeOK
    <2>2. CASE i # j
        BY <1>3, <1>4, <2>2 DEF Start, TypeOK
    <2> QED BY <2>1, <2>2
<1>5. ASSUME NEW i \in Inst, Loop(i) PROVE Goal
    <2>1. CASE i = j
        BY <1>1, <1>2, <1>5, <2>1, TimerAfterTurn
    <2>2. CASE i # j
        BY <1>3, <1>5, <2>2, OtherUntouched
    <2> QED BY <2>1, <2>2
<1>6. ASSUME NEW h \in Hosts, Reboot(h) PROVE Goal
    BY <1>3, <1>6 DEF Reboot, Dies
<1>7. CASE Tick
    <2>1. st'[j] = st[j] /\ timer'[j] = Down1(timer[j]) /\ timer[j] \in Nat
        BY <1>7 DEF Tick, TypeOK
    <2> QED BY <1>1, <1>2, <2>1 DEF Down1
<1>8. ASSUME UNCHANGED loopVars PROVE Goal
    BY <1>3, <1>8 DEF loopVars
<1> QED BY <1>4, <1>5, <1>6, <1>7, <1>8, LossFreeNext

\* A packet whose sender is no longer Master is one read timeout old at most, and so is
\* a resignation; lo does not return to Master before hi has read its resignation.
PacketsInv(hi, lo) ==
    /\ \A i \in Inst : Resigns(inbox[i]) => calm <= MaxWait
    /\ st[hi] # "master" /\ inbox[lo] # <<>> => calm <= MaxWait
    /\ st[hi] # "master" /\ st[lo] # "master" /\ inbox[hi] # <<>> => calm <= MaxWait
    /\ st[lo] = "master" => ~Resigns(inbox[hi])

\* A Master that gives up was told to, or lost its pool, a read timeout ago at most.
LEMMA GivesUpFresh ==
    ASSUME TypeOK, LossFree, AnsweredInv, RequestInv, NEW i \in Inst,
           Resign(i) \/ (StopSeen(i) /\ st[i] = "master")
    PROVE  calm <= MaxWait
<1>1. Unanswered(i)
    BY DEF Resign, StopSeen, Unanswered
<1> QED BY <1>1, RequestIsFresh DEF LossFree

\* What a turn of i's loop does to the two queues.
LEMMA QueuesAfterTurn ==
    ASSUME NEW hi \in Inst, NEW lo \in Inst, Pair(hi, lo), TypeOK, PairInv,
           NEW i \in Inst, NEW j \in Inst, i # j, Loop(i)
    PROVE  /\ Resigns(inbox'[i]) => Resigns(inbox[i])
           /\ inbox'[i] # <<>> => inbox[i] # <<>>
           /\ \/ inbox'[j] = inbox[j]
              \/ Resign(i) \/ (StopSeen(i) /\ st[i] = "master")
              \/ /\ Advertise(i) /\ inbox[j] = <<>> /\ pc[j] # "off"
                 /\ inbox'[j] # <<>> /\ Heralds(inbox'[j]) /\ ~Resigns(inbox'[j])
           /\ Advertise(i) /\ pc[j] # "off" => Heralds(inbox'[j])
<1>1. inbox[i] \in Seq(Says(j))
    BY DEF PairInv
<1>2. CASE StopSeen(i)
    <2>1. inbox'[i] = <<>>
        BY <1>2, ResignationType DEF StopSeen, TypeOK
    <2>2. st[i] # "master" => inbox'[j] = inbox[j]
        BY <1>2 DEF StopSeen, TypeOK
    <2>3. ~Advertise(i)
        BY <1>2 DEF StopSeen, Advertise, TimedOut
    <2> QED BY <1>2, <2>1, <2>2, <2>3, QueueFacts
<1>3. CASE Resign(i)
    <2>1. inbox'[i] = inbox[i]
        BY <1>3, DeliveredToOther DEF Resign
    <2>2. ~Advertise(i)
        BY <1>3 DEF Resign, Advertise, TimedOut
    <2> QED BY <1>3, <2>1, <2>2
<1>4. CASE Block(i) \/ TakeOver(i) \/ NotFit(i) \/ Woken(i)
    <2>1. UNCHANGED inbox
        BY <1>4 DEF Block, TakeOver, BecomeMaster, NotFit, Woken
    <2>2. ~Advertise(i) \/ Woken(i)
        BY <1>4 DEF Block, TakeOver, BecomeMaster, NotFit, Advertise, TimedOut
    <2>3. ~(Advertise(i) /\ Woken(i))
        BY DEF Advertise, Woken, TypeOK
    <2> QED BY <2>1, <2>2, <2>3
<1>5. CASE RecvIgnored(i) \/ RecvResigned(i) \/ RecvMaster(i) \/ RecvPeerResigned(i)
           \/ RecvDemoted(i)
    <2>1. Received(i)
        BY <1>5 DEF RecvIgnored, RecvResigned, RecvMaster, RecvPeerResigned, RecvDemoted
    <2>2. inbox[i] # <<>> /\ inbox'[i] = Tail(inbox[i]) /\ inbox'[j] = inbox[j]
        BY <2>1 DEF Received, TypeOK
    <2>3. ~Advertise(i)
        BY <2>2 DEF Advertise, TimedOut
    <2> QED BY <1>1, <2>2, <2>3, QueueFacts
<1>6. CASE Advertise(i)
    <2>1. inbox' = Delivered(i, Priority[i]) /\ pc[i] = "recv" /\ wait[i] = 0
        BY <1>6 DEF Advertise, TimedOut
    <2>2. inbox[j] = <<>>
        BY <2>1 DEF PairInv
    <2>3. inbox'[i] = inbox[i]
        BY <2>1, DeliveredToOther
    <2>4. CASE pc[j] = "off"
        BY <2>1, <2>3, <2>4, DeliveredToRunning
    <2>5. CASE pc[j] # "off"
        <3>1. inbox'[j] = Append(<<>>, Advert(i, Priority[i]))
            BY <2>1, <2>2, <2>5, DeliveredToOther
        <3>2. Advert(i, Priority[i]).prio # 0
            <4>1. Priority[i] # 0
                OBVIOUS
            <4> QED BY <4>1 DEF Advert
        <3>3. Advert(i, Priority[i]) \in Says(i) /\ <<>> \in Seq(Says(i))
            BY DEF Says
        <3>4. Heralds(inbox'[j]) /\ ~Resigns(inbox'[j])
            BY <3>1, <3>2, <3>3, QueueFacts
        <3>5. inbox'[j] # <<>>
            BY <3>4, QueueFacts
        <3> QED BY <1>6, <2>2, <2>3, <2>5, <3>4, <3>5
    <2> QED BY <2>4, <2>5
<1> QED BY <1>2, <1>3, <1>4, <1>5, <1>6 DEF Loop

\* When a turn of the loop changes the state.
LEMMA StateAfterTurn ==
    ASSUME TypeOK, NEW i \in Inst, Loop(i)
    PROVE  \/ st'[i] = st[i]
           \/ StopSeen(i) /\ st'[i] = "initialize"
           \/ Resign(i) /\ st'[i] = "backup"
           \/ RecvDemoted(i) /\ st'[i] = "backup" /\ inbox[i] # <<>>
           \/ TakeOver(i) /\ st'[i] = "master" /\ pc[i] = "recv" /\ wait[i] = 0
              /\ st[i] = "backup"
<1>1. StopSeen(i) => st'[i] = "initialize"
    BY DEF StopSeen, Ends, TypeOK
<1>2. Resign(i) => st'[i] = "backup"
    BY DEF Resign, TypeOK
<1>3. RecvDemoted(i) => st'[i] = "backup" /\ inbox[i] # <<>>
    BY DEF RecvDemoted, Received, Demote, TypeOK
<1>4. TakeOver(i) => st'[i] = "master" /\ pc[i] = "recv" /\ wait[i] = 0 /\ st[i] = "backup"
    BY DEF TakeOver, BecomeMaster, TimedOut, TypeOK
<1>5. Block(i) \/ RecvIgnored(i) \/ RecvResigned(i) \/ RecvMaster(i) \/ RecvPeerResigned(i)
          \/ Advertise(i) \/ NotFit(i) \/ Woken(i) => st'[i] = st[i]
    BY DEF Block, RecvIgnored, RecvResigned, RecvMaster, RecvPeerResigned, Advertise, NotFit, Woken
<1> QED BY <1>1, <1>2, <1>3, <1>4, <1>5 DEF Loop

\* Every step keeps PacketsInv.
LEMMA PacketsStep ==
    ASSUME NEW hi \in Inst, NEW lo \in Inst, Pair(hi, lo), LossFree, TypeOK, RunInv,
           AnsweredInv, RequestInv, PairInv, PacketsInv(hi, lo), [Next]_vars
    PROVE  PacketsInv(hi, lo)'
<1>1. hi # lo /\ Inst = {hi, lo}
    BY DEF Pair
<1>2. /\ Resigns(inbox[hi]) \/ Resigns(inbox[lo]) => calm <= MaxWait
      /\ st[hi] # "master" /\ inbox[lo] # <<>> => calm <= MaxWait
      /\ st[hi] # "master" /\ st[lo] # "master" /\ inbox[hi] # <<>> => calm <= MaxWait
      /\ st[lo] = "master" => ~Resigns(inbox[hi])
    BY DEF PacketsInv
<1>3. ASSUME calm' <= MaxWait, st'[lo] = "master" => ~Resigns(inbox'[hi])
      PROVE  PacketsInv(hi, lo)'
    BY <1>3 DEF PacketsInv
<1>4. ASSUME /\ Resigns(inbox'[hi]) \/ Resigns(inbox'[lo]) => calm' <= MaxWait
             /\ st'[hi] # "master" /\ inbox'[lo] # <<>> => calm' <= MaxWait
             /\ st'[hi] # "master" /\ st'[lo] # "master" /\ inbox'[hi] # <<>> => calm' <= MaxWait
             /\ st'[lo] = "master" => ~Resigns(inbox'[hi])
      PROVE  PacketsInv(hi, lo)'
    BY <1>1, <1>4 DEF PacketsInv
<1>5. ASSUME NEW i \in Inst, Start(i) PROVE PacketsInv(hi, lo)'
    <2>1. calm' = 0 /\ UNCHANGED inbox
        BY <1>5 DEF Start
    <2>2. st'[lo] = "master" => st[lo] = "master"
        BY <1>1, <1>5 DEF Start, StartState, Pair, TypeOK
    <2>3. 0 <= MaxWait
        OBVIOUS
    <2> QED BY <1>2, <1>3, <2>1, <2>2, <2>3
<1>6. ASSUME NEW h \in Hosts, Reboot(h) PROVE PacketsInv(hi, lo)'
    <2>1. calm' = 0 /\ 0 <= MaxWait
        BY <1>6 DEF Reboot, Fault
    <2>2. /\ st'[lo] = "master" => st[lo] = "master"
          /\ inbox'[hi] = <<>> \/ inbox'[hi] = inbox[hi]
        BY <1>6 DEF Reboot, Dies
    <2> QED BY <1>2, <1>3, <2>1, <2>2, QueueFacts
<1>7. CASE Tick
    <2>1. \A i \in Inst : Idle(i)
        BY <1>7 DEF Tick, LossFree
    <2>2. inbox[lo] = <<>> /\ inbox[hi] = <<>> /\ UNCHANGED inbox
        BY <1>7, <2>1 DEF Idle, RunInv, Tick
    <2> QED BY <1>4, <2>2, QueueFacts
<1>8. CASE Loop(hi)
    <2>1. st'[lo] = st[lo] /\ UNCHANGED calm
        BY <1>1, <1>8, OtherUntouched
    <2>2. /\ Resigns(inbox'[hi]) => Resigns(inbox[hi])
          /\ inbox'[hi] # <<>> => inbox[hi] # <<>>
          /\ \/ inbox'[lo] = inbox[lo]
             \/ Resign(hi) \/ (StopSeen(hi) /\ st[hi] = "master")
             \/ Advertise(hi) /\ ~Resigns(inbox'[lo])
        BY <1>1, <1>8, QueuesAfterTurn
    <2>3. CASE Resign(hi) \/ (StopSeen(hi) /\ st[hi] = "master")
        <3>1. calm <= MaxWait
            BY <2>3, GivesUpFresh
        <3> QED BY <1>2, <1>3, <2>1, <2>2, <3>1
    <2>4. CASE ~(Resign(hi) \/ (StopSeen(hi) /\ st[hi] = "master"))
        <3>1. st'[hi] # "master" => st[hi] # "master"
            BY <1>8, <2>4, StateAfterTurn, HiKeeps
        <3>2. Advertise(hi) => st'[hi] = "master"
            BY DEF Advertise
        <3> QED BY <1>2, <1>4, <2>1, <2>2, <2>4, <3>1, <3>2
    <2> QED BY <2>3, <2>4
<1>9. CASE Loop(lo)
    <2>1. st'[hi] = st[hi] /\ UNCHANGED calm
        BY <1>1, <1>9, OtherUntouched
    <2>2. /\ Resigns(inbox'[lo]) => Resigns(inbox[lo])
          /\ inbox'[lo] # <<>> => inbox[lo] # <<>>
          /\ \/ inbox'[hi] = inbox[hi]
             \/ Resign(lo) \/ (StopSeen(lo) /\ st[lo] = "master")
             \/ Advertise(lo) /\ ~Resigns(inbox'[hi])
        BY <1>1, <1>9, QueuesAfterTurn
    <2>3. CASE Resign(lo) \/ (StopSeen(lo) /\ st[lo] = "master")
        <3>1. calm <= MaxWait
            BY <2>3, GivesUpFresh
        <3>2. st'[lo] # "master"
            BY <2>3 DEF Resign, StopSeen, Ends, TypeOK
        <3> QED BY <1>3, <2>1, <3>1, <3>2
    <2>4. CASE ~(Resign(lo) \/ (StopSeen(lo) /\ st[lo] = "master"))
        <3>1. st'[lo] # "master" => st[lo] # "master" \/ inbox[lo] # <<>>
            BY <1>9, <2>4, StateAfterTurn
        <3>2. Advertise(lo) => st'[lo] = "master"
            BY DEF Advertise
        <3>3. st'[lo] = "master" => st[lo] = "master" \/ inbox[hi] = <<>>
            <4>1. st'[lo] = "master" => st[lo] = "master" \/ (pc[lo] = "recv" /\ wait[lo] = 0)
                BY <1>9, StateAfterTurn
            <4> QED BY <1>1, <4>1 DEF PairInv
        <3>4. st'[lo] = "master" => ~Resigns(inbox'[hi])
            BY <1>2, <2>2, <2>4, <3>3, QueueFacts
        <3> QED BY <1>2, <1>4, <2>1, <2>2, <2>4, <3>1, <3>2, <3>4
    <2> QED BY <2>3, <2>4
<1>10. CASE UNCHANGED <<loopVars, inbox, held, cut>> /\ (calm' = 0 \/ UNCHANGED calm)
    <2>1. UNCHANGED <<st, inbox>> /\ 0 <= MaxWait
        BY <1>10 DEF loopVars
    <2> QED BY <1>2, <1>3, <1>4, <1>10, <2>1
<1> QED BY <1>1, <1>5, <1>6, <1>7, <1>8, <1>9, <1>10, LossFreeNext

-----------------------------------------------------------------------------
(* The election of two: who is Master, and by when. *)

\* A read timeout for a request to be answered, and the longest timer.
Patience(lo) == MaxWait + Longest(lo)

\* A Backup that nobody holds back becomes Master when its timer and one read are over.
Waits(i, lo) ==
    /\ timer[i] > 0 => calm + timer[i] <= Patience(lo)
    /\ timer[i] = 0 => calm + Left(i) <= Patience(lo) + MinWait

\* lo's advertisement has restarted the read hi's timer waits for, once.
PutOff(hi, lo) ==
    /\ timer[hi] = 0 /\ calm + Left(hi) <= Patience(lo) + 2 * MinWait
    /\ st[lo] = "master" /\ timer[lo] > Left(hi)

\* hi does not preempt lo.
Accepts(hi, lo) == ~Preempt[hi] \/ Priority[hi] = Priority[lo]

\* A Backup b that follows the Master m does not come to the end of its timer, except
\* within y of the last event: there is an advertisement on the way to it, or m will
\* have sent the next one in time.
Follow(m, b, y) ==
    st[m] = "master" /\ st[b] = "backup" =>
        \/ Heralds(inbox[b])
        \/ timer[b] > timer[m] + AdvertInterval(m)
        \/ timer[m] = 0 /\ timer[b] > Left(m)
        \/ timer[m] = 0 /\ calm + Left(m) <= y

\* lo, without a Master, and hi, without one it accepts, are about to take over.
LoWaits(hi, lo) ==
    st[lo] = "backup" /\ healthy[HostOf[lo]] /\ st[hi] # "master" => Waits(lo, lo)
HiWaits(hi, lo) ==
    st[hi] = "backup" /\ healthy[HostOf[hi]] /\ (st[lo] # "master" \/ ~Accepts(hi, lo)) =>
        Waits(hi, lo) \/ PutOff(hi, lo)

\* Each follows the other as far as it accepts it.
LoFollows(hi, lo) == Follow(hi, lo, Patience(lo) + 3 * MinWait)
HiFollows(hi, lo) == Accepts(hi, lo) => Follow(lo, hi, Patience(lo) + 2 * MinWait)

\* Two Masters are one as soon as hi's advertisement is read.
OneLeft(hi, lo) ==
    st[hi] = "master" /\ st[lo] = "master" =>
        /\ calm <= Patience(lo) + 4 * MinWait
        /\ \/ Heralds(inbox[lo])
           \/ calm + Left(hi) <= Patience(lo) + 3 * MinWait
           \/ calm + Left(hi) <= Patience(lo) + 4 * MinWait /\ timer[lo] > Left(hi)

ElectionInv(hi, lo) ==
    LoWaits(hi, lo) /\ HiWaits(hi, lo) /\ LoFollows(hi, lo) /\ HiFollows(hi, lo) /\ OneLeft(hi, lo)

\* What is known of the two besides.
BaseInv(hi, lo) ==
    /\ TypeOK /\ RunInv /\ AnsweredInv /\ RequestInv /\ PairInv
    /\ TimersInv(lo) /\ PacketsInv(hi, lo) /\ OverlapInv(hi, lo)

\* Patience is a number.
LEMMA PatienceType ==
    ASSUME NEW hi \in Inst, NEW lo \in Inst, Pair(hi, lo)
    PROVE  Patience(lo) \in Nat /\ MaxWait + Longest(lo) = Patience(lo) /\ MaxWait <= Patience(lo)
<1>1. Longest(lo) \in Nat
    BY LongestFacts
<1> QED BY <1>1 DEF Patience

\* Soon after an event every Backup's timer ends in time.
LEMMA WaitsFresh ==
    ASSUME NEW hi \in Inst, NEW lo \in Inst, Pair(hi, lo), NEW i \in Inst,
           TypeOK', RunInv', TimersInv(lo)', st'[i] = "backup", calm' <= MaxWait
    PROVE  Waits(i, lo)'
<1>1. timer'[i] \in Nat /\ calm' \in Nat /\ Longest(lo) \in Nat
    BY LongestFacts DEF TypeOK
<1>2. timer'[i] <= Longest(lo)
    BY DEF TimersInv
<1>3. timer'[i] = 0 => Left(i)' \in Nat /\ Left(i)' <= MinWait
    BY DEF Left, TypeOK, RunInv, Greater
<1> QED BY <1>1, <1>2, <1>3 DEF Waits, Patience

\* Nothing the timer or the read depends on has changed.
LEMMA WaitsSame ==
    ASSUME NEW i \in Inst, NEW lo, Waits(i, lo), pc'[i] = pc[i], timer'[i] = timer[i],
           wait'[i] = wait[i], inbox'[i] = inbox[i], UNCHANGED calm
    PROVE  Waits(i, lo)'
<1>1. Left(i)' = Left(i)
    BY DEF Left
<1> QED BY <1>1 DEF Waits, Patience, Longest

\* Time passes: what is left gets less.
LEMMA IdleTick ==
    ASSUME TypeOK, RunInv, LossFree, Tick, NEW i \in Inst, pc[i] # "off"
    PROVE  /\ inbox[i] = <<>> /\ inbox'[i] = <<>> /\ Left(i) \in Nat /\ Left(i) > 0
           /\ Left(i)' = Left(i) - 1
           /\ timer'[i] = Down1(timer[i]) /\ timer[i] \in Nat /\ st'[i] = st[i]
           /\ calm \in Nat /\ calm' \in Nat /\ calm' <= calm + 1
<1>1. Idle(i)
    BY DEF Tick, LossFree
<1>2. pc[i] = "recv" /\ inbox[i] = <<>> /\ wait[i] > 0 /\ wait[i] \in Nat
    BY <1>1 DEF Idle, TypeOK
<1>3. UNCHANGED <<pc, st, inbox>> /\ wait'[i] = Down1(wait[i]) /\ timer'[i] = Down1(timer[i])
    BY DEF Tick
<1>4. Left(i) = wait[i] /\ Left(i)' = wait[i] - 1
    BY <1>2, <1>3 DEF Left, Down1
<1>5. calm \in Nat /\ timer[i] \in Nat
    BY DEF TypeOK
<1>6. calm' = Lesser(calm + 1, Settle)
    BY DEF Tick
<1>7. calm' \in Nat /\ calm' <= calm + 1
    BY <1>5, <1>6 DEF Lesser
<1> QED BY <1>2, <1>3, <1>4, <1>5, <1>7

\* Time passes for a Backup nobody holds back.
LEMMA WaitsTick ==
    ASSUME NEW hi \in Inst, NEW lo \in Inst, Pair(hi, lo), NEW i \in Inst,
           TypeOK, TypeOK', RunInv, RunInv', LossFree, Tick, st[i] = "backup", Waits(i, lo)
    PROVE  Waits(i, lo)'
<1>1. /\ Left(i) \in Nat /\ Left(i) > 0 /\ Left(i)' = Left(i) - 1
      /\ timer'[i] = Down1(timer[i]) /\ timer[i] \in Nat
      /\ calm \in Nat /\ calm' \in Nat /\ calm' <= calm + 1
    BY IdleTick DEF RunInv
<1>2. Patience(lo) \in Nat /\ Patience(lo)' = Patience(lo)
    BY PatienceType DEF Patience, Longest
<1>3. timer'[i] = 0 => Left(i)' <= MinWait
    BY DEF Left, TypeOK, RunInv, Greater
<1>4. CASE timer[i] = 0
    <2>1. timer'[i] = 0 /\ calm + Left(i) <= Patience(lo) + MinWait
        BY <1>1, <1>4 DEF Down1, Waits
    <2>2. calm' + Left(i)' <= Patience(lo) + MinWait
        BY <1>1, <1>2, <2>1
    <2> QED BY <1>2, <2>1, <2>2 DEF Waits
<1>5. CASE timer[i] > 0
    <2>1. timer'[i] = timer[i] - 1 /\ calm + timer[i] <= Patience(lo)
        BY <1>1, <1>5 DEF Down1, Waits
    <2>2. calm' + timer'[i] <= Patience(lo) /\ timer'[i] \in Nat
        BY <1>1, <1>2, <1>5, <2>1
    <2>3. timer'[i] = 0 => calm' + Left(i)' <= Patience(lo) + MinWait
        BY <1>1, <1>2, <1>3, <2>2
    <2> QED BY <1>2, <2>2, <2>3 DEF Waits
<1> QED BY <1>1, <1>4, <1>5

\* A turn without a packet: to read, or to look at the stop flag and the health.
LEMMA WaitsTurn ==
    ASSUME NEW i \in Inst, NEW lo, TypeOK, Loop(i), st[i] = "backup", st'[i] = "backup",
           healthy[HostOf[i]], inbox[i] = <<>>, Waits(i, lo)
    PROVE  Waits(i, lo)'
<1>1. Block(i) \/ Woken(i)
    <2>1. ~StopSeen(i)
        BY DEF StopSeen, Ends, TypeOK
    <2>2. ~Resign(i) /\ ~Advertise(i) /\ ~NotFit(i)
        BY DEF Resign, Advertise, NotFit
    <2>3. ~TakeOver(i)
        BY DEF TakeOver, BecomeMaster, TypeOK
    <2>4. ~(RecvIgnored(i) \/ RecvResigned(i) \/ RecvMaster(i) \/ RecvPeerResigned(i)
            \/ RecvDemoted(i))
        BY DEF RecvIgnored, RecvResigned, RecvMaster, RecvPeerResigned, RecvDemoted, Received
    <2> QED BY <2>1, <2>2, <2>3, <2>4 DEF Loop
<1>2. UNCHANGED <<timer, inbox, calm>>
    BY <1>1 DEF Block, Woken, TimedOut, ghosts
<1>3. CASE Block(i)
    <2>1. pc[i] = "top" /\ pc'[i] = "recv" /\ wait'[i] = ReadTimeout(timer[i])
        BY <1>3 DEF Block, TypeOK
    <2>2. timer[i] = 0 => wait'[i] = MinWait
        BY <2>1, ReadTimeoutBounds
    <2>3. timer[i] = 0 => Left(i)' = Left(i)
        BY <1>2, <2>1, <2>2 DEF Left
    <2> QED BY <1>2, <2>3 DEF Waits, Patience, Longest
<1>4. CASE Woken(i)
    <2>1. timer[i] > 0 /\ timer[i] \in Nat
        BY <1>4 DEF Woken, TypeOK
    <2> QED BY <1>2, <2>1 DEF Waits, Patience, Longest
<1> QED BY <1>1, <1>3, <1>4

\* Every step keeps LoWaits.
LEMMA LoWaitsStep ==
    ASSUME NEW hi \in Inst, NEW lo \in Inst, Pair(hi, lo), LossFree,
           BaseInv(hi, lo), BaseInv(hi, lo)', LoWaits(hi, lo), [Next]_vars
    PROVE  LoWaits(hi, lo)'
<1> SUFFICES ASSUME st'[lo] = "backup", healthy'[HostOf[lo]], st'[hi] # "master"
             PROVE  Waits(lo, lo)'
    BY DEF LoWaits
<1>1. hi # lo /\ Inst = {hi, lo} /\ 0 <= MaxWait
    BY DEF Pair
<1>2. /\ TypeOK /\ RunInv /\ AnsweredInv /\ RequestInv /\ PairInv /\ PacketsInv(hi, lo)
      /\ TypeOK' /\ RunInv' /\ TimersInv(lo)'
    BY DEF BaseInv
<1>3. calm' <= MaxWait => Waits(lo, lo)'
    BY <1>2, WaitsFresh
<1>4. ASSUME NEW i \in Inst, Start(i) PROVE calm' = 0
    BY <1>4 DEF Start
<1>5. ASSUME NEW h \in Hosts, Reboot(h) PROVE calm' = 0
    BY <1>5 DEF Reboot, Fault
<1>6. CASE Tick
    <2>1. UNCHANGED <<st, healthy>>
        BY <1>6 DEF Tick, envVars
    <2>2. Waits(lo, lo) /\ st[lo] = "backup"
        BY <2>1 DEF LoWaits
    <2> QED BY <1>2, <1>6, <2>2, WaitsTick
<1>7. CASE Loop(lo)
    <2>1. st'[hi] = st[hi] /\ UNCHANGED <<healthy, calm>>
        BY <1>1, <1>2, <1>7, OtherUntouched
    <2>2. inbox[lo] # <<>> => calm <= MaxWait
        BY <1>2, <2>1 DEF PacketsInv
    <2>3. Resign(lo) => calm <= MaxWait
        BY <1>2, GivesUpFresh
    <2>4. st[lo] = "backup" \/ Resign(lo) \/ inbox[lo] # <<>>
        BY <1>2, <1>7, StateAfterTurn
    <2>5. CASE st[lo] = "backup" /\ inbox[lo] = <<>>
        <3>1. Waits(lo, lo)
            BY <2>1, <2>5 DEF LoWaits
        <3> QED BY <1>2, <1>7, <2>1, <2>5, <3>1, WaitsTurn
    <2> QED BY <1>3, <2>1, <2>2, <2>3, <2>4, <2>5
<1>8. CASE Loop(hi)
    <2>1. /\ pc'[lo] = pc[lo] /\ st'[lo] = st[lo] /\ timer'[lo] = timer[lo]
          /\ wait'[lo] = wait[lo] /\ UNCHANGED <<healthy, calm>>
        BY <1>1, <1>2, <1>8, OtherUntouched
    <2>2. CASE st[hi] = "master"
        <3>1. Resign(hi) \/ (StopSeen(hi) /\ st[hi] = "master")
            BY <1>2, <1>8, <2>2, StateAfterTurn, HiKeeps
        <3> QED BY <1>2, <1>3, <2>1, <3>1, GivesUpFresh
    <2>3. CASE st[hi] # "master"
        <3>1. ~Resign(hi) /\ ~Advertise(hi)
            BY <2>3 DEF Resign, Advertise
        <3>2. inbox'[lo] = inbox[lo]
            BY <1>1, <1>2, <1>8, <2>3, <3>1, QueuesAfterTurn
        <3>3. Waits(lo, lo)
            BY <2>1, <2>3 DEF LoWaits
        <3> QED BY <2>1, <3>2, <3>3, WaitsSame
    <2> QED BY <2>2, <2>3
<1>9. CASE UNCHANGED <<loopVars, inbox, held, cut>> /\ UNCHANGED <<healthy, calm, dual>>
    <2>1. UNCHANGED <<pc, st, timer, wait, inbox, healthy, calm>>
        BY <1>9 DEF loopVars
    <2>2. Waits(lo, lo)
        BY <2>1 DEF LoWaits
    <2> QED BY <2>1, <2>2, WaitsSame
<1> QED BY <1>1, <1>3, <1>4, <1>5, <1>6, <1>7, <1>8, <1>9, LossFreeNext

\* If hi does not accept lo, its priority is higher.
LEMMA Outranks ==
    ASSUME NEW hi \in Inst, NEW lo \in Inst, Pair(hi, lo)
    PROVE  ~Accepts(hi, lo) => ~(Priority[lo] >= Priority[hi])
<1>1. Priority[hi] \in Nat /\ Priority[lo] \in Nat
    OBVIOUS
<1>2. Priority[lo] < Priority[hi] => ~(Priority[lo] >= Priority[hi])
    BY <1>1
<1> QED BY <1>2 DEF Pair, Accepts

\* If hi accepts lo, it follows lo's advertisements.
LEMMA AcceptedFollows ==
    ASSUME NEW hi \in Inst, NEW lo \in Inst, Accepts(hi, lo)
    PROVE  \A msg : msg.prio = Priority[lo] => Follows(hi, msg)
<1>1. Priority[hi] >= Priority[hi]
    OBVIOUS
<1> QED BY <1>1, Zenon DEF Accepts, Follows

\* A turn of hi, a Backup that does not accept lo: a packet of lo's only ends the read.
LEMMA HiIgnores ==
    ASSUME NEW hi \in Inst, NEW lo \in Inst, Pair(hi, lo), BaseInv(hi, lo), Loop(hi),
           st[hi] = "backup", st[lo] = "master", ~Accepts(hi, lo), inbox[hi] # <<>>,
           ~(Block(hi) \/ StopSeen(hi))
    PROVE  RecvIgnored(hi) /\ Left(hi)' = Left(hi)
<1>1. hi # lo /\ TypeOK /\ PairInv /\ ~Resigns(inbox[hi]) /\ inbox[hi] \in Seq(Says(lo))
    BY DEF BaseInv, Pair, PacketsInv, PairInv
<1>2. Head(inbox[hi]).prio # 0
    BY <1>1, QueueFacts
<1>3. Head(inbox[hi]).prio = Priority[lo]
    BY <1>1, <1>2, HeardFromOther
<1>4. ~(Priority[lo] >= Priority[hi])
    BY Outranks
<1>5. Preempt[hi]
    BY DEF Accepts
<1>6. ~Follows(hi, Head(inbox[hi]))
    BY <1>3, <1>4, <1>5, Zenon DEF Follows
<1>7. ~RecvMaster(hi) /\ ~RecvResigned(hi)
    BY <1>2, <1>6 DEF RecvMaster, RecvResigned
<1>8. ~RecvPeerResigned(hi) /\ ~RecvDemoted(hi) /\ ~Resign(hi)
    BY DEF RecvPeerResigned, RecvDemoted, Demote, Resign
<1>9. ~(Advertise(hi) \/ TakeOver(hi) \/ NotFit(hi) \/ Woken(hi))
    BY DEF Advertise, TakeOver, BecomeMaster, NotFit, Woken, TimedOut
<1>10. RecvIgnored(hi)
    BY <1>7, <1>8, <1>9 DEF Loop
<1>11. pc'[hi] = "top"
    BY <1>1, <1>10 DEF RecvIgnored, Received, TypeOK
<1> QED BY <1>10, <1>11 DEF Left

\* Every step keeps HiWaits.
LEMMA HiWaitsStep ==
    ASSUME NEW hi \in Inst, NEW lo \in Inst, Pair(hi, lo), LossFree,
           BaseInv(hi, lo), BaseInv(hi, lo)', HiWaits(hi, lo), [Next]_vars
    PROVE  HiWaits(hi, lo)'
<1> SUFFICES ASSUME st'[hi] = "backup", healthy'[HostOf[hi]],
                    st'[lo] # "master" \/ ~Accepts(hi, lo)
             PROVE  Waits(hi, lo)' \/ PutOff(hi, lo)'
    BY DEF HiWaits, Accepts
<1>1. hi # lo /\ Inst = {hi, lo} /\ 0 <= MaxWait
    BY DEF Pair
<1>2. /\ TypeOK /\ RunInv /\ AnsweredInv /\ RequestInv /\ PairInv /\ PacketsInv(hi, lo)
      /\ TypeOK' /\ RunInv' /\ TimersInv(lo)'
    BY DEF BaseInv
<1>3. calm' <= MaxWait => Waits(hi, lo)'
    BY <1>2, WaitsFresh
<1>4. ASSUME NEW i \in Inst, Start(i) PROVE calm' = 0
    BY <1>4 DEF Start
<1>5. ASSUME NEW h \in Hosts, Reboot(h) PROVE calm' = 0
    BY <1>5 DEF Reboot, Fault
<1>6. Patience(lo) \in Nat /\ Patience(lo)' = Patience(lo)
    BY PatienceType DEF Patience, Longest
<1>7. CASE Tick
    <2>1. UNCHANGED <<st, healthy>>
        BY <1>7 DEF Tick, envVars
    <2>2. Waits(hi, lo) \/ PutOff(hi, lo)
        BY <2>1 DEF HiWaits
    <2>3. CASE Waits(hi, lo)
        BY <1>2, <1>7, <2>1, <2>3, WaitsTick
    <2>4. CASE PutOff(hi, lo)
        <3>1. /\ Left(hi) \in Nat /\ Left(hi) > 0 /\ Left(hi)' = Left(hi) - 1
              /\ timer'[hi] = Down1(timer[hi])
              /\ calm \in Nat /\ calm' \in Nat /\ calm' <= calm + 1
            BY <1>2, <1>7, <2>1, IdleTick DEF RunInv
        <3>2. /\ timer[hi] = 0 /\ calm + Left(hi) <= Patience(lo) + 2 * MinWait
              /\ st[lo] = "master" /\ timer[lo] > Left(hi)
            BY <2>4 DEF PutOff
        <3>3. timer'[lo] = Down1(timer[lo]) /\ timer[lo] \in Nat
            BY <1>2, <1>7 DEF Tick, TypeOK
        <3>4. /\ timer'[hi] = 0 /\ calm' + Left(hi)' <= Patience(lo) + 2 * MinWait
              /\ timer'[lo] > Left(hi)'
            BY <1>6, <3>1, <3>2, <3>3 DEF Down1
        <3> QED BY <1>6, <2>1, <3>2, <3>4 DEF PutOff
    <2> QED BY <2>2, <2>3, <2>4
<1>8. CASE Loop(hi)
    <2>1. st'[lo] = st[lo] /\ timer'[lo] = timer[lo] /\ UNCHANGED <<healthy, calm>>
        BY <1>1, <1>2, <1>8, OtherUntouched
    <2>2. Resign(hi) => calm <= MaxWait
        BY <1>2, GivesUpFresh
    <2>3. st[hi] = "backup" \/ Resign(hi)
        BY <1>2, <1>8, StateAfterTurn, HiKeeps
    <2>4. CASE st[hi] = "backup"
        <3>1. Waits(hi, lo) \/ PutOff(hi, lo)
            BY <2>1, <2>4 DEF HiWaits
        <3>2. CASE st[lo] # "master"
            <4>1. Waits(hi, lo)
                BY <3>1, <3>2 DEF PutOff
            <4>2. inbox[hi] # <<>> => calm <= MaxWait
                BY <1>2, <2>4, <3>2 DEF PacketsInv
            <4>3. inbox[hi] = <<>> => Waits(hi, lo)'
                BY <1>2, <1>8, <2>1, <2>4, <4>1, WaitsTurn
            <4> QED BY <1>3, <2>1, <4>2, <4>3
        <3>3. CASE st[lo] = "master"
            <4>1. CASE Block(hi)
                <5>1. /\ pc[hi] = "top" /\ pc'[hi] = "recv" /\ timer'[hi] = timer[hi]
                      /\ wait'[hi] = ReadTimeout(timer[hi])
                    BY <1>2, <4>1 DEF Block, TypeOK
                <5>2. timer[hi] = 0 => wait'[hi] = MinWait
                    BY <5>1, ReadTimeoutBounds
                <5>3. timer[hi] = 0 => Left(hi)' = Left(hi)
                    BY <5>1, <5>2 DEF Left
                <5> QED BY <1>6, <2>1, <3>1, <5>1, <5>3 DEF Waits, PutOff
            <4>2. CASE ~Block(hi) /\ inbox[hi] # <<>>
                <5>1. ~StopSeen(hi)
                    BY <1>2 DEF StopSeen, Ends, TypeOK
                <5>2. RecvIgnored(hi) /\ Left(hi)' = Left(hi)
                    BY <1>8, <2>1, <2>4, <3>3, <4>2, <5>1, HiIgnores
                <5>3. timer'[hi] = timer[hi]
                    BY <5>2 DEF RecvIgnored
                <5> QED BY <1>6, <2>1, <3>1, <5>2, <5>3 DEF Waits, PutOff
            <4>3. CASE ~Block(hi) /\ inbox[hi] = <<>>
                <5>1. Woken(hi)
                    <6>1. ~StopSeen(hi) /\ ~TakeOver(hi)
                        BY <1>2 DEF StopSeen, Ends, TakeOver, BecomeMaster, TypeOK
                    <6>2. ~Resign(hi) /\ ~Advertise(hi) /\ ~NotFit(hi)
                        BY <2>1, <2>4 DEF Resign, Advertise, NotFit
                    <6>3. ~(RecvIgnored(hi) \/ RecvResigned(hi) \/ RecvMaster(hi)
                            \/ RecvPeerResigned(hi) \/ RecvDemoted(hi))
                        BY <4>3 DEF RecvIgnored, RecvResigned, RecvMaster, RecvPeerResigned,
                                    RecvDemoted, Received
                    <6> QED BY <1>8, <4>3, <6>1, <6>2, <6>3 DEF Loop
                <5>2. timer[hi] > 0 /\ timer[hi] \in Nat /\ UNCHANGED timer
                    BY <1>2, <5>1 DEF Woken, TypeOK
                <5> QED BY <1>6, <2>1, <3>1, <5>2 DEF Waits, PutOff
            <4> QED BY <4>1, <4>2, <4>3
        <3> QED BY <3>2, <3>3
    <2> QED BY <1>3, <2>1, <2>2, <2>3, <2>4
<1>9. CASE Loop(lo)
    <2>1. /\ pc'[hi] = pc[hi] /\ st'[hi] = st[hi] /\ timer'[hi] = timer[hi]
          /\ wait'[hi] = wait[hi] /\ UNCHANGED <<healthy, calm>>
        BY <1>1, <1>2, <1>9, OtherUntouched
    <2>2. CASE inbox[lo] # <<>> \/ Resign(lo) \/ (StopSeen(lo) /\ st[lo] = "master")
        <3>1. calm <= MaxWait
            BY <1>2, <2>1, <2>2, GivesUpFresh DEF PacketsInv
        <3> QED BY <1>3, <2>1, <3>1
    <2>3. CASE ~(inbox[lo] # <<>> \/ Resign(lo) \/ (StopSeen(lo) /\ st[lo] = "master"))
        <3>1. st'[lo] # "master" => st[lo] # "master"
            BY <1>2, <1>9, <2>3, StateAfterTurn
        <3>2. Waits(hi, lo) \/ PutOff(hi, lo)
            BY <2>1, <3>1 DEF HiWaits
        <3>3. CASE Advertise(lo)
            <4>1. /\ st[lo] = "master" /\ timer[lo] = 0 /\ st'[lo] = "master"
                  /\ timer'[lo] = AdvertInterval(lo) /\ pc[lo] = "recv" /\ wait[lo] = 0
                  /\ inbox' = Delivered(lo, Priority[lo])
                BY <1>2, <3>3 DEF Advertise, TimedOut, TypeOK
            <4>2. Left(hi) \in Nat /\ (timer[hi] = 0 => Left(hi) <= MinWait)
                BY <1>2, LeftBound
            <4>3. Waits(hi, lo)
                BY <3>2, <4>1, <4>2 DEF PutOff
            <4>4. inbox[hi] = <<>> /\ pc[hi] # "off"
                BY <1>1, <1>2, <2>1, <4>1 DEF PairInv, RunInv
            <4>5. inbox'[hi] = Append(<<>>, Advert(lo, Priority[lo]))
                BY <1>1, <1>2, <4>1, <4>4, DeliveredToOther
            <4>6. inbox'[hi] # <<>>
                BY <4>5
            <4>7. Left(hi)' = MinWait
                BY <4>6 DEF Left
            <4>8. AdvertInterval(lo) > MinWait /\ AdvertInterval(lo) \in Nat
                BY LongestFacts
            <4>9. calm \in Nat /\ timer[hi] \in Nat
                BY <1>2 DEF TypeOK
            <4>10. CASE timer[hi] > 0
                BY <1>6, <2>1, <4>3, <4>10 DEF Waits
            <4>11. CASE timer[hi] = 0
                <5>1. calm + Left(hi) <= Patience(lo) + MinWait
                    BY <4>3, <4>11 DEF Waits
                <5>2. calm + MinWait <= Patience(lo) + 2 * MinWait
                    BY <1>6, <4>2, <4>9, <5>1
                <5> QED BY <1>6, <2>1, <4>1, <4>7, <4>8, <4>11, <5>2 DEF PutOff
            <4> QED BY <4>9, <4>10, <4>11
        <3>4. CASE ~Advertise(lo)
            <4>1. inbox'[hi] = inbox[hi]
                BY <1>1, <1>2, <1>9, <2>3, <3>4, QueuesAfterTurn
            <4>2. Left(hi)' = Left(hi)
                BY <2>1, <4>1 DEF Left
            <4>3. CASE Waits(hi, lo)
                BY <2>1, <4>1, <4>3, WaitsSame
            <4>4. CASE PutOff(hi, lo)
                <5>1. st[lo] = "master"
                    BY <4>4 DEF PutOff
                <5>2. Block(lo) \/ Woken(lo)
                    <6>1. ~TakeOver(lo) /\ ~NotFit(lo)
                        BY <5>1 DEF TakeOver, BecomeMaster, NotFit
                    <6>2. ~(RecvIgnored(lo) \/ RecvResigned(lo) \/ RecvMaster(lo)
                            \/ RecvPeerResigned(lo) \/ RecvDemoted(lo))
                        BY <2>3 DEF RecvIgnored, RecvResigned, RecvMaster, RecvPeerResigned,
                                    RecvDemoted, Received
                    <6> QED BY <1>9, <2>3, <3>4, <5>1, <6>1, <6>2 DEF Loop
                <5>3. UNCHANGED <<st, timer>>
                    BY <5>2 DEF Block, Woken
                <5> QED BY <1>6, <2>1, <4>2, <4>4, <5>3 DEF PutOff
            <4> QED BY <3>2, <4>3, <4>4
        <3> QED BY <3>3, <3>4
    <2> QED BY <2>2, <2>3
<1>10. CASE UNCHANGED <<loopVars, inbox, held, cut>> /\ UNCHANGED <<healthy, calm, dual>>
    <2>1. UNCHANGED <<pc, st, timer, wait, inbox, healthy, calm>>
        BY <1>10 DEF loopVars
    <2>2. Waits(hi, lo) \/ PutOff(hi, lo)
        BY <2>1 DEF HiWaits
    <2>3. Left(hi)' = Left(hi)
        BY <2>1 DEF Left
    <2> QED BY <1>6, <2>1, <2>2, <2>3 DEF Waits, PutOff
<1> QED BY <1>1, <1>3, <1>4, <1>5, <1>7, <1>8, <1>9, <1>10, LossFreeNext

\* A turn of a Master that stays Master and does not advertise.
LEMMA MasterTurn ==
    ASSUME NEW i \in Inst, TypeOK, Loop(i), st[i] = "master", st'[i] = "master", ~Advertise(i)
    PROVE  \/ timer'[i] = timer[i] /\ timer[i] > 0
           \/ timer'[i] = timer[i] /\ Left(i)' = Left(i)
           \/ timer'[i] = 0 /\ Left(i)' = MinWait /\ Left(i) = MinWait
<1>1. ~StopSeen(i) /\ ~Resign(i)
    BY DEF StopSeen, Ends, Resign, TypeOK
<1>2. ~RecvDemoted(i) /\ ~RecvMaster(i) /\ ~RecvResigned(i)
    BY DEF RecvDemoted, Demote, RecvMaster, RecvResigned, TypeOK
<1>3. ~TakeOver(i) /\ ~NotFit(i)
    BY DEF TakeOver, BecomeMaster, NotFit
<1>4. CASE Block(i)
    <2>1. /\ pc[i] = "top" /\ pc'[i] = "recv" /\ timer'[i] = timer[i] /\ timer[i] \in Nat
          /\ wait'[i] = ReadTimeout(timer[i])
        BY <1>4 DEF Block, TypeOK
    <2>2. timer[i] = 0 => wait'[i] = MinWait
        BY <2>1, ReadTimeoutBounds
    <2>3. timer[i] = 0 => Left(i)' = Left(i)
        BY <2>1, <2>2 DEF Left
    <2> QED BY <2>1, <2>3
<1>5. CASE RecvIgnored(i) \/ RecvPeerResigned(i)
    <2>1. Received(i) /\ (timer'[i] = timer[i] \/ timer'[i] = 0)
        BY <1>5 DEF RecvIgnored, RecvPeerResigned, TypeOK
    <2>2. inbox[i] # <<>> /\ pc'[i] = "top"
        BY <2>1 DEF Received, TypeOK
    <2>3. Left(i)' = MinWait /\ Left(i) = MinWait
        BY <2>2 DEF Left
    <2> QED BY <2>1, <2>3
<1>6. CASE Woken(i)
    BY <1>6 DEF Woken, TypeOK
<1> QED BY <1>1, <1>2, <1>3, <1>4, <1>5, <1>6 DEF Loop

\* Time passes for a Master and a Backup that follows it.
LEMMA FollowTick ==
    ASSUME NEW hi \in Inst, NEW lo \in Inst, Pair(hi, lo), LossFree, TypeOK, RunInv, Tick,
           NEW m \in Inst, NEW b \in Inst, NEW y \in Nat, Follow(m, b, y)
    PROVE  Follow(m, b, y)'
<1> SUFFICES ASSUME st'[m] = "master", st'[b] = "backup"
             PROVE  \/ timer'[b] > timer'[m] + AdvertInterval(m)
                    \/ timer'[m] = 0 /\ timer'[b] > Left(m)'
                    \/ timer'[m] = 0 /\ calm' + Left(m)' <= y
    BY DEF Follow
<1>1. UNCHANGED st
    BY DEF Tick
<1>2. pc[m] # "off" /\ pc[b] # "off"
    BY <1>1 DEF RunInv
<1>3. /\ Left(m) \in Nat /\ Left(m) > 0 /\ Left(m)' = Left(m) - 1
      /\ timer'[m] = Down1(timer[m]) /\ timer[m] \in Nat
      /\ calm \in Nat /\ calm' \in Nat /\ calm' <= calm + 1
    BY <1>2, IdleTick
<1>4. timer'[b] = Down1(timer[b]) /\ timer[b] \in Nat /\ inbox[b] = <<>>
    BY <1>2, IdleTick
<1>5. AdvertInterval(m) \in Nat /\ AdvertInterval(m) > MinWait
    BY LongestFacts
<1>6. timer[m] = 0 => Left(m) <= MinWait
    BY LeftBound
<1>7. \/ timer[b] > timer[m] + AdvertInterval(m)
      \/ timer[m] = 0 /\ timer[b] > Left(m)
      \/ timer[m] = 0 /\ calm + Left(m) <= y
    BY <1>1, <1>4, QueueFacts DEF Follow
<1>8. CASE timer[m] > 0
    <2>1. timer[b] > timer[m] + AdvertInterval(m)
        BY <1>3, <1>7, <1>8
    <2>2. timer[b] > 0
        BY <1>3, <1>4, <1>5, <2>1
    <2>3. timer'[m] = timer[m] - 1 /\ timer'[b] = timer[b] - 1
        BY <1>3, <1>4, <1>8, <2>2 DEF Down1
    <2>4. \A t, u, a \in Nat : t > u + a => t - 1 > (u - 1) + a
        OBVIOUS
    <2>5. timer[b] - 1 > (timer[m] - 1) + AdvertInterval(m)
        BY <1>3, <1>4, <1>5, <2>1, <2>4
    <2> QED BY <2>3, <2>5
<1>9. CASE timer[m] = 0 /\ timer[b] > Left(m)
    BY <1>3, <1>4, <1>9 DEF Down1
<1>10. CASE timer[m] = 0 /\ calm + Left(m) <= y
    BY <1>3, <1>10 DEF Down1
<1>11. timer[m] = 0 /\ timer[b] > timer[m] + AdvertInterval(m) => timer[b] > Left(m)
    BY <1>3, <1>4, <1>5, <1>6
<1> QED BY <1>3, <1>7, <1>8, <1>9, <1>10, <1>11

\* The Master's own turns.
LEMMA FollowMasterTurn ==
    ASSUME NEW hi \in Inst, NEW lo \in Inst, Pair(hi, lo), TypeOK, RunInv, PairInv,
           NEW m \in Inst, NEW b \in Inst, m # b, Loop(m), st[m] = "master",
           NEW y \in Nat, Follow(m, b, y)
    PROVE  Follow(m, b, y)'
<1> SUFFICES ASSUME st'[m] = "master", st'[b] = "backup"
             PROVE  \/ Heralds(inbox'[b])
                    \/ timer'[b] > timer'[m] + AdvertInterval(m)
                    \/ timer'[m] = 0 /\ timer'[b] > Left(m)'
                    \/ timer'[m] = 0 /\ calm' + Left(m)' <= y
    BY DEF Follow
<1>1. pc'[b] = pc[b] /\ st'[b] = st[b] /\ timer'[b] = timer[b] /\ UNCHANGED calm
    BY OtherUntouched
<1>2. CASE Advertise(m)
    <2>1. pc[b] # "off"
        BY <1>1 DEF RunInv
    <2> QED BY <1>2, <2>1, QueuesAfterTurn
<1>3. CASE ~Advertise(m)
    <2>1. ~Resign(m) /\ ~StopSeen(m)
        BY DEF Resign, StopSeen, Ends, TypeOK
    <2>2. inbox'[b] = inbox[b]
        BY <1>3, <2>1, QueuesAfterTurn
    <2>3. \/ Heralds(inbox[b])
          \/ timer[b] > timer[m] + AdvertInterval(m)
          \/ timer[m] = 0 /\ timer[b] > Left(m)
          \/ timer[m] = 0 /\ calm + Left(m) <= y
        BY <1>1 DEF Follow
    <2>4. \/ timer'[m] = timer[m] /\ timer[m] > 0
          \/ timer'[m] = timer[m] /\ Left(m)' = Left(m)
          \/ timer'[m] = 0 /\ Left(m)' = MinWait /\ Left(m) = MinWait
        BY <1>3, MasterTurn
    <2>5. /\ AdvertInterval(m) \in Nat /\ AdvertInterval(m) > MinWait
          /\ timer[m] \in Nat /\ timer[b] \in Nat
        BY LongestFacts DEF TypeOK
    <2>6. CASE timer'[m] = timer[m] /\ timer[m] > 0
        BY <1>1, <2>2, <2>3, <2>5, <2>6
    <2>7. CASE timer'[m] = timer[m] /\ Left(m)' = Left(m)
        BY <1>1, <2>2, <2>3, <2>7
    <2>8. CASE timer'[m] = 0 /\ Left(m)' = MinWait /\ Left(m) = MinWait
        BY <1>1, <2>2, <2>3, <2>5, <2>8
    <2> QED BY <2>4, <2>6, <2>7, <2>8
<1> QED BY <1>2, <1>3

\* The Backup's turns, if it accepts every advertisement.
LEMMA FollowBackupTurn ==
    ASSUME NEW hi \in Inst, NEW lo \in Inst, Pair(hi, lo), TypeOK, RunInv, PairInv, TimersInv(lo),
           NEW m \in Inst, NEW b \in Inst, m # b, Loop(b), ~RecvIgnored(b), ~RecvResigned(b),
           NEW y \in Nat, Follow(m, b, y)
    PROVE  Follow(m, b, y)'
<1> SUFFICES ASSUME st'[m] = "master", st'[b] = "backup"
             PROVE  Follow(m, b, y)'
    BY DEF Follow
<1>1. /\ pc'[m] = pc[m] /\ st'[m] = st[m] /\ timer'[m] = timer[m] /\ wait'[m] = wait[m]
      /\ UNCHANGED calm
    BY OtherUntouched
<1>2. ASSUME timer'[b] = MasterDown(b, AdvertInterval(b)) PROVE Follow(m, b, y)'
    <2>1. timer[m] <= AdvertInterval(lo) /\ timer[m] \in Nat
        BY <1>1 DEF TimersInv, TypeOK
    <2>2. /\ AdvertInterval(m) = AdvertInterval(lo) /\ AdvertInterval(lo) \in Nat
          /\ MinWait < AdvertInterval(lo) /\ MasterDown(b, AdvertInterval(b)) \in Nat
          /\ 3 * AdvertInterval(lo) <= MasterDown(b, AdvertInterval(b))
        BY LongestFacts
    <2>3. timer'[b] > timer'[m] + AdvertInterval(m)
        BY <1>1, <1>2, <2>1, <2>2
    <2> QED BY <2>3 DEF Follow
<1>3. CASE RecvMaster(b) \/ RecvDemoted(b)
    <2>1. inbox[b] # <<>>
        BY <1>3 DEF RecvMaster, RecvDemoted, Received
    <2>2. Greater(Head(inbox[b]).interval, 1) = AdvertInterval(b)
        BY <2>1, HeardFromOther
    <2>3. RecvMaster(b) => timer'[b] = MasterDown(b, AdvertInterval(b))
        BY <2>2 DEF RecvMaster, TypeOK
    <2>4. RecvDemoted(b) => timer'[b] = MasterDown(b, AdvertInterval(b))
        BY <2>2 DEF RecvDemoted, Demote, TypeOK
    <2> QED BY <1>2, <1>3, <2>3, <2>4
<1>4. CASE Resign(b) \/ NotFit(b)
    <2>1. mai[b] = AdvertInterval(b)
        BY DEF PairInv
    <2>2. timer'[b] = MasterDown(b, AdvertInterval(b))
        BY <1>4, <2>1 DEF Resign, NotFit, TypeOK
    <2> QED BY <1>2, <2>2
<1>5. CASE Block(b) \/ Woken(b)
    <2>1. UNCHANGED <<st, timer, inbox>>
        BY <1>5 DEF Block, Woken
    <2>2. Left(m)' = Left(m)
        BY <1>1, <2>1 DEF Left
    <2> QED BY <1>1, <2>1, <2>2 DEF Follow
<1>6. ~StopSeen(b) /\ ~TakeOver(b)
    BY DEF StopSeen, Ends, TakeOver, BecomeMaster, TypeOK
<1>7. ~RecvPeerResigned(b) /\ ~Advertise(b)
    BY DEF RecvPeerResigned, Advertise
<1> QED BY <1>3, <1>4, <1>5, <1>6, <1>7 DEF Loop

\* When hi takes over: its timer was not put off by more than two reads.
LEMMA HiTakesOverInTime ==
    ASSUME NEW hi \in Inst, NEW lo \in Inst, Pair(hi, lo), BaseInv(hi, lo),
           HiWaits(hi, lo), HiFollows(hi, lo), TakeOver(hi)
    PROVE  calm <= Patience(lo) + 2 * MinWait
<1>1. /\ st[hi] = "backup" /\ healthy[HostOf[hi]] /\ timer[hi] = 0 /\ pc[hi] = "recv"
      /\ inbox[hi] = <<>> /\ wait[hi] = 0
    BY DEF TakeOver, BecomeMaster, TimedOut
<1>2. TypeOK /\ RunInv
    BY DEF BaseInv
<1>3. Patience(lo) \in Nat /\ calm \in Nat /\ Left(hi) = 0
    BY <1>1, <1>2, PatienceType DEF Left, TypeOK
<1>4. CASE st[lo] # "master" \/ ~Accepts(hi, lo)
    <2>1. Waits(hi, lo) \/ PutOff(hi, lo)
        BY <1>1, <1>4 DEF HiWaits
    <2> QED BY <1>1, <1>3, <2>1 DEF Waits, PutOff
<1>5. CASE st[lo] = "master" /\ Accepts(hi, lo)
    <2>1. Left(lo) \in Nat /\ timer[lo] \in Nat /\ AdvertInterval(lo) \in Nat
        BY <1>2, LeftBound, LongestFacts DEF TypeOK
    <2>2. \/ timer[hi] > timer[lo] + AdvertInterval(lo)
          \/ timer[lo] = 0 /\ timer[hi] > Left(lo)
          \/ timer[lo] = 0 /\ calm + Left(lo) <= Patience(lo) + 2 * MinWait
        BY <1>1, <1>5, QueueFacts DEF HiFollows, Follow
    <2> QED BY <1>1, <1>3, <2>1, <2>2
<1> QED BY <1>4, <1>5

\* When lo takes over: hi is no Master, or is about to advertise.
LEMMA LoTakesOverInTime ==
    ASSUME NEW hi \in Inst, NEW lo \in Inst, Pair(hi, lo), BaseInv(hi, lo),
           LoWaits(hi, lo), LoFollows(hi, lo), TakeOver(lo)
    PROVE  /\ st[hi] # "master" => calm <= Patience(lo) + MinWait
           /\ st[hi] = "master" => timer[hi] = 0 /\ calm + Left(hi) <= Patience(lo) + 3 * MinWait
<1>1. /\ st[lo] = "backup" /\ healthy[HostOf[lo]] /\ timer[lo] = 0 /\ pc[lo] = "recv"
      /\ inbox[lo] = <<>> /\ wait[lo] = 0
    BY DEF TakeOver, BecomeMaster, TimedOut
<1>2. TypeOK /\ RunInv
    BY DEF BaseInv
<1>3. Patience(lo) \in Nat /\ calm \in Nat /\ Left(lo) = 0
    BY <1>1, <1>2, PatienceType DEF Left, TypeOK
<1>4. st[hi] # "master" => calm <= Patience(lo) + MinWait
    BY <1>1, <1>3 DEF LoWaits, Waits
<1>5. CASE st[hi] = "master"
    <2>1. Left(hi) \in Nat /\ timer[hi] \in Nat /\ AdvertInterval(hi) \in Nat
        BY <1>2, LeftBound, AdvertIntervalType DEF TypeOK
    <2>2. \/ timer[lo] > timer[hi] + AdvertInterval(hi)
          \/ timer[hi] = 0 /\ timer[lo] > Left(hi)
          \/ timer[hi] = 0 /\ calm + Left(hi) <= Patience(lo) + 3 * MinWait
        BY <1>1, <1>5, QueueFacts DEF LoFollows, Follow
    <2> QED BY <1>1, <1>5, <2>1, <2>2
<1> QED BY <1>4, <1>5

\* A new Master with an advertisement due, soon enough.
LEMMA FollowDue ==
    ASSUME NEW m \in Inst, NEW b \in Inst, NEW y, timer'[m] = 0, calm' + Left(m)' <= y
    PROVE  Follow(m, b, y)'
BY DEF Follow

\* An event leaves a follower where it was, and a started one at the start of its timer.
LEMMA FollowEvent ==
    ASSUME NEW hi \in Inst, NEW lo \in Inst, Pair(hi, lo), BaseInv(hi, lo), BaseInv(hi, lo)',
           NEW m \in Inst, NEW b \in Inst, m # b, NEW y \in Nat, MinWait <= y, Follow(m, b, y),
           \/ \E i \in Inst : Start(i)
           \/ \E h \in Hosts : Reboot(h)
           \/ UNCHANGED <<loopVars, inbox, held, cut>> /\ (calm' = 0 \/ UNCHANGED calm)
    PROVE  Follow(m, b, y)'
<1>1. TypeOK /\ TypeOK' /\ RunInv /\ RunInv' /\ TimersInv(lo)'
    BY DEF BaseInv
<1>2. Left(m) \in Nat /\ calm \in Nat
    <2>1. Left(m) \in Nat
        BY <1>1, LeftBound
    <2>2. calm \in Nat
        BY <1>1 DEF TypeOK
    <2> QED BY <2>1, <2>2
<1>3. ASSUME NEW i \in Inst, Start(i) PROVE Follow(m, b, y)'
    <2>1. calm' = 0 /\ UNCHANGED <<inbox, wait>>
        BY <1>3 DEF Start
    <2>2. CASE i = m
        <3>1. st'[m] # "master" \/ timer'[m] = 0
            BY <1>1, <1>3, <2>2 DEF Start, TypeOK
        <3>2. pc'[m] = "top"
            BY <1>1, <1>3, <2>2 DEF Start, TypeOK
        <3>3. Left(m)' = MinWait
            BY <3>2 DEF Left
        <3>4. calm' + Left(m)' <= y
            BY <2>1, <3>3
        <3> QED BY <3>1, <3>4 DEF Follow
    <2>3. CASE i = b
        <3>1. st'[b] # "backup" \/ timer'[b] = MasterDown(b, AdvertInterval(b))
            BY <1>1, <1>3, <2>3 DEF Start, StartState, TypeOK
        <3>2. st'[m] = "master" => timer'[m] <= AdvertInterval(lo)
            BY <1>1 DEF TimersInv
        <3>3. /\ AdvertInterval(m) = AdvertInterval(lo) /\ AdvertInterval(lo) \in Nat
              /\ MinWait < AdvertInterval(lo) /\ MasterDown(b, AdvertInterval(b)) \in Nat
              /\ 3 * AdvertInterval(lo) <= MasterDown(b, AdvertInterval(b))
            BY LongestFacts
        <3>4. timer'[m] \in Nat
            BY <1>1 DEF TypeOK
        <3>5. st'[m] = "master" /\ st'[b] = "backup" => timer'[b] > timer'[m] + AdvertInterval(m)
            BY <3>1, <3>2, <3>3, <3>4
        <3> QED BY <3>5 DEF Follow
    <2> QED BY <2>2, <2>3 DEF Pair
<1>4. ASSUME NEW h \in Hosts, Reboot(h) PROVE Follow(m, b, y)'
    <2>1. PICK i \in Inst : HostOf[i] = h
        BY <1>4 DEF Reboot, Dies
    <2>2. st'[i] = "initialize"
        BY <1>4, <2>1 DEF Reboot, Dies
    <2>3. i = m \/ i = b
        BY DEF Pair
    <2> QED BY <2>2, <2>3 DEF Follow
<1>5. ASSUME UNCHANGED <<loopVars, inbox, held, cut>>, calm' = 0 \/ UNCHANGED calm
      PROVE  Follow(m, b, y)'
    <2>1. UNCHANGED <<pc, st, timer, wait, inbox>>
        BY <1>5 DEF loopVars
    <2>2. Left(m)' = Left(m)
        BY <2>1 DEF Left
    <2>3. calm + Left(m) <= y => calm' + Left(m) <= y
        BY <1>2, <1>5
    <2> QED BY <2>1, <2>2, <2>3 DEF Follow
<1> QED BY <1>3, <1>4, <1>5

\* Of the steps left, those that are no turn of a loop and no tick.
LEMMA TurnTickOrEvent ==
    ASSUME LossFree, [Next]_vars, NEW hi \in Inst, NEW lo \in Inst, Pair(hi, lo)
    PROVE  \/ Loop(hi) \/ Loop(lo) \/ Tick
           \/ \E i \in Inst : Start(i)
           \/ \E h \in Hosts : Reboot(h)
           \/ UNCHANGED <<loopVars, inbox, held, cut>> /\ (calm' = 0 \/ UNCHANGED calm)
BY LossFreeNext DEF Pair

\* Every step keeps LoFollows.
LEMMA LoFollowsStep ==
    ASSUME NEW hi \in Inst, NEW lo \in Inst, Pair(hi, lo), LossFree,
           BaseInv(hi, lo), BaseInv(hi, lo)', ElectionInv(hi, lo), [Next]_vars
    PROVE  LoFollows(hi, lo)'
<1> DEFINE y == Patience(lo) + 3 * MinWait
<1>1. hi # lo /\ Inst = {hi, lo}
    BY DEF Pair
<1>2. /\ TypeOK /\ RunInv /\ PairInv /\ PacketsInv(hi, lo) /\ TimersInv(lo) /\ OverlapInv(hi, lo)
      /\ TypeOK' /\ RunInv'
    BY DEF BaseInv
<1>3. Patience(lo) \in Nat /\ MaxWait <= Patience(lo) /\ y \in Nat /\ MinWait <= y
    BY PatienceType
<1>4. Follow(hi, lo, y) /\ HiWaits(hi, lo) /\ HiFollows(hi, lo)
    BY DEF ElectionInv, LoFollows
<1>5. Follow(hi, lo, y)' => LoFollows(hi, lo)'
    BY DEF LoFollows, Follow, Patience, Longest
<1>6. calm \in Nat
    BY <1>2 DEF TypeOK
<1> HIDE DEF y
<1>7. CASE Tick
    BY <1>2, <1>3, <1>4, <1>5, <1>7, FollowTick
<1>8. CASE Loop(hi)
    <2>1. CASE st[hi] = "master"
        BY <1>1, <1>2, <1>3, <1>4, <1>5, <1>8, <2>1, FollowMasterTurn
    <2>2. CASE st[hi] # "master" /\ TakeOver(hi)
        <3>1. calm <= Patience(lo) + 2 * MinWait
            BY <1>4, <2>2, HiTakesOverInTime
        <3>2. timer'[hi] = 0 /\ pc'[hi] = "top" /\ UNCHANGED calm
            BY <1>2, <2>2 DEF TakeOver, BecomeMaster, TimedOut, TypeOK, ghosts
        <3>3. Left(hi)' = MinWait
            BY <3>2 DEF Left
        <3>4. calm' + Left(hi)' <= y
            BY <1>3, <1>6, <3>1, <3>2, <3>3 DEF y
        <3> QED BY <1>5, <3>2, <3>4, FollowDue
    <2>3. CASE st[hi] # "master" /\ ~TakeOver(hi)
        <3>1. st'[hi] # "master"
            BY <1>2, <1>8, <2>3, StateAfterTurn
        <3> QED BY <1>5, <3>1 DEF Follow
    <2> QED BY <2>1, <2>2, <2>3
<1>9. CASE Loop(lo)
    <2>1. /\ pc'[hi] = pc[hi] /\ st'[hi] = st[hi] /\ timer'[hi] = timer[hi] /\ wait'[hi] = wait[hi]
          /\ UNCHANGED calm
        BY <1>1, <1>2, <1>9, OtherUntouched
    <2>2. ~RecvIgnored(lo)
        <3> SUFFICES ASSUME RecvIgnored(lo) PROVE FALSE
            OBVIOUS
        <3>1. inbox[lo] # <<>> /\ Ignored(lo, Head(inbox[lo]))
            BY DEF RecvIgnored, Received
        <3>2. Head(inbox[lo]) # Foreign
            BY <1>1, <1>2, <3>1, HeardFromOther
        <3> QED BY <1>2, <3>1, <3>2, LoYields DEF Ignored
    <2>3. CASE RecvResigned(lo)
        <3>1. inbox[lo] # <<>> /\ Head(inbox[lo]).prio = 0 /\ inbox[lo] \in Seq(Says(hi))
            BY <1>1, <1>2, <2>3 DEF RecvResigned, Received, PairInv
        <3>2. Resigns(inbox[lo])
            BY <3>1, QueueFacts
        <3>3. calm <= MaxWait /\ (st[hi] = "master" => timer[hi] = 0)
            BY <1>2, <3>2 DEF PacketsInv, OverlapInv
        <3>4. timer'[hi] = 0 => Left(hi)' \in Nat /\ Left(hi)' <= MinWait
            BY <1>2 DEF Left, TypeOK, RunInv, Greater
        <3>5. timer'[hi] = 0 => calm' + Left(hi)' <= y
            BY <1>3, <1>6, <2>1, <3>3, <3>4 DEF y
        <3>6. CASE st[hi] = "master"
            BY <1>5, <2>1, <3>3, <3>5, <3>6, FollowDue
        <3>7. CASE st[hi] # "master"
            BY <1>5, <2>1, <3>7 DEF Follow
        <3> QED BY <3>6, <3>7
    <2>4. CASE ~RecvResigned(lo)
        BY <1>1, <1>2, <1>3, <1>4, <1>5, <1>9, <2>2, <2>4, FollowBackupTurn
    <2> QED BY <2>3, <2>4
<1>10. CASE \/ \E i \in Inst : Start(i)
            \/ \E h \in Hosts : Reboot(h)
            \/ UNCHANGED <<loopVars, inbox, held, cut>> /\ (calm' = 0 \/ UNCHANGED calm)
    BY <1>1, <1>3, <1>4, <1>5, <1>10, FollowEvent
<1> QED BY <1>7, <1>8, <1>9, <1>10, TurnTickOrEvent

\* Every step keeps HiFollows.
LEMMA HiFollowsStep ==
    ASSUME NEW hi \in Inst, NEW lo \in Inst, Pair(hi, lo), LossFree,
           BaseInv(hi, lo), BaseInv(hi, lo)', ElectionInv(hi, lo), [Next]_vars
    PROVE  HiFollows(hi, lo)'
<1> SUFFICES ASSUME Accepts(hi, lo) PROVE HiFollows(hi, lo)'
    BY DEF HiFollows, Accepts
<1> DEFINE y == Patience(lo) + 2 * MinWait
<1>1. hi # lo /\ Inst = {hi, lo}
    BY DEF Pair
<1>2. /\ TypeOK /\ RunInv /\ PairInv /\ PacketsInv(hi, lo) /\ TimersInv(lo)
      /\ TypeOK' /\ RunInv'
    BY DEF BaseInv
<1>3. Patience(lo) \in Nat /\ y \in Nat /\ MinWait <= y
    BY PatienceType
<1>4. Follow(lo, hi, y) /\ LoWaits(hi, lo) /\ LoFollows(hi, lo)
    BY DEF ElectionInv, HiFollows
<1>5. Follow(lo, hi, y)' => HiFollows(hi, lo)'
    BY DEF HiFollows, Follow, Patience, Longest
<1>6. calm \in Nat
    BY <1>2 DEF TypeOK
<1> HIDE DEF y
<1>7. CASE Tick
    BY <1>2, <1>3, <1>4, <1>5, <1>7, FollowTick
<1>8. CASE Loop(lo)
    <2>1. CASE st[lo] = "master"
        BY <1>1, <1>2, <1>3, <1>4, <1>5, <1>8, <2>1, FollowMasterTurn
    <2>2. CASE st[lo] # "master" /\ TakeOver(lo)
        <3>1. timer'[lo] = 0 /\ pc'[lo] = "top" /\ UNCHANGED calm
            BY <1>2, <2>2 DEF TakeOver, BecomeMaster, TimedOut, TypeOK, ghosts
        <3>2. Left(lo)' = MinWait
            BY <3>1 DEF Left
        <3>3. CASE st[hi] # "master"
            <4>1. calm <= Patience(lo) + MinWait
                BY <1>4, <2>2, <3>3, LoTakesOverInTime
            <4>2. calm' + Left(lo)' <= y
                BY <1>3, <1>6, <3>1, <3>2, <4>1 DEF y
            <4> QED BY <1>5, <3>1, <4>2, FollowDue
        <3>4. CASE st[hi] = "master"
            <4>1. st'[hi] = "master"
                BY <1>1, <1>2, <1>8, <3>4, OtherUntouched
            <4> QED BY <1>5, <4>1 DEF Follow
        <3> QED BY <3>3, <3>4
    <2>3. CASE st[lo] # "master" /\ ~TakeOver(lo)
        <3>1. st'[lo] # "master"
            BY <1>2, <1>8, <2>3, StateAfterTurn
        <3> QED BY <1>5, <3>1 DEF Follow
    <2> QED BY <2>1, <2>2, <2>3
<1>9. CASE Loop(hi)
    <2>1. st'[lo] = st[lo]
        BY <1>1, <1>2, <1>9, OtherUntouched
    <2>2. CASE st[lo] # "master"
        BY <1>5, <2>1, <2>2 DEF Follow
    <2>3. CASE st[hi] = "master"
        <3>1. ~RecvResigned(hi)
            BY <2>3 DEF RecvResigned
        <3>2. CASE RecvIgnored(hi)
            <4>1. st'[hi] = "master"
                BY <2>3, <3>2 DEF RecvIgnored
            <4> QED BY <1>5, <4>1 DEF Follow
        <3>3. CASE ~RecvIgnored(hi)
            BY <1>1, <1>2, <1>3, <1>4, <1>5, <1>9, <3>1, <3>3, FollowBackupTurn
        <3> QED BY <3>2, <3>3
    <2>4. CASE st[lo] = "master" /\ st[hi] # "master"
        <3>1. ~RecvResigned(hi)
            <4> SUFFICES ASSUME RecvResigned(hi) PROVE FALSE
                OBVIOUS
            <4>1. inbox[hi] # <<>> /\ Head(inbox[hi]).prio = 0 /\ inbox[hi] \in Seq(Says(lo))
                BY <1>1, <1>2 DEF RecvResigned, Received, PairInv
            <4>2. Resigns(inbox[hi])
                BY <4>1, QueueFacts
            <4> QED BY <1>2, <2>4, <4>2 DEF PacketsInv
        <3>2. ~RecvIgnored(hi)
            <4> SUFFICES ASSUME RecvIgnored(hi) PROVE FALSE
                OBVIOUS
            <4>1. inbox[hi] # <<>> /\ Ignored(hi, Head(inbox[hi]))
                BY DEF RecvIgnored, Received
            <4>2. Head(inbox[hi]) # Foreign /\ Head(inbox[hi]).prio \in {0, Priority[lo]}
                BY <1>1, <1>2, <4>1, HeardFromOther
            <4>3. Head(inbox[hi]).prio # 0 => Follows(hi, Head(inbox[hi]))
                BY <4>2, AcceptedFollows
            <4> QED BY <2>4, <4>1, <4>2, <4>3 DEF Ignored
        <3> QED BY <1>1, <1>2, <1>3, <1>4, <1>5, <1>9, <3>1, <3>2, FollowBackupTurn
    <2> QED BY <2>2, <2>3, <2>4
<1>10. CASE \/ \E i \in Inst : Start(i)
            \/ \E h \in Hosts : Reboot(h)
            \/ UNCHANGED <<loopVars, inbox, held, cut>> /\ (calm' = 0 \/ UNCHANGED calm)
    BY <1>1, <1>3, <1>4, <1>5, <1>10, FollowEvent
<1> QED BY <1>7, <1>8, <1>9, <1>10, TurnTickOrEvent

\* Every step keeps OneLeft.
LEMMA OneLeftStep ==
    ASSUME NEW hi \in Inst, NEW lo \in Inst, Pair(hi, lo), LossFree,
           BaseInv(hi, lo), BaseInv(hi, lo)', ElectionInv(hi, lo), [Next]_vars
    PROVE  OneLeft(hi, lo)'
<1> DEFINE K == Patience(lo)
           Ends1 == calm + Left(hi) <= K + 3 * MinWait
           Ends2 == calm + Left(hi) <= K + 4 * MinWait /\ timer[lo] > Left(hi)
<1> SUFFICES ASSUME st'[hi] = "master", st'[lo] = "master"
             PROVE  calm' <= K + 4 * MinWait /\ (Heralds(inbox'[lo]) \/ Ends1' \/ Ends2')
    BY DEF OneLeft, Patience, Longest
<1>1. hi # lo /\ Inst = {hi, lo}
    BY DEF Pair
<1>2. /\ TypeOK /\ RunInv /\ PairInv /\ PacketsInv(hi, lo) /\ OverlapInv(hi, lo)
      /\ TypeOK' /\ RunInv' /\ OverlapInv(hi, lo)'
    BY DEF BaseInv
<1>3. K \in Nat /\ MaxWait <= K /\ Patience(lo)' = K
    BY PatienceType DEF Patience, Longest
<1>4. HiWaits(hi, lo) /\ HiFollows(hi, lo) /\ LoWaits(hi, lo) /\ LoFollows(hi, lo)
    BY DEF ElectionInv
<1>5. st[hi] = "master" /\ st[lo] = "master" =>
          calm <= K + 4 * MinWait /\ (Heralds(inbox[lo]) \/ Ends1 \/ Ends2)
    BY DEF ElectionInv, OneLeft
<1>6. /\ calm \in Nat /\ calm' \in Nat /\ timer[lo] \in Nat /\ timer[hi] \in Nat
      /\ Left(hi) \in Nat /\ Left(hi)' \in Nat
    BY <1>2 DEF TypeOK, Left
<1>7. st[hi] = "master" /\ st[lo] = "master" /\ ~Heralds(inbox[lo]) => timer[hi] = 0
    BY <1>2 DEF OverlapInv
<1>8. timer'[hi] = 0 => Left(hi)' <= MinWait
    BY <1>2 DEF Left, TypeOK, RunInv, Greater
<1>9. ~Heralds(inbox'[lo]) => timer'[hi] = 0
    BY <1>2 DEF OverlapInv
<1>10. CASE Tick
    <2>1. UNCHANGED <<st, inbox>>
        BY <1>10 DEF Tick
    <2>2. pc[hi] # "off" /\ pc[lo] # "off"
        BY <1>2, <2>1 DEF RunInv
    <2>3. Left(hi) > 0 /\ Left(hi)' = Left(hi) - 1 /\ calm' <= calm + 1
        BY <1>2, <1>10, <2>2, IdleTick
    <2>4. inbox[lo] = <<>> /\ timer'[lo] = Down1(timer[lo])
        BY <1>2, <1>10, <2>2, IdleTick
    <2>5. Ends1 \/ Ends2
        BY <1>5, <2>1, <2>4, QueueFacts
    <2>6. CASE Ends1
        BY <1>3, <1>6, <2>3, <2>6
    <2>7. CASE Ends2
        <3>1. timer[lo] > 0
            BY <1>6, <2>3, <2>7
        <3>2. timer'[lo] = timer[lo] - 1
            BY <1>6, <2>4, <3>1 DEF Down1
        <3>3. timer'[lo] > Left(hi)'
            BY <1>6, <2>3, <2>7, <3>2
        <3>4. calm' + Left(hi)' <= K + 4 * MinWait
            BY <1>3, <1>6, <2>3, <2>7
        <3>5. calm' <= K + 4 * MinWait
            BY <1>3, <1>6, <3>4
        <3>6. Ends2'
            BY <1>3, <3>3, <3>4
        <3> QED BY <3>5, <3>6
    <2> QED BY <2>5, <2>6, <2>7
<1>11. CASE Loop(hi)
    <2>1. st'[lo] = st[lo] /\ timer'[lo] = timer[lo] /\ UNCHANGED calm
        BY <1>1, <1>2, <1>11, OtherUntouched
    <2>2. CASE TakeOver(hi)
        <3>1. calm <= K + 2 * MinWait
            BY <1>4, <2>2, HiTakesOverInTime
        <3>2. timer'[hi] = 0
            BY <1>2, <2>2 DEF TakeOver, BecomeMaster, TypeOK
        <3> QED BY <1>3, <1>6, <1>8, <2>1, <3>1, <3>2
    <2>3. CASE ~TakeOver(hi)
        <3>1. st[hi] = "master"
            BY <1>2, <1>11, <2>3, StateAfterTurn
        <3>2. calm <= K + 4 * MinWait /\ (Heralds(inbox[lo]) \/ Ends1 \/ Ends2)
            BY <1>5, <2>1, <3>1
        <3>3. CASE Advertise(hi)
            <4>1. pc[lo] # "off"
                BY <1>2, <2>1 DEF RunInv
            <4> QED BY <1>1, <1>2, <1>11, <2>1, <3>2, <3>3, <4>1, QueuesAfterTurn
        <3>4. CASE ~Advertise(hi)
            <4>1. ~Resign(hi) /\ ~StopSeen(hi)
                BY <1>2 DEF Resign, StopSeen, Ends, TypeOK
            <4>2. inbox'[lo] = inbox[lo]
                BY <1>1, <1>2, <1>11, <3>4, <4>1, QueuesAfterTurn
            <4>3. CASE Heralds(inbox[lo])
                BY <2>1, <3>2, <4>2, <4>3
            <4>4. CASE ~Heralds(inbox[lo])
                <5>1. timer[hi] = 0
                    BY <1>7, <2>1, <3>1, <4>4
                <5>2. Left(hi)' = Left(hi)
                    BY <1>2, <1>6, <1>11, <3>1, <3>4, <5>1, MasterTurn
                <5> QED BY <2>1, <3>2, <4>4, <5>2
            <4> QED BY <4>3, <4>4
        <3> QED BY <3>3, <3>4
    <2> QED BY <2>2, <2>3
<1>12. CASE Loop(lo)
    <2>1. /\ pc'[hi] = pc[hi] /\ st'[hi] = st[hi] /\ timer'[hi] = timer[hi] /\ wait'[hi] = wait[hi]
          /\ UNCHANGED calm
        BY <1>1, <1>2, <1>12, OtherUntouched
    <2>2. CASE TakeOver(lo)
        <3>1. calm + Left(hi) <= K + 3 * MinWait
            BY <1>4, <2>1, <2>2, LoTakesOverInTime
        <3>2. UNCHANGED inbox
            BY <2>2 DEF TakeOver, BecomeMaster
        <3>3. Left(hi)' = Left(hi)
            BY <2>1, <3>2 DEF Left
        <3> QED BY <1>3, <1>6, <2>1, <3>1, <3>3
    <2>3. CASE ~TakeOver(lo)
        <3>1. st[lo] = "master"
            BY <1>2, <1>12, <2>3, StateAfterTurn
        <3>2. calm <= K + 4 * MinWait /\ (Heralds(inbox[lo]) \/ Ends1 \/ Ends2)
            BY <1>5, <2>1, <3>1
        <3>3. CASE Advertise(lo)
            <4>1. /\ timer[lo] = 0 /\ timer'[lo] = AdvertInterval(lo) /\ inbox[lo] = <<>>
                  /\ pc[lo] = "recv" /\ wait[lo] = 0 /\ inbox' = Delivered(lo, Priority[lo])
                BY <1>2, <3>3 DEF Advertise, TimedOut, TypeOK
            <4>2. Ends1
                BY <1>6, <3>2, <4>1, QueueFacts
            <4>3. inbox[hi] = <<>> /\ pc[hi] # "off"
                BY <1>1, <1>2, <2>1, <4>1 DEF PairInv, RunInv
            <4>4. inbox'[hi] = Append(<<>>, Advert(lo, Priority[lo]))
                BY <1>1, <1>2, <4>1, <4>3, DeliveredToOther
            <4>5. inbox'[hi] # <<>>
                BY <4>4
            <4>6. Left(hi)' = MinWait
                BY <4>5 DEF Left
            <4>7. AdvertInterval(lo) > MinWait /\ AdvertInterval(lo) \in Nat
                BY LongestFacts
            <4>8. calm + MinWait <= K + 4 * MinWait
                BY <1>3, <1>6, <4>2
            <4> QED BY <2>1, <3>2, <4>1, <4>6, <4>7, <4>8
        <3>4. CASE RecvPeerResigned(lo)
            <4>1. inbox[lo] # <<>> /\ Head(inbox[lo]).prio = 0 /\ inbox[lo] \in Seq(Says(hi))
                BY <1>1, <1>2, <3>4 DEF RecvPeerResigned, Received, PairInv
            <4>2. Resigns(inbox[lo])
                BY <4>1, QueueFacts
            <4>3. calm <= MaxWait /\ timer[hi] = 0
                BY <1>2, <2>1, <4>2 DEF PacketsInv, OverlapInv
            <4> QED BY <1>3, <1>6, <1>8, <2>1, <4>3
        <3>5. CASE Block(lo) \/ Woken(lo)
            <4>1. UNCHANGED <<timer, inbox>>
                BY <3>5 DEF Block, Woken
            <4>2. Left(hi)' = Left(hi)
                BY <2>1, <4>1 DEF Left
            <4> QED BY <2>1, <3>2, <4>1, <4>2
        <3>6. ~RecvIgnored(lo)
            <4> SUFFICES ASSUME RecvIgnored(lo) PROVE FALSE
                OBVIOUS
            <4>1. inbox[lo] # <<>> /\ Ignored(lo, Head(inbox[lo]))
                BY DEF RecvIgnored, Received
            <4>2. Head(inbox[lo]) # Foreign
                BY <1>1, <1>2, <4>1, HeardFromOther
            <4> QED BY <1>2, <4>1, <4>2, LoYields DEF Ignored
        <3>7. ~(RecvResigned(lo) \/ RecvMaster(lo) \/ NotFit(lo))
            BY <3>1 DEF RecvResigned, RecvMaster, NotFit
        <3>8. ~(StopSeen(lo) \/ Resign(lo) \/ RecvDemoted(lo))
            BY <1>2 DEF StopSeen, Ends, Resign, RecvDemoted, Demote, TypeOK
        <3> QED BY <1>12, <2>3, <3>3, <3>4, <3>5, <3>6, <3>7, <3>8 DEF Loop
    <2> QED BY <2>2, <2>3
<1>13. CASE calm' = 0
    <2>1. Heralds(inbox'[lo]) \/ Left(hi)' <= MinWait
        BY <1>8, <1>9
    <2> QED BY <1>3, <1>6, <1>13, <2>1
<1>14. ASSUME NEW i \in Inst, Start(i) PROVE calm' = 0
    BY <1>14 DEF Start
<1>15. ASSUME NEW h \in Hosts, Reboot(h) PROVE calm' = 0
    BY <1>15 DEF Reboot, Fault
<1>16. CASE UNCHANGED <<loopVars, inbox, held, cut>> /\ UNCHANGED calm
    <2>1. UNCHANGED <<pc, st, timer, wait, inbox>>
        BY <1>16 DEF loopVars
    <2>2. Left(hi)' = Left(hi)
        BY <2>1 DEF Left
    <2> QED BY <1>5, <1>16, <2>1, <2>2
<1> QED BY <1>10, <1>11, <1>12, <1>13, <1>14, <1>15, <1>16, TurnTickOrEvent

\* What ElectionInv says once everybody's patience is over.
LEMMA ElectionOver ==
    ASSUME NEW hi \in Inst, NEW lo \in Inst, Pair(hi, lo), LossFree, BaseInv(hi, lo),
           ElectionInv(hi, lo), calm > Patience(lo) + 4 * MinWait
    PROVE  Elected
<1>1. hi # lo /\ Inst = {hi, lo}
    BY DEF Pair
<1>2. TypeOK /\ RunInv /\ AnsweredInv /\ RequestInv
    BY DEF BaseInv
<1>3. Patience(lo) \in Nat /\ MaxWait <= Patience(lo) /\ calm \in Nat
    BY <1>2, PatienceType DEF TypeOK
<1>4. calm > MaxWait /\ calm > Patience(lo) + 2 * MinWait /\ calm > Patience(lo) + MinWait
      /\ calm > Patience(lo)
    BY <1>3
<1>5. ASSUME NEW i \in Inst, st[i] = "master" PROVE i \in Fit
    <2>1. ~Unanswered(i)
        BY <1>2, <1>3, <1>4, RequestIsFresh DEF LossFree
    <2>2. pc[i] # "off"
        BY <1>2, <1>5 DEF RunInv
    <2> QED BY <1>5, <2>1, <2>2 DEF Unanswered, Fit
<1>6. ~(st[hi] = "master" /\ st[lo] = "master")
    BY <1>3 DEF ElectionInv, OneLeft
<1>7. \A i \in Inst : ~Waits(i, lo)
    <2> SUFFICES ASSUME NEW i \in Inst, Waits(i, lo) PROVE FALSE
        OBVIOUS
    <2>1. timer[i] \in Nat
        BY <1>2 DEF TypeOK
    <2>2. Left(i) \in Nat
        BY <1>2, LeftBound
    <2> QED BY <1>3, <1>4, <2>1, <2>2 DEF Waits
<1>8. ~PutOff(hi, lo)
    <2>1. Left(hi) \in Nat
        BY <1>2, LeftBound
    <2> QED BY <1>3, <1>4, <2>1 DEF PutOff
<1>9. \A i \in Fit : st[i] # "master" => st[i] = "backup" /\ healthy[HostOf[i]]
    BY <1>2 DEF Fit, RunInv, TypeOK
<1>10. lo \in Fit => st[lo] = "master" \/ st[hi] = "master"
    BY <1>7, <1>9 DEF ElectionInv, LoWaits
<1>11. hi \in Fit => st[hi] = "master" \/ (st[lo] = "master" /\ Accepts(hi, lo))
    BY <1>7, <1>8, <1>9 DEF ElectionInv, HiWaits
<1>12. Priority[hi] \in Nat /\ Priority[lo] \in Nat /\ Priority[lo] <= Priority[hi]
    BY DEF Pair
<1>13. CASE Fit = {}
    <2>1. Masters = {}
        BY <1>5, <1>13 DEF Masters
    <2> QED BY <1>13, <2>1 DEF Elected
<1>14. CASE Fit # {} /\ st[hi] = "master"
    <2>1. hi \in Fit /\ Masters = {hi}
        BY <1>1, <1>5, <1>6, <1>14 DEF Masters
    <2>2. \A k \in Fit : Priority[k] <= Priority[hi]
        BY <1>1, <1>12 DEF Fit
    <2> QED BY <1>14, <2>1, <2>2 DEF Elected
<1>15. CASE Fit # {} /\ st[hi] # "master"
    <2>1. st[lo] = "master"
        BY <1>1, <1>10, <1>11, <1>15 DEF Fit
    <2>2. lo \in Fit /\ Masters = {lo}
        BY <1>1, <1>5, <1>15, <2>1 DEF Masters
    <2>3. \A k \in Fit : Preempt[k] => Priority[k] <= Priority[lo]
        BY <1>1, <1>11, <1>12, <1>15 DEF Fit, Accepts
    <2> QED BY <1>15, <2>2, <2>3 DEF Elected
<1> QED BY <1>13, <1>14, <1>15

\* What is known of the two besides is always so.
LEMMA BaseAlways ==
    ASSUME NEW hi \in Inst, NEW lo \in Inst, Pair(hi, lo), LossFree
    PROVE  Spec => []BaseInv(hi, lo)
<1>1. Init => TimersInv(lo)
    BY DEF Init, TimersInv
<1>2. Init => PacketsInv(hi, lo)
    BY QueueFacts DEF Init, PacketsInv
<1>3. Init => OverlapInv(hi, lo)
    BY DEF Init, OverlapInv
<1>4. TypeOK /\ PairInv /\ TimersInv(lo) /\ [Next]_vars => TimersInv(lo)'
    BY TimersStep
<1>5. TypeOK /\ RunInv /\ AnsweredInv /\ RequestInv /\ PairInv /\ PacketsInv(hi, lo)
        /\ [Next]_vars => PacketsInv(hi, lo)'
    BY PacketsStep
<1>6. TypeOK /\ TypeOK' /\ RunInv /\ RunInv' /\ HolderIsMaster /\ PairInv
        /\ OverlapInv(hi, lo) /\ [Next]_vars => OverlapInv(hi, lo)'
    BY OverlapStep
<1>7. TypeOK /\ RunInv /\ AnsweredInv /\ RequestInv /\ PairInv
        /\ TimersInv(lo) /\ PacketsInv(hi, lo) /\ OverlapInv(hi, lo) => BaseInv(hi, lo)
    BY DEF BaseInv
<1>8. Spec => []PairInv
    BY PairAlways
<1> QED
    BY <1>1, <1>2, <1>3, <1>4, <1>5, <1>6, <1>7, <1>8,
       TypeCorrect, RunAlways, RequestAlways, NoStrayAddress, PTL
    DEF Spec

\* Of two machines of any priorities, interval, preemption and read timeouts, on a LAN
\* that loses nothing: one longest read (500 ms), lo's Master_Down_Interval and four
\* shortest reads (10 ms each) after the last stop, start, reboot or change of a pool, the
\* loop has elected exactly one Master, and one that no other must preempt, if a machine
\* can serve at all, and none otherwise.
THEOREM ElectionInTime ==
    ASSUME NEW hi \in Inst, NEW lo \in Inst, Pair(hi, lo), LossFree,
           Settle > Patience(lo) + 4 * MinWait
    PROVE  Spec => []ElectedInTime
<1>1. Init => ElectionInv(hi, lo)
    BY DEF Init, ElectionInv, LoWaits, HiWaits, LoFollows, HiFollows, Follow, OneLeft
<1>2. BaseInv(hi, lo) /\ BaseInv(hi, lo)' /\ ElectionInv(hi, lo) /\ [Next]_vars
        => ElectionInv(hi, lo)'
    <2> SUFFICES ASSUME BaseInv(hi, lo), BaseInv(hi, lo)', ElectionInv(hi, lo), [Next]_vars
                 PROVE  ElectionInv(hi, lo)'
        OBVIOUS
    <2>1. LoWaits(hi, lo) /\ HiWaits(hi, lo)
        BY DEF ElectionInv
    <2>2. LoWaits(hi, lo)'
        BY <2>1, LoWaitsStep
    <2>3. HiWaits(hi, lo)'
        BY <2>1, HiWaitsStep
    <2>4. LoFollows(hi, lo)' /\ HiFollows(hi, lo)'
        BY LoFollowsStep, HiFollowsStep
    <2>5. OneLeft(hi, lo)'
        BY OneLeftStep
    <2> QED BY <2>2, <2>3, <2>4, <2>5 DEF ElectionInv
<1>3. BaseInv(hi, lo) /\ ElectionInv(hi, lo) => ElectedInTime
    <2> SUFFICES ASSUME BaseInv(hi, lo), ElectionInv(hi, lo), calm = Settle PROVE Elected
        BY DEF ElectedInTime
    <2>1. calm > Patience(lo) + 4 * MinWait
        OBVIOUS
    <2> QED BY <2>1, ElectionOver
<1>4. Spec => []BaseInv(hi, lo)
    BY BaseAlways
<1> QED BY <1>1, <1>2, <1>3, <1>4, PTL DEF Spec
=============================================================================
