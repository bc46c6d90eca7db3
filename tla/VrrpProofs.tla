----------------------------- MODULE VrrpProofs -----------------------------
(* Theorems about the VRRP control loop, for every set of machines, every     *)
(* assignment of priorities and intervals and any number of faults.          *)
EXTENDS Vrrp, TLAPS

USE ConstantsAssumption DEF ConstantsAssumption

-----------------------------------------------------------------------------
(* The timers. *)

\* VirtualRouter::new yields an interval of at least one unit.
LEMMA AdvertIntervalType ==
    \A i \in Inst : AdvertInterval(i) \in Nat /\ AdvertInterval(i) >= 1
<1> SUFFICES ASSUME NEW i \in Inst
             PROVE  AdvertInterval(i) \in Nat /\ AdvertInterval(i) >= 1
    OBVIOUS
<1> DEFINE s == Greater(AdvertSecs[i], 1)
<1>1. s \in Nat /\ s >= 1
    BY DEF Greater
<1>2. s * UnitsPerSec \in Nat /\ s * UnitsPerSec >= 1
    <2> HIDE DEF s
    <2> QED BY <1>1
<1> QED BY <1>2 DEF AdvertInterval, Lesser

\* Skew_Time is at most the learned interval, so a resignation (priority 0)
\* never makes a Backup wait longer than one interval.
LEMMA SkewType ==
    \A i \in Inst : \A m \in Nat : Skew(i, m) \in Nat /\ Skew(i, m) <= m
<1> SUFFICES ASSUME NEW i \in Inst, NEW m \in Nat
             PROVE  Skew(i, m) \in Nat /\ Skew(i, m) <= m
    OBVIOUS
<1> DEFINE p == 256 - Priority[i]
<1>1. p \in 1..255
    OBVIOUS
<1>2. p * m \in Nat /\ p * m <= 256 * m
    <2> HIDE DEF p
    <2> QED BY <1>1
<1>3. \A x \in Nat : x <= 256 * m => x \div 256 \in Nat /\ x \div 256 <= m
    OBVIOUS
<1> QED BY <1>2, <1>3 DEF Skew

\* The master-down time is a number of units.
LEMMA MasterDownType == \A i \in Inst : \A m \in Nat : MasterDown(i, m) \in Nat
BY SkewType DEF MasterDown

\* Among Backups that learned the same interval, the one with the higher priority
\* never waits longer for a dead Master (master_down_interval_centis), nor after
\* a resignation (skew_centis).
THEOREM HigherPriorityFirst ==
    ASSUME NEW i \in Inst, NEW j \in Inst, NEW m \in Nat,
           Priority[i] >= Priority[j]
    PROVE  Skew(i, m) <= Skew(j, m) /\ MasterDown(i, m) <= MasterDown(j, m)
<1> DEFINE p == 256 - Priority[i]
           q == 256 - Priority[j]
<1>1. Priority[i] \in 1..255 /\ Priority[j] \in 1..255
    OBVIOUS
<1>2. p \in Nat /\ q \in Nat /\ p <= q
    BY <1>1, SMTT(30)
<1>3. p * m \in Nat /\ q * m \in Nat /\ p * m <= q * m
    <2> HIDE DEF p, q
    <2> QED BY <1>2
<1>4. \A x, y \in Nat : x <= y => x \div 256 <= y \div 256
    OBVIOUS
<1>5. Skew(i, m) <= Skew(j, m)
    BY <1>3, <1>4 DEF Skew
<1> QED BY <1>5, SkewType DEF MasterDown

-----------------------------------------------------------------------------
(* Type correctness. *)

\* Sending (the `send` closure) leaves well-formed packets in every receive queue.
LEMMA DeliveredType ==
    ASSUME TypeOK, NEW i \in Inst, NEW prio \in 0..255
    PROVE  Delivered(i, prio) \in [Inst -> Seq(Messages)]
<1>1. Advert(i, prio) \in Messages
    BY AdvertIntervalType DEF Advert, Messages
<1>2. \A j \in Inst : Append(inbox[j], Advert(i, prio)) \in Seq(Messages)
    BY <1>1 DEF TypeOK
<1> QED BY <1>2 DEF Delivered, TypeOK

\* So does a resignation (priority 0).
LEMMA ResignationType ==
    ASSUME TypeOK, NEW i \in Inst
    PROVE  Delivered(i, 0) \in [Inst -> Seq(Messages)]
<1>1. 0 \in 0..255
    OBVIOUS
<1>2. \A prio \in 0..255 : Delivered(i, prio) \in [Inst -> Seq(Messages)]
    BY DeliveredType
<1> QED BY <1>1, <1>2

\* What recv_from returns is a packet, and the interval a Backup learns from it a number.
LEMMA HeadType ==
    ASSUME TypeOK, NEW i \in Inst, inbox[i] # <<>>
    PROVE  /\ Head(inbox[i]) \in Messages
           /\ Tail(inbox[i]) \in Seq(Messages)
           /\ Greater(Head(inbox[i]).interval, 1) \in Nat
<1>1. inbox[i] \in Seq(Messages)
    BY DEF TypeOK
<1>2. Head(inbox[i]) \in Messages /\ Tail(inbox[i]) \in Seq(Messages)
    BY <1>1
<1>3. \A msg \in Messages : Greater(msg.interval, 1) \in Nat
    BY DEF Messages, Foreign, Greater
<1> QED BY <1>2, <1>3

\* The end of a thread (run) leaves the loop state well typed.
LEMMA EndsType ==
    ASSUME TypeOK, NEW i \in Inst, Ends(i)
    PROVE  /\ pc' \in [Inst -> {"off", "top", "recv"}]
           /\ st' \in [Inst -> {"initialize", "backup", "master"}]
           /\ pub' \in [Inst -> {"initialize", "backup", "master"}]
           /\ mai' \in [Inst -> Nat]
           /\ timer' \in [Inst -> Nat]
           /\ wait' \in [Inst -> Nat]
           /\ lag' \in [Inst -> 0..(MaxWait + 1)]
BY AdvertIntervalType DEF Ends, TypeOK

\* Losing every thread of a machine leaves the loop's variables well typed.
LEMMA DiesType ==
    ASSUME TypeOK, NEW h \in Hosts, Dies(h)
    PROVE  /\ pc' \in [Inst -> {"off", "top", "recv"}]
           /\ st' \in [Inst -> {"initialize", "backup", "master"}]
           /\ pub' \in [Inst -> {"initialize", "backup", "master"}]
           /\ mai' \in [Inst -> Nat]
           /\ timer' \in [Inst -> Nat]
           /\ wait' \in [Inst -> Nat]
           /\ inbox' \in [Inst -> Seq(Messages)]
           /\ lag' \in [Inst -> 0..(MaxWait + 1)]
<1>1. pc' \in [Inst -> {"off", "top", "recv"}]
    BY DEF Dies, TypeOK
<1>2. /\ st' \in [Inst -> {"initialize", "backup", "master"}]
      /\ pub' \in [Inst -> {"initialize", "backup", "master"}]
    BY DEF Dies, TypeOK
<1>3. mai' \in [Inst -> Nat]
    BY AdvertIntervalType DEF Dies, TypeOK
<1>4. timer' \in [Inst -> Nat] /\ wait' \in [Inst -> Nat]
    BY DEF Dies, TypeOK
<1>5. inbox' \in [Inst -> Seq(Messages)]
    <2>1. <<>> \in Seq(Messages)
        OBVIOUS
    <2> QED BY <2>1 DEF Dies, TypeOK
<1>6. lag' \in [Inst -> 0..(MaxWait + 1)]
    BY DEF Dies, TypeOK
<1> QED BY <1>1, <1>2, <1>3, <1>4, <1>5, <1>6

\* Closing the socket empties the instance's own queue and no other.
LEMMA EmptiedType ==
    ASSUME NEW f \in [Inst -> Seq(Messages)], NEW i \in Inst
    PROVE  [f EXCEPT ![i] = <<>>] \in [Inst -> Seq(Messages)]
<1>1. <<>> \in Seq(Messages)
    OBVIOUS
<1> QED BY <1>1

\* Claiming and releasing (or neither) leave the addresses well typed.
LEMMA HeldType ==
    ASSUME TypeOK, NEW h \in Hosts, Claim(h) \/ Release(h) \/ UNCHANGED held
    PROVE  held' \in [Hosts -> BOOLEAN]
BY DEF Claim, Release, TypeOK

\* The clamp of the read timeout: never longer than MaxWait (500 ms).
LEMMA ReadTimeoutType == \A t \in Nat : ReadTimeout(t) \in Nat /\ ReadTimeout(t) <= MaxWait
BY DEF ReadTimeout, Lesser, Greater

\* Type correctness of every behaviour of the loop and its environment.
THEOREM TypeCorrect == Spec => []TypeOK
<1>1. Init => TypeOK
    BY AdvertIntervalType DEF Init, TypeOK
<1>2. TypeOK /\ [Next]_vars => TypeOK'
    <2> SUFFICES ASSUME TypeOK, [Next]_vars PROVE TypeOK'
        OBVIOUS
    <2>1. ASSUME NEW i \in Inst, Start(i) PROVE TypeOK'
        <3>1. StartState(i) \in {"backup", "master"}
            BY DEF StartState
        <3>2. held' \in [Hosts -> BOOLEAN]
            BY <2>1, HeldType DEF Start
        <3>3. timer' \in [Inst -> Nat] /\ mai' \in [Inst -> Nat]
            BY <2>1, AdvertIntervalType, MasterDownType DEF Start, TypeOK
        <3>4. /\ pc' \in [Inst -> {"off", "top", "recv"}]
              /\ st' \in [Inst -> {"initialize", "backup", "master"}]
              /\ pub' \in [Inst -> {"initialize", "backup", "master"}]
            BY <2>1, <3>1 DEF Start, TypeOK
        <3>5. /\ stop' \in [Inst -> BOOLEAN]
              /\ calm' \in 0..Settle /\ dual' \in 0..Settle
              /\ lag' \in [Inst -> 0..(MaxWait + 1)]
            BY <2>1 DEF Start, TypeOK
        <3> QED BY <2>1, <3>2, <3>3, <3>4, <3>5 DEF Start, TypeOK
    <2>2. ASSUME NEW i \in Inst, StopSeen(i) PROVE TypeOK'
        <3>1. Delivered(i, 0) \in [Inst -> Seq(Messages)]
            BY ResignationType
        <3>2. inbox' \in [Inst -> Seq(Messages)]
            <4>1. inbox \in [Inst -> Seq(Messages)]
                BY DEF TypeOK
            <4>2. \/ inbox' = [Delivered(i, 0) EXCEPT ![i] = <<>>]
                  \/ inbox' = [inbox EXCEPT ![i] = <<>>]
                BY <2>2 DEF StopSeen
            <4>3. [Delivered(i, 0) EXCEPT ![i] = <<>>] \in [Inst -> Seq(Messages)]
                BY <3>1, EmptiedType
            <4>4. [inbox EXCEPT ![i] = <<>>] \in [Inst -> Seq(Messages)]
                BY <4>1, EmptiedType
            <4> QED BY <4>2, <4>3, <4>4
        <3>3. held' \in [Hosts -> BOOLEAN]
            BY <2>2, HeldType DEF StopSeen
        <3>4. Ends(i)
            BY <2>2 DEF StopSeen
        <3> QED BY <2>2, <3>2, <3>3, <3>4, EndsType, SMTT(30) DEF StopSeen, envVars, TypeOK
    <2>3. ASSUME NEW i \in Inst, Resign(i) PROVE TypeOK'
        <3>1. Delivered(i, 0) \in [Inst -> Seq(Messages)]
            BY ResignationType
        <3>2. MasterDown(i, mai[i]) \in Nat
            BY MasterDownType DEF TypeOK
        <3>3. held' \in [Hosts -> BOOLEAN]
            BY <2>3, HeldType DEF Resign
        <3>4. ReadTimeout(MasterDown(i, mai[i])) \in Nat
            BY <3>2, ReadTimeoutType
        <3>5. /\ pc' \in [Inst -> {"off", "top", "recv"}]
              /\ st' \in [Inst -> {"initialize", "backup", "master"}]
              /\ pub' \in [Inst -> {"initialize", "backup", "master"}]
            BY <2>3 DEF Resign, TypeOK
        <3>6. timer' \in [Inst -> Nat] /\ wait' \in [Inst -> Nat]
            BY <2>3, <3>2, <3>4 DEF Resign, TypeOK
        <3>7. inbox' \in [Inst -> Seq(Messages)] /\ lag' \in [Inst -> 0..(MaxWait + 1)]
            BY <2>3, <3>1 DEF Resign, TypeOK
        <3> QED BY <2>3, <3>3, <3>5, <3>6, <3>7 DEF Resign, envVars, TypeOK
    <2>4. ASSUME NEW i \in Inst, Block(i) PROVE TypeOK'
        <3>1. ReadTimeout(timer[i]) \in Nat
            BY ReadTimeoutType DEF TypeOK
        <3> QED BY <2>4, <3>1 DEF Block, envVars, TypeOK
    <2>5. ASSUME NEW i \in Inst, RecvIgnored(i) PROVE TypeOK'
        BY <2>5, HeadType DEF RecvIgnored, Received, envVars, ghosts, TypeOK
    <2>6. ASSUME NEW i \in Inst, RecvResigned(i) PROVE TypeOK'
        BY <2>6, HeadType, SkewType DEF RecvResigned, Received, envVars, ghosts, TypeOK
    <2>7. ASSUME NEW i \in Inst, RecvMaster(i) PROVE TypeOK'
        BY <2>7, HeadType, MasterDownType DEF RecvMaster, Received, envVars, ghosts, TypeOK
    <2>8. ASSUME NEW i \in Inst, RecvPeerResigned(i) PROVE TypeOK'
        BY <2>8, HeadType DEF RecvPeerResigned, Received, envVars, ghosts, TypeOK
    <2>9. ASSUME NEW i \in Inst, RecvDemoted(i) PROVE TypeOK'
        BY <2>9, HeadType, HeldType, MasterDownType
        DEF RecvDemoted, Demote, Received, envVars, ghosts, TypeOK
    <2>10. ASSUME NEW i \in Inst, Advertise(i) PROVE TypeOK'
        <3>1. Delivered(i, Priority[i]) \in [Inst -> Seq(Messages)]
            <4>1. Priority[i] \in 0..255
                OBVIOUS
            <4> QED BY <4>1, DeliveredType
        <3> QED BY <2>10, <3>1, AdvertIntervalType
                DEF Advertise, TimedOut, envVars, ghosts, TypeOK
    <2>11. ASSUME NEW i \in Inst, TakeOver(i) PROVE TypeOK'
        BY <2>11, AdvertIntervalType, HeldType
        DEF TakeOver, BecomeMaster, TimedOut, envVars, ghosts, TypeOK
    <2>12. ASSUME NEW i \in Inst, NotFit(i) PROVE TypeOK'
        BY <2>12, MasterDownType DEF NotFit, TimedOut, envVars, ghosts, TypeOK
    <2>13. ASSUME NEW i \in Inst, Woken(i) PROVE TypeOK'
        BY <2>13 DEF Woken, TimedOut, envVars, ghosts, TypeOK
    <2>14. ASSUME NEW i \in Inst, Stop(i) PROVE TypeOK'
        BY <2>14 DEF Stop, Fault, loopVars, TypeOK
    <2>15. ASSUME NEW i \in Inst, RecvError(i) PROVE TypeOK'
        <3>1. Ends(i)
            BY <2>15 DEF RecvError
        <3>2. inbox' \in [Inst -> Seq(Messages)]
            BY <2>15, EmptiedType DEF RecvError, TypeOK
        <3>3. faults' \in 0..MaxFaults /\ calm' \in 0..Settle /\ dual' \in 0..Settle
            BY <2>15 DEF RecvError, Fault, TypeOK
        <3>4. UNCHANGED <<held, stop, healthy, cut>>
            BY <2>15 DEF RecvError
        <3> QED BY <3>1, <3>2, <3>3, <3>4, EndsType DEF TypeOK
    <2>16. ASSUME NEW i \in Inst, ForeignPacket(i) PROVE TypeOK'
        <3>1. Foreign \in Messages
            BY DEF Messages
        <3>2. inbox' \in [Inst -> Seq(Messages)]
            BY <2>16, <3>1 DEF ForeignPacket, TypeOK
        <3> QED BY <2>16, <3>2 DEF ForeignPacket, Fault, loopVars, TypeOK
    <2>17. ASSUME NEW h \in Hosts, HealthChange(h) PROVE TypeOK'
        BY <2>17 DEF HealthChange, Fault, loopVars, TypeOK
    <2>18. ASSUME NEW h \in Hosts, LinkChange(h) PROVE TypeOK'
        BY <2>18 DEF LinkChange, Fault, loopVars, TypeOK
    <2>19. ASSUME NEW h \in Hosts, Crash(h) PROVE TypeOK'
        <3>1. faults' \in 0..MaxFaults /\ calm' \in 0..Settle /\ dual' \in 0..Settle
            BY <2>19 DEF Crash, Fault, TypeOK
        <3> QED BY <2>19, <3>1, DiesType DEF Crash, TypeOK
    <2>20. ASSUME NEW h \in Hosts, Reboot(h) PROVE TypeOK'
        <3>1. faults' \in 0..MaxFaults /\ calm' \in 0..Settle /\ dual' \in 0..Settle
            BY <2>20 DEF Reboot, Fault, TypeOK
        <3>2. held' \in [Hosts -> BOOLEAN]
            BY <2>20 DEF Reboot, TypeOK
        <3> QED BY <2>20, <3>1, <3>2, DiesType DEF Reboot, TypeOK
    <2>21. CASE Tick
        BY <2>21 DEF Tick, Down1, Lesser, envVars, TypeOK
    <2>22. CASE UNCHANGED vars
        BY <2>22 DEF vars, loopVars, envVars, ghosts, TypeOK
    <2> QED
        BY <2>1, <2>2, <2>3, <2>4, <2>5, <2>6, <2>7, <2>8, <2>9, <2>10, <2>11, <2>12,
           <2>13, <2>14, <2>15, <2>16, <2>17, <2>18, <2>19, <2>20, <2>21, <2>22
        DEF Next, Loop
<1> QED BY <1>1, <1>2, PTL DEF Spec

-----------------------------------------------------------------------------
(* A stop or a lost pool is answered within one read timeout. *)

\* The time a blocked loop has left an event unanswered and the time until its
\* read ends add up to at most one read timeout.
AnsweredInv ==
    Timely => \A i \in Inst : /\ pc[i] = "off" => lag[i] = 0
                              /\ pc[i] = "recv" => lag[i] + wait[i] <= MaxWait
                              /\ lag[i] <= MaxWait

\* Every step keeps AnsweredInv: while a request goes unanswered, what has passed
\* and what is left of the read timeout stay within one MaxWait.
LEMMA AnsweredStep == TypeOK /\ AnsweredInv /\ [Next]_vars => AnsweredInv'
<1> SUFFICES ASSUME TypeOK, AnsweredInv, [Next]_vars, Timely
             PROVE  AnsweredInv'
    BY DEF AnsweredInv
<1>1. ASSUME NEW i \in Inst, Start(i) PROVE AnsweredInv'
    BY <1>1 DEF Start, AnsweredInv, TypeOK
<1>2. ASSUME NEW i \in Inst, Ends(i) PROVE AnsweredInv'
    BY <1>2 DEF Ends, AnsweredInv, TypeOK
<1>3. ASSUME NEW i \in Inst, Resign(i) PROVE AnsweredInv'
    <2>1. MasterDown(i, mai[i]) \in Nat
        BY MasterDownType DEF TypeOK
    <2>2. wait'[i] \in Nat /\ wait'[i] <= MaxWait
        BY <1>3, <2>1, ReadTimeoutType DEF Resign, TypeOK
    <2> QED BY <1>3, <2>2 DEF Resign, AnsweredInv, TypeOK
<1>4. ASSUME NEW i \in Inst, Block(i) PROVE AnsweredInv'
    <2>1. wait'[i] \in Nat /\ wait'[i] <= MaxWait
        BY <1>4, ReadTimeoutType DEF Block, TypeOK
    <2> QED BY <1>4, <2>1 DEF Block, AnsweredInv, TypeOK
<1>5. ASSUME NEW i \in Inst, Received(i) PROVE AnsweredInv'
    BY <1>5 DEF Received, ghosts, AnsweredInv, TypeOK
<1>6. ASSUME NEW i \in Inst, TimedOut(i) PROVE AnsweredInv'
    BY <1>6 DEF TimedOut, ghosts, AnsweredInv, TypeOK
<1>7. ASSUME UNCHANGED <<pc, wait, lag>> PROVE AnsweredInv'
    BY <1>7 DEF AnsweredInv
<1>8. ASSUME NEW h \in Hosts, Dies(h) PROVE AnsweredInv'
    BY <1>8 DEF Dies, AnsweredInv, TypeOK
<1>9. CASE Tick
    <2> SUFFICES ASSUME NEW i \in Inst
                 PROVE  /\ pc'[i] = "off" => lag'[i] = 0
                        /\ pc'[i] = "recv" => lag'[i] + wait'[i] <= MaxWait
                        /\ lag'[i] <= MaxWait
        BY DEF AnsweredInv
    <2>1. pc'[i] = pc[i] /\ Idle(i)
        BY <1>9 DEF Tick
    <2>2. CASE pc[i] = "off"
        BY <1>9, <2>1, <2>2 DEF Tick, Unanswered, TypeOK
    <2>3. CASE pc[i] = "recv"
        BY <1>9, <2>1, <2>3 DEF Tick, Idle, Down1, Lesser, AnsweredInv, TypeOK
    <2> QED BY <2>1, <2>2, <2>3 DEF Idle
<1>10. CASE UNCHANGED vars
    BY <1>7, <1>10 DEF vars, loopVars, ghosts
<1>11. ASSUME NEW i \in Inst, Loop(i) PROVE AnsweredInv'
    BY <1>2, <1>3, <1>4, <1>5, <1>6, <1>11
    DEF Loop, StopSeen, RecvIgnored, RecvResigned, RecvMaster, RecvPeerResigned,
        RecvDemoted, Advertise, TakeOver, BecomeMaster, NotFit, Woken
<1>12. ASSUME NEW i \in Inst, Stop(i) \/ RecvError(i) \/ ForeignPacket(i)
       PROVE  AnsweredInv'
    BY <1>2, <1>7, <1>12 DEF Stop, RecvError, ForeignPacket, loopVars
<1>13. ASSUME NEW h \in Hosts, HealthChange(h) \/ LinkChange(h) \/ Crash(h) \/ Reboot(h)
       PROVE  AnsweredInv'
    BY <1>7, <1>8, <1>13 DEF HealthChange, LinkChange, Crash, Reboot, loopVars
<1> QED BY <1>1, <1>9, <1>10, <1>11, <1>12, <1>13 DEF Next

\* vrrp.rs: a stop, or the loss of the last healthy backend, is acted on "within
\* about half a second", whatever packets arrive, if threads get to run.
THEOREM Answered == Spec => []AnsweredInTime
<1>1. Init => AnsweredInv
    BY DEF Init, AnsweredInv
<1>2. AnsweredInv => AnsweredInTime
    BY DEF AnsweredInv, AnsweredInTime
<1> QED BY <1>1, <1>2, TypeCorrect, AnsweredStep, PTL DEF Spec

-----------------------------------------------------------------------------
(* The address and the Master. *)

\* What an action does to the address when the process lives and releases work.
LEMMA ReleaseClears ==
    ASSUME TypeOK, NeverDies, NEW h \in Hosts, Release(h)
    PROVE  held' = [held EXCEPT ![h] = FALSE]
BY DEF Release, NeverDies

\* Netlink::claim puts the address on no machine but its own.
LEMMA ClaimOnlyHere ==
    ASSUME TypeOK, NEW h \in Hosts, Claim(h)
    PROVE  \A k \in Hosts : held'[k] => held[k] \/ k = h
BY DEF Claim, TypeOK

\* Only a running thread is Master.
MasterRuns == \A i \in Inst : st[i] = "master" => pc[i] # "off"

\* Every step keeps it: the thread that ends publishes Initialize.
LEMMA MasterRunsStep == TypeOK /\ MasterRuns /\ [Next]_vars => MasterRuns'
<1> SUFFICES ASSUME TypeOK, MasterRuns, [Next]_vars PROVE MasterRuns'
    OBVIOUS
<1>1. ASSUME NEW i \in Inst, Start(i) PROVE MasterRuns'
    BY <1>1 DEF Start, MasterRuns, TypeOK
<1>2. ASSUME NEW i \in Inst, Ends(i) PROVE MasterRuns'
    BY <1>2 DEF Ends, MasterRuns, TypeOK
\* A step of the loop other than its end leaves its own thread running.
<1>3. ASSUME NEW i \in Inst, pc' = [pc EXCEPT ![i] = "top"] \/ pc' = [pc EXCEPT ![i] = "recv"],
             \A j \in Inst \ {i} : st'[j] = st[j]
      PROVE  MasterRuns'
    BY <1>3 DEF MasterRuns, TypeOK
<1>4. ASSUME UNCHANGED <<pc, st>> PROVE MasterRuns'
    BY <1>4 DEF MasterRuns
<1>5. ASSUME NEW h \in Hosts, Dies(h) PROVE MasterRuns'
    BY <1>5 DEF Dies, MasterRuns, TypeOK
<1>6. ASSUME NEW i \in Inst, Loop(i) PROVE MasterRuns'
    <2>1. CASE StopSeen(i)
        BY <1>2, <2>1 DEF StopSeen
    <2>2. CASE ~StopSeen(i)
        <3>1. /\ pc' = [pc EXCEPT ![i] = "top"] \/ pc' = [pc EXCEPT ![i] = "recv"]
              /\ \/ UNCHANGED st
                 \/ st' = [st EXCEPT ![i] = "backup"]
                 \/ st' = [st EXCEPT ![i] = "master"]
            BY <1>6, <2>2
            DEF Loop, Resign, Block, Received, RecvIgnored, RecvResigned, RecvMaster,
                RecvPeerResigned, RecvDemoted, Demote, TimedOut, Advertise, TakeOver,
                BecomeMaster, NotFit, Woken
        <3>2. \A j \in Inst \ {i} : st'[j] = st[j]
            BY <3>1 DEF TypeOK
        <3> QED BY <1>3, <3>1, <3>2
    <2> QED BY <2>1, <2>2
<1> QED
    BY <1>1, <1>2, <1>4, <1>5, <1>6
    DEF Next, Stop, RecvError, ForeignPacket, HealthChange, LinkChange, Crash, Reboot,
        Tick, vars, loopVars

\* Every step keeps HolderIsMaster: each exit from Master in run_loop releases.
LEMMA HolderStep ==
    TypeOK /\ MasterRuns /\ HolderIsMaster /\ [Next]_vars => HolderIsMaster'
<1> SUFFICES ASSUME TypeOK, MasterRuns, HolderIsMaster, [Next]_vars, NeverDies,
                    NEW h \in Hosts, held'[h]
             PROVE  \E i \in Inst : HostOf[i] = h /\ st'[i] = "master"
    BY DEF HolderIsMaster
<1> DEFINE Goal == \E i \in Inst : HostOf[i] = h /\ st'[i] = "master"
\* The address was there: so was a Master.
<1>1. ASSUME held[h] PROVE \E i \in Inst : HostOf[i] = h /\ st[i] = "master"
    BY <1>1 DEF HolderIsMaster
\* No Master goes.
<1>2. ASSUME held[h], \A i \in Inst : st[i] = "master" => st'[i] = "master"
      PROVE  Goal
    BY <1>1, <1>2
\* Instance i steps down and releases.
<1>3. ASSUME NEW i \in Inst, Release(HostOf[i]),
             \A j \in Inst \ {i} : st'[j] = st[j]
      PROVE  Goal
    <2>1. held' = [held EXCEPT ![HostOf[i]] = FALSE]
        BY <1>3, ReleaseClears
    <2>2. h # HostOf[i] /\ held[h]
        BY <2>1 DEF TypeOK
    <2> QED BY <1>1, <1>3, <2>2
\* Instance i, not Master, ends.
<1>4. ASSUME NEW i \in Inst, st[i] # "master", UNCHANGED held,
             \A j \in Inst \ {i} : st'[j] = st[j]
      PROVE  Goal
    BY <1>1, <1>4
\* Instance i claims as Master.
<1>5. ASSUME NEW i \in Inst, Claim(HostOf[i]), st' = [st EXCEPT ![i] = "master"]
      PROVE  Goal
    BY <1>1, <1>5, ClaimOnlyHere DEF TypeOK
<1>6. ASSUME UNCHANGED <<st, held>> PROVE Goal
    BY <1>2, <1>6
<1>7. ASSUME NEW i \in Inst, Start(i) PROVE Goal
    <2>1. CASE StartState(i) = "master"
        BY <1>5, <1>7, <2>1 DEF Start
    <2>2. CASE StartState(i) # "master"
        <3>1. st[i] # "master"
            BY <1>7 DEF Start, MasterRuns
        <3>2. UNCHANGED held /\ \A j \in Inst \ {i} : st'[j] = st[j]
            BY <1>7, <2>2 DEF Start, TypeOK
        <3> QED BY <1>4, <3>1, <3>2
    <2> QED BY <2>1, <2>2
<1>8. ASSUME NEW i \in Inst, StopSeen(i) PROVE Goal
    <2>1. \A j \in Inst \ {i} : st'[j] = st[j]
        BY <1>8 DEF StopSeen, Ends, TypeOK
    <2> QED BY <1>3, <1>4, <1>8, <2>1 DEF StopSeen
<1>9. ASSUME NEW i \in Inst, Resign(i) \/ RecvDemoted(i) PROVE Goal
    <2>1. Release(HostOf[i]) /\ \A j \in Inst \ {i} : st'[j] = st[j]
        BY <1>9 DEF Resign, RecvDemoted, Demote, TypeOK
    <2> QED BY <1>3, <2>1
<1>10. ASSUME NEW i \in Inst, TakeOver(i) PROVE Goal
    BY <1>5, <1>10 DEF TakeOver, BecomeMaster
<1>11. ASSUME NEW i \in Inst, Loop(i) PROVE Goal
    BY <1>6, <1>8, <1>9, <1>10, <1>11
    DEF Loop, Block, RecvIgnored, RecvResigned, RecvMaster, RecvPeerResigned,
        Advertise, NotFit, Woken
<1>12. ASSUME NEW i \in Inst, Stop(i) \/ ForeignPacket(i) PROVE Goal
    BY <1>6, <1>12 DEF Stop, ForeignPacket, loopVars
<1>13. ASSUME NEW k \in Hosts, HealthChange(k) \/ LinkChange(k) PROVE Goal
    BY <1>6, <1>13 DEF HealthChange, LinkChange, loopVars
<1>14. ASSUME NEW k \in Hosts, Reboot(k) PROVE Goal
    <2>1. h # k /\ held[h]
        BY <1>14 DEF Reboot, TypeOK
    <2>2. \A i \in Inst : HostOf[i] = h => st'[i] = st[i]
        BY <1>14, <2>1 DEF Reboot, Dies
    <2> QED BY <1>1, <2>1, <2>2
<1>15. /\ \A i \in Inst : ~RecvError(i)
       /\ \A k \in Hosts : ~Crash(k)
    BY DEF NeverDies, RecvError, Crash, Fault
<1>16. CASE Tick
    BY <1>6, <1>16 DEF Tick
<1>17. CASE UNCHANGED vars
    BY <1>6, <1>17 DEF vars, loopVars
<1>18. ASSUME NEW i \in Inst,
              Start(i) \/ Loop(i) \/ Stop(i) \/ RecvError(i) \/ ForeignPacket(i)
       PROVE  Goal
    BY <1>7, <1>11, <1>12, <1>15, <1>18
<1>19. ASSUME NEW k \in Hosts, HealthChange(k) \/ LinkChange(k) \/ Crash(k) \/ Reboot(k)
       PROVE  Goal
    BY <1>13, <1>14, <1>15, <1>19
<1>20. CASE \E i \in Inst :
               Start(i) \/ Loop(i) \/ Stop(i) \/ RecvError(i) \/ ForeignPacket(i)
    BY <1>18, <1>20
<1>21. CASE \E k \in Hosts : HealthChange(k) \/ LinkChange(k) \/ Crash(k) \/ Reboot(k)
    BY <1>19, <1>21
<1> QED BY <1>16, <1>17, <1>20, <1>21 DEF Next

\* Only a running thread is ever Master.
LEMMA MasterRunsAlways == Spec => []MasterRuns
<1>1. Init => MasterRuns
    BY DEF Init, MasterRuns
<1> QED BY <1>1, TypeCorrect, MasterRunsStep, PTL DEF Spec

\* No way out of Master (stop, lost pool, demotion, reboot) leaves the address
\* behind, however many instances a machine runs, if the process never dies and
\* netlink releases.
THEOREM NoStrayAddress == Spec => []HolderIsMaster
<1>1. Init => HolderIsMaster
    BY DEF Init, HolderIsMaster
<1> QED BY <1>1, TypeCorrect, MasterRunsAlways, HolderStep, PTL DEF Spec

\* Every step keeps MasterHolds: becoming Master claims, and only the instance that
\* leaves Master releases.
LEMMA MasterHoldsStep ==
    TypeOK /\ MasterRuns /\ MasterHolds /\ [Next]_vars => MasterHolds'
<1> SUFFICES ASSUME TypeOK, MasterRuns, MasterHolds, [Next]_vars,
                    OneEach, "claim_fails" \notin FaultKinds,
                    NEW m \in Inst, st'[m] = "master"
             PROVE  held'[HostOf[m]]
    BY DEF MasterHolds, OneEach
<1>1. st[m] = "master" => held[HostOf[m]]
    BY DEF MasterHolds
<1>2. ASSUME NEW h \in Hosts, Claim(h) PROVE held' = [held EXCEPT ![h] = TRUE]
    BY <1>2 DEF Claim
\* A claim here, or one elsewhere while m was Master already.
<1>3. ASSUME NEW i \in Inst, Claim(HostOf[i]), i = m \/ st[m] = "master"
      PROVE  held'[HostOf[m]]
    <2>1. held' = [held EXCEPT ![HostOf[i]] = TRUE]
        BY <1>2, <1>3
    <2>2. CASE HostOf[i] = HostOf[m]
        BY <2>1, <2>2 DEF TypeOK
    <2>3. CASE HostOf[i] # HostOf[m]
        BY <1>1, <1>3, <2>1, <2>3 DEF TypeOK
    <2> QED BY <2>2, <2>3
\* A release by another instance is on another machine.
<1>4. ASSUME NEW i \in Inst, i # m, st[m] = "master",
             Release(HostOf[i]) \/ UNCHANGED held
      PROVE  held'[HostOf[m]]
    BY <1>1, <1>4 DEF Release, OneEach, TypeOK
<1>5. ASSUME st[m] = "master", UNCHANGED held PROVE held'[HostOf[m]]
    BY <1>1, <1>5
<1>6. ASSUME NEW i \in Inst, Start(i) PROVE held'[HostOf[m]]
    <2>1. CASE i = m
        BY <1>3, <1>6, <2>1 DEF Start, TypeOK
    <2>2. CASE i # m
        <3>1. st[m] = "master"
            BY <1>6, <2>2 DEF Start, TypeOK
        <3> QED BY <1>3, <1>5, <1>6, <3>1 DEF Start
    <2> QED BY <2>1, <2>2
<1>7. ASSUME NEW i \in Inst, StopSeen(i) \/ RecvError(i) PROVE held'[HostOf[m]]
    <2>1. st' = [st EXCEPT ![i] = "initialize"]
        BY <1>7 DEF StopSeen, RecvError, Ends
    <2>2. i # m /\ st[m] = "master"
        BY <2>1 DEF TypeOK
    <2> QED BY <1>4, <1>7, <2>2 DEF StopSeen, RecvError
<1>8. ASSUME NEW i \in Inst, Resign(i) \/ RecvDemoted(i) PROVE held'[HostOf[m]]
    <2>1. st' = [st EXCEPT ![i] = "backup"] /\ Release(HostOf[i])
        BY <1>8 DEF Resign, RecvDemoted, Demote
    <2>2. i # m /\ st[m] = "master"
        BY <2>1 DEF TypeOK
    <2> QED BY <1>4, <2>1, <2>2
<1>9. ASSUME NEW i \in Inst, TakeOver(i) PROVE held'[HostOf[m]]
    <2>1. st' = [st EXCEPT ![i] = "master"] /\ Claim(HostOf[i])
        BY <1>9 DEF TakeOver, BecomeMaster
    <2>2. i = m \/ st[m] = "master"
        BY <2>1 DEF TypeOK
    <2> QED BY <1>3, <2>1, <2>2
<1>10. ASSUME UNCHANGED <<st, held>> PROVE held'[HostOf[m]]
    BY <1>5, <1>10
<1>11. ASSUME NEW i \in Inst, Loop(i) PROVE held'[HostOf[m]]
    BY <1>7, <1>8, <1>9, <1>10, <1>11
    DEF Loop, Block, RecvIgnored, RecvResigned, RecvMaster, RecvPeerResigned,
        Advertise, NotFit, Woken
<1>12. ASSUME NEW k \in Hosts, Crash(k) \/ Reboot(k) PROVE held'[HostOf[m]]
    <2>1. Dies(k) /\ (UNCHANGED held \/ held' = [held EXCEPT ![k] = FALSE])
        BY <1>12 DEF Crash, Reboot
    <2>2. HostOf[m] # k /\ st[m] = "master"
        BY <2>1 DEF Dies
    <2> QED BY <1>1, <2>1, <2>2 DEF TypeOK
<1> QED
    BY <1>6, <1>7, <1>10, <1>11, <1>12
    DEF Next, Stop, ForeignPacket, HealthChange, LinkChange, Tick, vars, loopVars

\* A Master has the address on its machine, unless claiming fails or VRRP is
\* restarted under it: an instance releases only on leaving Master itself.
THEOREM MasterHasAddress == Spec => []MasterHolds
<1>1. Init => MasterHolds
    BY DEF Init, MasterHolds
<1> QED BY <1>1, TypeCorrect, MasterRunsAlways, MasterHoldsStep, PTL DEF Spec
=============================================================================
