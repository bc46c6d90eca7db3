-------------------------- MODULE ConnectionsProofs --------------------------
(* Theorems about the tasks of accepted connections, for every set of          *)
(* connections, listeners and hostnames.                                       *)
EXTENDS Connections, TLAPS

USE ConnectionsAssumption DEF ConnectionsAssumption

-----------------------------------------------------------------------------
(* The inductive invariant. *)

Phases == {"idle", "hello", "head", "routed", "pick", "verify", "write", "splice", "done"}

Tasks ==
    [pc : Phases, vip : BOOLEAN, tls : BOOLEAN, healthz : BOOLEAN, be : Kinds, ca : BOOLEAN,
     client : {"open", "half", "gone"}, back : {"none", "open", "ended", "gone"},
     up : {"copy", "blocked", "ended"},
     down : {"first", "copy", "blocked", "ended", "failed"}, told : BOOLEAN, n : 0..1,
     lost : BOOLEAN]

\* Type correctness.
TypeInv ==
    /\ table \in [Hosts -> Kinds] /\ trusted \in BOOLEAN /\ certified \in BOOLEAN
    /\ redirected \in BOOLEAN
    /\ conn \in [Conns -> Tasks]

\* What a task has counted is told by where it is: nothing before the first byte of
\* the response, one request of the router's after it.
Counted(t) ==
    /\ t.vip => t.pc \in {"pick", "splice", "done"}
    /\ t.pc = "pick" => t.vip
    /\ t.pc \in {"hello", "head", "routed", "verify", "write"} => t.n = 0
    /\ t.pc = "splice" => t.n = IF t.vip \/ t.down = "first" THEN 0 ELSE 1

TaskInv == \A c \in Conns : Counted(conn[c])

IInv == TypeInv /\ TaskInv /\ RedirectHolds

-----------------------------------------------------------------------------
(* One task. *)

LEMMA IdleTask == Idle \in Tasks /\ Counted(Idle)
BY DEF Idle, Tasks, Phases, Kinds, Counted

\* A step that leaves one task in a proper state keeps them all so.
LEMMA SetKeeps ==
    ASSUME TypeInv, TaskInv, NEW c \in Conns, NEW t \in Tasks, Counted(t),
           Set(c, t)
    PROVE  conn' \in [Conns -> Tasks] /\ TaskInv'
BY DEF TypeInv, TaskInv, Set

\* So does the end of a task whose count is in range.
LEMMA EndKeeps ==
    ASSUME TypeInv, TaskInv, NEW c \in Conns, NEW n \in 0..1, NEW lost \in BOOLEAN,
           End(c, n, lost)
    PROVE  conn' \in [Conns -> Tasks] /\ TaskInv'
<1> DEFINE t == [Idle EXCEPT !.pc = "done", !.vip = conn[c].vip, !.n = n, !.lost = lost,
                             !.told = TRUE]
<1>1. conn[c] \in Tasks
    BY DEF TypeInv
<1>2. t \in Tasks
    BY <1>1, IdleTask DEF Tasks, Phases
<1>3. Counted(t)
    BY <1>1 DEF Counted, Idle, Tasks
<1>4. Set(c, t)
    BY DEF End
<1> QED BY <1>2, <1>3, <1>4, SetKeeps

-----------------------------------------------------------------------------
(* Steps. *)

\* No step of a task touches Front.
LEMMA FrontKeeps ==
    ASSUME TypeInv, UNCHANGED front, redirected' \in BOOLEAN,
           conn' \in [Conns -> Tasks], TaskInv', redirected' => certified
    PROVE  IInv'
BY DEF IInv, TypeInv, front, RedirectHolds

\* Every step of a task and of its client and backend keeps the invariant.
LEMMA TaskStep ==
    ASSUME IInv, NEW c \in Conns, UNCHANGED front,
           \/ \E d \in Doors[c] : Accept(c, d)
           \/ Serve(c)
           \/ \E how \in {"half", "gone"} : ClientEnds(c, how)
           \/ \E how \in {"ended", "gone"} : BackendEnds(c, how)
           \/ BackendReads(c) \/ ClientReads(c)
    PROVE  IInv'
<1> DEFINE Good(t) == t \in Tasks /\ Counted(t)
           Keeps == conn' \in [Conns -> Tasks] /\ TaskInv'
           Goal  == Keeps /\ UNCHANGED redirected
<1>1. /\ TypeInv /\ TaskInv /\ RedirectHolds
      /\ conn[c] \in Tasks /\ Counted(conn[c])
    BY DEF IInv, TypeInv, TaskInv
<1>2. ASSUME NEW t, Good(t), Set(c, t) PROVE Keeps
    BY <1>1, <1>2, SetKeeps
<1>3. ASSUME NEW n \in 0..1, NEW l \in BOOLEAN, End(c, n, l) PROVE Keeps
    BY <1>1, <1>3, EndKeeps
<1>4. 0 \in 0..1 /\ 1 \in 0..1 /\ conn[c].n \in 0..1
    BY <1>1 DEF Tasks
<1>5. conn[c].pc \in {"head", "routed", "verify"} => conn[c].n + 1 \in 0..1
    BY <1>1 DEF Counted
<1>6. Splicing(c) /\ conn[c].down = "first" =>
          Recorded(c) \in 0..1 /\ Recorded(c) = IF conn[c].vip THEN 0 ELSE 1
    BY <1>1 DEF Counted, Splicing, Recorded
<1> HIDE DEF Keeps
<1>7. ASSUME NEW d \in Doors[c], Accept(c, d) PROVE Goal
    <2> DEFINE t == [Idle EXCEPT !.pc = IF d = "https" THEN "hello"
                                        ELSE IF d = "http" THEN "head" ELSE "pick",
                                 !.vip = (d = "l4"), !.tls = (d = "https")]
    <2>1. d \in {"http", "https", "l4"}
        BY <1>7
    <2>2. t \in Tasks
        BY <2>1, IdleTask DEF Tasks, Phases
    <2>3. Counted(t)
        BY <2>1 DEF Counted, Idle
    <2> QED BY <1>2, <1>7, <2>2, <2>3 DEF Accept, Stay
<1>8. ASSUME Handshake(c) PROVE Goal
    <2> DEFINE t == [conn[c] EXCEPT !.pc = "head"]
    <2>1. Good(t)
        BY <1>1, <1>8 DEF Handshake, Tasks, Phases, Counted
    <2> QED BY <1>2, <1>8, <2>1 DEF Handshake, Goto, Stay
<1>9. ASSUME NEW h \in Hosts, NEW z \in BOOLEAN, Lookup(c, h, z) PROVE Goal
    <2> DEFINE t == [conn[c] EXCEPT !.pc = "routed", !.healthz = z, !.be = table[h]]
    <2>1. Good(t)
        BY <1>1, <1>9 DEF Lookup, Tasks, Phases, Counted, TypeInv
    <2> QED BY <1>2, <1>9, <2>1 DEF Lookup, Stay
<1>10. ASSUME Dial(c) PROVE Goal
    <2> DEFINE t == [Idle EXCEPT !.pc = IF conn[c].vip THEN "splice"
                                        ELSE IF conn[c].be = "plain" THEN "write" ELSE "verify",
                                 !.vip = conn[c].vip, !.be = conn[c].be,
                                 !.ca = conn[c].be # "plain" /\ trusted,
                                 !.client = conn[c].client, !.back = "open"]
    <2>1. conn[c].vip \in BOOLEAN /\ trusted \in BOOLEAN /\ conn[c].be \in Kinds
        BY <1>1 DEF TypeInv, Tasks
    <2>2. t \in Tasks
        <3> DEFINE pc == IF conn[c].vip THEN "splice"
                         ELSE IF conn[c].be = "plain" THEN "write" ELSE "verify"
                   ca == conn[c].be # "plain" /\ trusted
        <3>1. pc \in Phases /\ ca \in BOOLEAN /\ conn[c].client \in {"open", "half", "gone"}
            BY <1>1, <2>1 DEF Phases, Tasks
        <3> HIDE DEF pc, ca
        <3>2. [Idle EXCEPT !.pc = pc, !.vip = conn[c].vip, !.be = conn[c].be, !.ca = ca,
                           !.client = conn[c].client, !.back = "open"] \in Tasks
            BY <2>1, <3>1, IdleTask DEF Tasks
        <3> QED BY <3>2 DEF pc, ca
    <2>3. Counted(t)
        BY <2>1 DEF Counted, Idle
    <2> QED BY <1>2, <1>10, <2>2, <2>3 DEF Dial, Stay
<1>11. ASSUME Verified(c) PROVE Goal
    <2> DEFINE t == [conn[c] EXCEPT !.pc = "write"]
    <2>1. Good(t)
        BY <1>1, <1>11 DEF Verified, Tasks, Phases, Counted, Trusted
    <2> QED BY <1>2, <1>11, <2>1 DEF Verified, Goto, Stay
<1>12. ASSUME WriteHead(c) PROVE Goal
    <2> DEFINE t == [Idle EXCEPT !.pc = "splice", !.vip = conn[c].vip,
                                 !.client = conn[c].client, !.back = conn[c].back]
    <2>1. t \in Tasks
        BY <1>1, IdleTask DEF Tasks, Phases
    <2>2. Counted(t)
        BY DEF Counted, Idle
    <2> QED BY <1>2, <1>12, <2>1, <2>2 DEF WriteHead, Stay
<1>13. ASSUME UpEnds(c) PROVE Goal
    <2> DEFINE t == [conn[c] EXCEPT !.up = "ended"]
    <2>1. Good(t)
        BY <1>1, <1>13 DEF UpEnds, Tasks, Phases, Counted
    <2> QED BY <1>2, <1>13, <2>1 DEF UpEnds, Stay
<1>14. ASSUME FirstBytes(c) PROVE Goal
    <2> DEFINE t == [conn[c] EXCEPT !.down = "copy", !.n = Recorded(c)]
    <2>1. Good(t)
        BY <1>1, <1>6, <1>14 DEF FirstBytes, Tasks, Phases, Counted, Splicing
    <2> QED BY <1>2, <1>14, <2>1 DEF FirstBytes, Stay
<1>15. ASSUME NoResponse(c) PROVE Goal
    <2> DEFINE t == [conn[c] EXCEPT !.down = "ended", !.told = TRUE, !.n = Recorded(c)]
    <2>1. Good(t)
        BY <1>1, <1>6, <1>15 DEF NoResponse, Tasks, Phases, Counted, Splicing
    <2> QED BY <1>2, <1>15, <2>1 DEF NoResponse, Stay
<1>16. ASSUME DownEnds(c) PROVE Goal
    <2> DEFINE t == [conn[c] EXCEPT !.down = "ended", !.told = TRUE]
    <2>1. Good(t)
        BY <1>1, <1>16 DEF DownEnds, Tasks, Phases, Counted, Splicing
    <2> QED BY <1>2, <1>16, <2>1 DEF DownEnds, Stay
<1>17. ASSUME UpFails(c) PROVE Goal
    <2> DEFINE t == [conn[c] EXCEPT !.up = "ended"]
    <2>1. CASE conn[c].vip
        BY <1>3, <1>4, <1>17, <2>1 DEF UpFails, Fails, Stay
    <2>2. CASE ~conn[c].vip
        <3>1. Good(t)
            BY <1>1, <1>17, <2>2 DEF UpFails, Splicing, Tasks, Counted
        <3> QED BY <1>2, <1>17, <2>2, <3>1 DEF UpFails, Fails, Stay
    <2> QED BY <2>1, <2>2
<1>18. ASSUME FirstFails(c) PROVE Goal
    <2> DEFINE t == [conn[c] EXCEPT !.down = "failed", !.n = Recorded(c)]
    <2>1. CASE conn[c].vip
        BY <1>3, <1>4, <1>18, <2>1 DEF FirstFails, Fails, Stay
    <2>2. CASE ~conn[c].vip
        <3>1. Good(t)
            BY <1>1, <1>6, <1>18, <2>2 DEF FirstFails, Splicing, Tasks, Counted
        <3> QED BY <1>2, <1>18, <2>2, <3>1 DEF FirstFails, Fails, Stay
    <2> QED BY <2>1, <2>2
<1>19. ASSUME DownFails(c) PROVE Goal
    <2> DEFINE t == [conn[c] EXCEPT !.down = "failed"]
    <2>1. CASE conn[c].vip
        BY <1>3, <1>4, <1>19, <2>1 DEF DownFails, Fails, Stay
    <2>2. CASE ~conn[c].vip
        <3>1. Good(t)
            BY <1>1, <1>19, <2>2 DEF DownFails, Splicing, Tasks, Counted
        <3> QED BY <1>2, <1>19, <2>2, <3>1 DEF DownFails, Fails, Stay
    <2> QED BY <2>1, <2>2
<1>20. ASSUME NEW how \in {"half", "gone"}, ClientEnds(c, how) PROVE Goal
    <2> DEFINE t == [conn[c] EXCEPT !.client = how]
    <2>1. Good(t)
        BY <1>1, <1>20 DEF ClientEnds, Tasks, Phases, Counted
    <2> QED BY <1>2, <1>20, <2>1 DEF ClientEnds, Stay
<1>21. ASSUME NEW how \in {"ended", "gone"}, BackendEnds(c, how) PROVE Goal
    <2> DEFINE t == [conn[c] EXCEPT !.back = how]
    <2>1. Good(t)
        BY <1>1, <1>21 DEF BackendEnds, Tasks, Phases, Counted
    <2> QED BY <1>2, <1>21, <2>1 DEF BackendEnds, Stay
<1>22. ASSUME HandshakeFails(c) \/ HeadEnds(c) \/ HeadTooLong(c) \/ NoBackend(c) PROVE Goal
    BY <1>3, <1>4, <1>5, <1>22 DEF HandshakeFails, HeadEnds, HeadTooLong, NoBackend, Stay
<1>23. ASSUME NoHost(c) \/ OwnAnswer(c) \/ VerifyFails(c) PROVE Goal
    BY <1>3, <1>4, <1>5, <1>23 DEF NoHost, OwnAnswer, VerifyFails, Answer, Stay
<1>24. ASSUME BadName(c) \/ WriteFails(c) \/ Joined(c) PROVE Goal
    BY <1>3, <1>4, <1>5, <1>24 DEF BadName, WriteFails, Joined, Stay
<1>25. ASSUME DialFails(c) PROVE Goal
    <2>1. CASE conn[c].vip
        BY <1>3, <1>4, <1>25, <2>1 DEF DialFails, Stay
    <2>2. CASE ~conn[c].vip
        <3>1. conn[c].pc = "routed"
            BY <1>1, <1>25, <2>2 DEF DialFails, Dialling, Counted
        <3> QED BY <1>3, <1>5, <1>25, <2>2, <3>1 DEF DialFails, Answer, Stay
    <2> QED BY <2>1, <2>2
<1>26. ASSUME Redirect(c) PROVE Keeps /\ redirected' \in BOOLEAN /\ (redirected' => certified)
    BY <1>3, <1>5, <1>26 DEF Redirect, ToHttps
<1>27. ASSUME UpBlocks(c) PROVE Goal
    <2> DEFINE t == [conn[c] EXCEPT !.up = "blocked"]
    <2>1. Good(t)
        BY <1>1, <1>27 DEF UpBlocks, Tasks, Phases, Counted
    <2> QED BY <1>2, <1>27, <2>1 DEF UpBlocks, Stay
<1>28. ASSUME BackendReads(c) PROVE Goal
    <2> DEFINE t == [conn[c] EXCEPT !.up = "copy"]
    <2>1. Good(t)
        BY <1>1, <1>28 DEF BackendReads, Tasks, Phases, Counted
    <2> QED BY <1>2, <1>28, <2>1 DEF BackendReads, Stay
<1>29. ASSUME DownBlocks(c) PROVE Goal
    <2> DEFINE t == [conn[c] EXCEPT !.down = "blocked"]
    <2>1. Good(t)
        BY <1>1, <1>29 DEF DownBlocks, Tasks, Phases, Counted, Splicing
    <2> QED BY <1>2, <1>29, <2>1 DEF DownBlocks, Stay
<1>30. ASSUME ClientReads(c) PROVE Goal
    <2> DEFINE t == [conn[c] EXCEPT !.down = "copy"]
    <2>1. Good(t)
        BY <1>1, <1>30 DEF ClientReads, Tasks, Phases, Counted, Splicing
    <2> QED BY <1>2, <1>30, <2>1 DEF ClientReads, Stay
<1>31. ASSUME Goal PROVE IInv'
    BY <1>1, <1>31, FrontKeeps DEF Keeps, TypeInv, RedirectHolds
<1>32. ASSUME Redirect(c) PROVE IInv'
    BY <1>1, <1>26, <1>32, FrontKeeps DEF Keeps
<1> HIDE DEF Goal
<1> QED
    BY <1>7, <1>8, <1>9, <1>10, <1>11, <1>12, <1>13, <1>14, <1>15, <1>16, <1>17, <1>18, <1>19,
       <1>20, <1>21, <1>22, <1>23, <1>24, <1>25, <1>27, <1>28, <1>29, <1>30,
       <1>31, <1>32 DEF Serve, Splice

\* The invariant holds always.
THEOREM Inductive == TaskSpec => []IInv
<1>1. Start => IInv
    BY IdleTask DEF Start, Init, IInv, TypeInv, TaskInv, RedirectHolds, Kinds
<1>2. IInv /\ [Step]_vars => IInv'
    <2> SUFFICES ASSUME IInv, [Step]_vars PROVE IInv'
        OBVIOUS
    <2>1. CASE Next /\ UNCHANGED <<redirected, conn>>
        BY <2>1 DEF Next, Swap, Trust, Certify, IInv, TypeInv, TaskInv, RedirectHolds
    <2>2. CASE UNCHANGED vars
        BY <2>2 DEF vars, front, IInv, TypeInv, TaskInv, RedirectHolds
    <2> QED BY <2>1, <2>2, TaskStep DEF Step
<1> QED BY <1>1, <1>2, PTL DEF TaskSpec

\* Every variable keeps its type: in particular a request is counted at most once,
\* and a task is always in one of the phases the code has.
THEOREM TypeCorrect == TaskSpec => []TypeInv
<1>1. IInv => TypeInv
    BY DEF IInv
<1> QED BY <1>1, Inductive, PTL

\* A client that was sent to https finds a certificate there (serve_conn, redirect_to).
THEOREM RedirectSafe == TaskSpec => []RedirectHolds
<1>1. IInv => RedirectHolds
    BY DEF IInv
<1> QED BY <1>1, Inductive, PTL

-----------------------------------------------------------------------------
(* The three kinds of steps a task takes, which is what the count rests on. *)

Counts == {"routed", "verify", "write", "splice"}

Only(c)    == conn' = [conn EXCEPT ![c] = conn'[c]]
Entered(c) == ~Live(c) /\ Live(c)'
Moved(c)   == Live(c) /\ Live(c)'
Left(c)    ==
    /\ Live(c) /\ conn'[c].pc = "done"
    /\ conn[c].pc \in Counts =>
           conn'[c].n = IF conn[c].vip \/ conn'[c].lost THEN 0 ELSE 1

LEMMA TaskShape ==
    ASSUME IInv, NEW c \in Conns,
           \/ \E d \in Doors[c] : Accept(c, d)
           \/ Serve(c)
           \/ \E how \in {"half", "gone"} : ClientEnds(c, how)
           \/ \E how \in {"ended", "gone"} : BackendEnds(c, how)
           \/ BackendReads(c) \/ ClientReads(c)
    PROVE  Only(c) /\ (Entered(c) \/ Moved(c) \/ Left(c))
<1> DEFINE Goal == Only(c) /\ (Entered(c) \/ Moved(c) \/ Left(c))
<1>1. conn \in [Conns -> Tasks] /\ conn[c] \in Tasks /\ Counted(conn[c])
    BY DEF IInv, TypeInv, TaskInv
<1>2. ASSUME NEW t, Set(c, t) PROVE Only(c) /\ conn'[c] = t
    BY <1>1, <1>2 DEF Set, Only
<1>3. ASSUME NEW n \in 0..1, NEW l \in BOOLEAN, End(c, n, l)
      PROVE  Only(c) /\ conn'[c].pc = "done" /\ conn'[c].n = n /\ conn'[c].lost = l
    <2> DEFINE t == [Idle EXCEPT !.pc = "done", !.vip = conn[c].vip, !.n = n, !.lost = l,
                                 !.told = TRUE]
    <2>1. Only(c) /\ conn'[c] = t
        BY <1>2, <1>3 DEF End
    <2>2. t.pc = "done" /\ t.n = n /\ t.lost = l
        BY DEF Idle
    <2> QED BY <2>1, <2>2
<1>4. ASSUME NEW t, Set(c, t), t.pc \notin {"idle", "done"}, Live(c)
      PROVE  Goal
    BY <1>2, <1>4 DEF Moved, Live
<1>5. /\ conn[c].pc \in {"head", "routed", "verify"} => conn[c].n + 1 = 1 /\ ~conn[c].vip
      /\ conn[c].pc \in {"verify", "write"} => conn[c].n = 0
      /\ Splicing(c) => conn[c].n = IF conn[c].vip \/ conn[c].down = "first" THEN 0 ELSE 1
      /\ conn[c].vip => conn[c].pc \in {"pick", "splice", "done"}
      /\ 0 \in 0..1 /\ 1 \in 0..1 /\ conn[c].n \in 0..1
    BY <1>1 DEF Counted, Splicing, Tasks
<1>6. ASSUME NEW d \in Doors[c], Accept(c, d) PROVE Goal
    <2>1. d \in {"http", "https", "l4"}
        BY <1>6
    <2> DEFINE t == [Idle EXCEPT !.pc = IF d = "https" THEN "hello"
                                        ELSE IF d = "http" THEN "head" ELSE "pick",
                                 !.vip = (d = "l4"), !.tls = (d = "https")]
    <2>2. Only(c) /\ conn'[c] = t /\ conn[c].pc = "idle"
        BY <1>2, <1>6 DEF Accept
    <2>3. t.pc \in {"hello", "head", "pick"}
        BY <2>1 DEF Idle
    <2> QED BY <2>2, <2>3 DEF Entered, Live
<1>7. ASSUME Handshake(c) PROVE Goal
    BY <1>1, <1>4, <1>7 DEF Handshake, Goto, Stay, Live, Tasks
<1>8. ASSUME NEW h \in Hosts, NEW z \in BOOLEAN, Lookup(c, h, z) PROVE Goal
    BY <1>1, <1>4, <1>8 DEF Lookup, Stay, Live, Tasks
<1>9. ASSUME Dial(c) PROVE Goal
    BY <1>4, <1>9 DEF Dial, Dialling, Stay, Live, Idle
<1>10. ASSUME Verified(c) PROVE Goal
    BY <1>1, <1>4, <1>10 DEF Verified, Goto, Stay, Live, Tasks
<1>11. ASSUME WriteHead(c) PROVE Goal
    BY <1>4, <1>11 DEF WriteHead, Stay, Live, Idle
<1>12. ASSUME UpEnds(c) \/ FirstBytes(c) \/ NoResponse(c) \/ DownEnds(c) PROVE Goal
    BY <1>1, <1>4, <1>12 DEF UpEnds, FirstBytes, NoResponse, DownEnds, Splicing, Stay, Live, Tasks
<1>13. ASSUME NEW how \in {"half", "gone"}, ClientEnds(c, how) PROVE Goal
    BY <1>1, <1>4, <1>13 DEF ClientEnds, Stay, Live, Tasks
<1>14. ASSUME NEW how \in {"ended", "gone"}, BackendEnds(c, how) PROVE Goal
    BY <1>1, <1>4, <1>14 DEF BackendEnds, Stay, Live, Tasks
<1>15. ASSUME HandshakeFails(c) \/ HeadEnds(c) \/ HeadTooLong(c) \/ NoBackend(c) PROVE Goal
    BY <1>3, <1>5, <1>15 DEF HandshakeFails, HeadEnds, HeadTooLong, NoBackend, Left, Live, Counts
<1>16. ASSUME NoHost(c) \/ OwnAnswer(c) \/ VerifyFails(c) \/ Redirect(c) PROVE Goal
    BY <1>3, <1>5, <1>16 DEF NoHost, OwnAnswer, VerifyFails, Redirect, Answer, Left, Live, Counts
<1>17. ASSUME BadName(c) \/ WriteFails(c) PROVE Goal
    BY <1>3, <1>5, <1>17 DEF BadName, WriteFails, Left, Live, Counts
<1>18. ASSUME Joined(c) PROVE Goal
    BY <1>3, <1>5, <1>18 DEF Joined, Splicing, Left, Live, Counts
<1>19. ASSUME DialFails(c) PROVE Goal
    <2>1. CASE conn[c].vip
        BY <1>3, <1>5, <1>19, <2>1 DEF DialFails, Dialling, Left, Live, Counts
    <2>2. CASE ~conn[c].vip
        <3>1. conn[c].pc = "routed"
            BY <1>1, <1>19, <2>2 DEF DialFails, Dialling, Counted
        <3> QED BY <1>3, <1>5, <1>19, <2>2, <3>1 DEF DialFails, Answer, Left, Live, Counts
    <2> QED BY <2>1, <2>2
<1>20. ASSUME UpFails(c) \/ FirstFails(c) \/ DownFails(c) PROVE Goal
    <2>1. CASE conn[c].vip
        BY <1>3, <1>5, <1>20, <2>1 DEF UpFails, FirstFails, DownFails, Fails, Splicing, Left, Live
    <2>2. CASE ~conn[c].vip
        BY <1>1, <1>4, <1>20, <2>2
           DEF UpFails, FirstFails, DownFails, Fails, Splicing, Stay, Live, Tasks
    <2> QED BY <2>1, <2>2
<1>21. ASSUME UpBlocks(c) \/ DownBlocks(c) \/ BackendReads(c) \/ ClientReads(c) PROVE Goal
    BY <1>1, <1>4, <1>21
       DEF UpBlocks, DownBlocks, BackendReads, ClientReads, Splicing, Stay, Live, Tasks
<1> HIDE DEF Goal
<1> SUFFICES Goal
    BY DEF Goal
<1> QED
    BY <1>6, <1>7, <1>8, <1>9, <1>10, <1>11, <1>12, <1>13, <1>14, <1>15, <1>16, <1>17, <1>18,
       <1>19, <1>20, <1>21 DEF Serve, Splice

\* requests_total counts a looked-up request once by the end of its connection: no
\* branch, direction or failure counts it twice or, but for a head that could not be
\* passed on, not at all (serve_conn, forward, splice).
THEOREM RequestsCountedOnce == TaskSpec => CountedOnce
<1> DEFINE A == \A c \in Conns :
                    conn[c].pc \in Counts /\ conn'[c].pc = "done"
                    => conn'[c].n = IF conn[c].vip \/ conn'[c].lost THEN 0 ELSE 1
<1>1. IInv /\ [Step]_vars => A
    <2> SUFFICES ASSUME IInv, [Step]_vars PROVE A
        OBVIOUS
    <2>1. conn \in [Conns -> Tasks]
        BY DEF IInv, TypeInv
    <2>2. CASE UNCHANGED conn
        BY <2>2 DEF Counts
    <2>3. ASSUME NEW d \in Conns, Only(d), Entered(d) \/ Moved(d) \/ Left(d) PROVE A
        <3>1. \A c \in Conns \ {d} : conn'[c] = conn[c]
            BY <2>1, <2>3 DEF Only
        <3>2. conn[d].pc \in Counts /\ conn'[d].pc = "done" => Left(d)
            BY <2>3 DEF Entered, Moved, Live, Counts
        <3> QED BY <3>1, <3>2 DEF Left, Counts
    <2> HIDE DEF A
    <2> QED BY <2>2, <2>3, TaskShape DEF Step, vars
<1>2. IInv /\ [Step]_vars => [A]_vars
    BY <1>1
<1> QED BY <1>2, Inductive, PTL DEF TaskSpec, CountedOnce, Counts

=============================================================================
