---------------------------- MODULE Connections ----------------------------
(***************************************************************************)
(* The tasks of accepted connections: the L7 router's (router.rs serve_on, *)
(* serve_tls_on, serve_conn, forward, splice) above a Front that changes,  *)
(* and the L4 balancer's (balancer.rs serve_vip, proxy).                   *)
(*                                                                         *)
(* A request is its Host and whether it asks for /healthz.  Of the bytes   *)
(* copied only the first of a response and the ends of the two directions  *)
(* are kept: a client or a backend ends its stream cleanly ("half",        *)
(* "ended") or is gone, which the other side sees as an error; while it    *)
(* does not read, the copy towards it is "blocked".                        *)
(***************************************************************************)
EXTENDS Front, Naturals

CONSTANTS
    Conns,    \* connections, each accepted once
    Doors     \* per connection: the listeners it may come in by

ASSUME ConnectionsAssumption ==
    \A c \in Conns : Doors[c] \subseteq {"http", "https", "l4"}

VARIABLES
    redirected, \* ghost: some client was sent to https
    conn        \* per task

front == <<table, trusted, certified>>
vars  == <<front, redirected, conn>>

Idle ==
    [pc |-> "idle", vip |-> FALSE, tls |-> FALSE, healthz |-> FALSE, be |-> "none",
     ca |-> FALSE,
     client |-> "open", back |-> "none", up |-> "copy", down |-> "first",
     told |-> FALSE,    \* the client was sent the end of its stream
     n |-> 0,           \* times the request was counted in requests_total
     lost |-> FALSE]    \* ended after its head without a count

-----------------------------------------------------------------------------
(* Steps of a task. *)

Set(c, rec) == conn' = [conn EXCEPT ![c] = rec]
Goto(c, pc) == Set(c, [conn[c] EXCEPT !.pc = pc])

\* Every step but a redirect leaves the ghost alone.
Stay == UNCHANGED redirected

\* The task returns, its request counted n times so far: its sockets close.
End(c, n, lost) ==
    Set(c, [Idle EXCEPT !.pc = "done", !.vip = conn[c].vip, !.n = n, !.lost = lost,
                        !.told = TRUE])

\* It returns with one more request counted.
Answer(c) == End(c, conn[c].n + 1, FALSE) /\ Stay

\* Accepted: a task of its own.
Accept(c, door) ==
    /\ conn[c].pc = "idle"
    /\ Set(c, [Idle EXCEPT !.pc = IF door = "https" THEN "hello"
                                  ELSE IF door = "http" THEN "head" ELSE "pick",
                           !.vip = (door = "l4"), !.tls = (door = "https")])
    /\ Stay

\* The handshake needs a certificate to serve.
Handshake(c) ==
    /\ conn[c].pc = "hello" /\ certified
    /\ Goto(c, "head") /\ Stay

\* It fails, or takes longer than ten seconds.
HandshakeFails(c) ==
    /\ conn[c].pc = "hello"
    /\ End(c, 0, FALSE) /\ Stay

\* The client leaves before the end of its head.
HeadEnds(c) ==
    /\ conn[c].pc = "head" /\ conn[c].client # "open"
    /\ End(c, 0, FALSE) /\ Stay

\* 16 KiB without an end.
HeadTooLong(c) ==
    /\ conn[c].pc = "head"
    /\ End(c, 0, FALSE) /\ Stay

\* A head without a Host: 400.
NoHost(c) ==
    /\ conn[c].pc = "head"
    /\ Answer(c)

\* The head is read and its Host looked up.
Lookup(c, h, healthz) ==
    /\ conn[c].pc = "head"
    /\ Set(c, [conn[c] EXCEPT !.pc = "routed", !.healthz = healthz, !.be = table[h]])
    /\ Stay

\* Mutant: sent to https before there is a certificate.
ToHttpsEarly(c) == ~conn[c].tls /\ ~conn[c].healthz

\* Plain HTTP goes to https once a certificate is loaded, but not the probe.
ToHttps(c) == ~conn[c].tls /\ certified /\ ~conn[c].healthz

Redirect(c) ==
    /\ conn[c].pc = "routed" /\ ToHttps(c)
    /\ End(c, conn[c].n + 1, FALSE)
    /\ redirected' = TRUE

\* No route: 200 for /healthz, else 404.
OwnAnswer(c) ==
    /\ conn[c].pc = "routed" /\ ~ToHttps(c) /\ conn[c].be = "none"
    /\ Answer(c)

\* serve_vip: pick finds no healthy backend (which of the two, Backends tells), and
\* the connection is dropped.
NoBackend(c) ==
    /\ conn[c].pc = "pick"
    /\ End(c, 0, FALSE) /\ Stay

Dialling(c) ==
    \/ conn[c].pc = "routed" /\ ~ToHttps(c) /\ conn[c].be # "none"
    \/ conn[c].pc = "pick"

\* Dialled: in the clear, or TLS with the connector there is now.
Dial(c) ==
    /\ Dialling(c)
    /\ Set(c, [Idle EXCEPT !.pc = IF conn[c].vip THEN "splice"
                                  ELSE IF conn[c].be = "plain" THEN "write" ELSE "verify",
                           !.vip = conn[c].vip, !.be = conn[c].be,
                           !.ca = conn[c].be # "plain" /\ trusted,
                           !.client = conn[c].client, !.back = "open"])
    /\ Stay

DialFails(c) ==
    /\ Dialling(c)
    /\ IF conn[c].vip THEN End(c, 0, FALSE) /\ Stay ELSE Answer(c)

\* The server name of the route is none: `?` returns before `fail`.
BadName(c) ==
    /\ conn[c].pc = "verify" /\ conn[c].ca /\ conn[c].be = "misnamed"
    /\ End(c, conn[c].n, TRUE) /\ Stay

\* There is a connector, and the name is one.
Trusted(c) == conn[c].ca /\ conn[c].be = "https"

Verified(c) ==
    /\ conn[c].pc = "verify" /\ Trusted(c) /\ conn[c].back = "open"
    /\ Goto(c, "write") /\ Stay

\* No CA, another CA's certificate, a wrong name, a timeout.
VerifyFails(c) ==
    /\ conn[c].pc = "verify" /\ (conn[c].ca => conn[c].be = "https")
    /\ Answer(c)

\* forward
WriteHead(c) ==
    /\ conn[c].pc = "write" /\ conn[c].back # "gone"
    /\ Set(c, [Idle EXCEPT !.pc = "splice", !.vip = conn[c].vip,
                           !.client = conn[c].client, !.back = conn[c].back])
    /\ Stay

WriteFails(c) ==
    /\ conn[c].pc = "write" /\ conn[c].back # "open"
    /\ End(c, conn[c].n, TRUE) /\ Stay

-----------------------------------------------------------------------------
(* splice, and copy_bidirectional (external) for proxy. *)

Splicing(c) == conn[c].pc = "splice"

\* Mutant: the end of the client's stream is kept from the backend.
UpEndsQuiet(c) ==
    /\ Splicing(c) /\ conn[c].up = "copy" /\ conn[c].client # "open"
    /\ Set(c, [conn[c] EXCEPT !.up = "quiet"]) /\ Stay

\* The client's stream ends, and the backend's write half is shut down.
UpEnds(c) ==
    /\ Splicing(c) /\ conn[c].up = "copy" /\ conn[c].client # "open"
    /\ Set(c, [conn[c] EXCEPT !.up = "ended"]) /\ Stay

\* The backend does not read, and the copy waits with what the client has sent.
UpBlocks(c) ==
    /\ Splicing(c) /\ conn[c].up = "copy" /\ conn[c].client = "open"
    /\ Set(c, [conn[c] EXCEPT !.up = "blocked"]) /\ Stay

\* A direction fails.  For proxy that is the end; splice leaves the other
\* direction alone.
Fails(c, rec) ==
    IF conn[c].vip THEN End(c, 0, FALSE) /\ Stay
    ELSE Set(c, rec) /\ Stay

\* A read from the client fails, or a write to the backend.
UpFails(c) ==
    /\ Splicing(c) /\ conn[c].up \in {"copy", "blocked"}
    /\ conn[c].client = "gone" \/ conn[c].back # "open"
    /\ Fails(c, [conn[c] EXCEPT !.up = "ended"])

\* record_first: splice counts the request with the backend's first bytes.
Recorded(c) == IF conn[c].vip THEN 0 ELSE conn[c].n + 1

FirstBytes(c) ==
    /\ Splicing(c) /\ conn[c].down = "first" /\ conn[c].back # "gone"
    /\ Set(c, [conn[c] EXCEPT !.down = "copy", !.n = Recorded(c)]) /\ Stay

\* Mutant: only a response is counted.
NoResponseUncounted(c) ==
    /\ Splicing(c) /\ conn[c].down = "first" /\ conn[c].back = "ended"
    /\ Set(c, [conn[c] EXCEPT !.down = "ended", !.told = TRUE]) /\ Stay

\* The backend ends before a byte: counted as an error, the client's half shut down.
NoResponse(c) ==
    /\ Splicing(c) /\ conn[c].down = "first" /\ conn[c].back = "ended"
    /\ Set(c, [conn[c] EXCEPT !.down = "ended", !.told = TRUE, !.n = Recorded(c)]) /\ Stay

\* It fails before a byte: counted, but the client is not told.
FirstFails(c) ==
    /\ Splicing(c) /\ conn[c].down = "first" /\ conn[c].back = "gone"
    /\ Fails(c, [conn[c] EXCEPT !.down = "failed", !.n = Recorded(c)])

\* Mutant: the client's half is left open.
DownEndsQuiet(c) ==
    /\ Splicing(c) /\ conn[c].down = "copy" /\ conn[c].back = "ended"
    /\ Set(c, [conn[c] EXCEPT !.down = "ended"]) /\ Stay

\* Mutant: the end of the response is counted too.
DownEndsCounted(c) ==
    /\ Splicing(c) /\ conn[c].down = "copy" /\ conn[c].back = "ended"
    /\ Set(c, [conn[c] EXCEPT !.down = "ended", !.told = TRUE, !.n = @ + 1]) /\ Stay

\* The response ends, and the client's half is shut down.
DownEnds(c) ==
    /\ Splicing(c) /\ conn[c].down = "copy" /\ conn[c].back = "ended"
    /\ Set(c, [conn[c] EXCEPT !.down = "ended", !.told = TRUE]) /\ Stay

\* The client does not read, and the copy waits with what the backend has sent.
DownBlocks(c) ==
    /\ Splicing(c) /\ conn[c].down = "copy" /\ conn[c].back = "open"
    /\ Set(c, [conn[c] EXCEPT !.down = "blocked"]) /\ Stay

\* A read from the backend fails, or a write to the client.
DownFails(c) ==
    /\ Splicing(c) /\ conn[c].down \in {"copy", "blocked"}
    /\ conn[c].back = "gone" \/ conn[c].client = "gone"
    /\ Fails(c, [conn[c] EXCEPT !.down = "failed"])

\* join!: both directions have ended.
Joined(c) ==
    /\ Splicing(c) /\ conn[c].up \notin {"copy", "blocked"}
    /\ conn[c].down \in {"ended", "failed"}
    /\ End(c, conn[c].n, FALSE) /\ Stay

Splice(c) ==
    \/ UpEnds(c) \/ UpBlocks(c) \/ UpFails(c) \/ FirstBytes(c) \/ NoResponse(c)
    \/ FirstFails(c) \/ DownEnds(c) \/ DownBlocks(c) \/ DownFails(c) \/ Joined(c)

Serve(c) ==
    \/ Handshake(c) \/ HandshakeFails(c) \/ HeadEnds(c) \/ HeadTooLong(c) \/ NoHost(c)
    \/ \E h \in Hosts, z \in BOOLEAN : Lookup(c, h, z)
    \/ Redirect(c) \/ OwnAnswer(c) \/ NoBackend(c) \/ Dial(c) \/ DialFails(c)
    \/ BadName(c) \/ Verified(c) \/ VerifyFails(c) \/ WriteHead(c) \/ WriteFails(c)
    \/ Splice(c)

-----------------------------------------------------------------------------
(* Clients and backends (external). *)

Live(c) == conn[c].pc \notin {"idle", "done"}

\* A client ends its half of the stream, or goes away.
ClientEnds(c, how) ==
    /\ Live(c) /\ conn[c].client # "gone" /\ conn[c].client # how
    /\ Set(c, [conn[c] EXCEPT !.client = how]) /\ Stay

\* So does a backend.
BackendEnds(c, how) ==
    /\ Live(c) /\ conn[c].back \notin {"none", "gone"} /\ conn[c].back # how
    /\ Set(c, [conn[c] EXCEPT !.back = how]) /\ Stay

\* A backend that has read the end of the request ends its own stream.
BackendFollows(c) == conn[c].up = "ended" /\ BackendEnds(c, "ended")

\* A backend reads on, and takes what the copy waits with.
BackendReads(c) ==
    /\ Splicing(c) /\ conn[c].up = "blocked" /\ conn[c].back # "gone"
    /\ Set(c, [conn[c] EXCEPT !.up = "copy"]) /\ Stay

\* So does a client.
ClientReads(c) ==
    /\ Splicing(c) /\ conn[c].down = "blocked" /\ conn[c].client # "gone"
    /\ Set(c, [conn[c] EXCEPT !.down = "copy"]) /\ Stay

Start ==
    /\ Init
    /\ redirected = FALSE
    /\ conn = [c \in Conns |-> Idle]

Step ==
    \/ \E c \in Conns :
           /\ \/ \E d \in Doors[c] : Accept(c, d)
              \/ Serve(c)
              \/ \E how \in {"half", "gone"} : ClientEnds(c, how)
              \/ \E how \in {"ended", "gone"} : BackendEnds(c, how)
              \/ BackendReads(c) \/ ClientReads(c)
           /\ UNCHANGED front
    \/ Next /\ UNCHANGED <<redirected, conn>>

\* What happens by itself: a timeout, an answer of connect, and whatever the ends
\* of a stream make readable.  A client need not send anything, a backend neither.
Due(c) ==
    \/ HandshakeFails(c) \/ HeadEnds(c) \/ Redirect(c) \/ OwnAnswer(c) \/ NoBackend(c)
    \/ Dial(c) \/ DialFails(c) \/ BadName(c) \/ VerifyFails(c) \/ WriteHead(c) \/ WriteFails(c)
    \/ UpEnds(c) \/ (conn[c].back = "ended" /\ (NoResponse(c) \/ DownEnds(c)))
    \/ (conn[c].back = "gone" /\ FirstFails(c))
    \/ (conn[c].back = "gone" /\ conn[c].down = "copy" /\ DownFails(c))
    \/ (conn[c].back = "gone" /\ conn[c].up = "blocked" /\ UpFails(c))
    \/ (conn[c].client = "gone" /\ conn[c].down = "blocked" /\ DownFails(c))
    \/ Joined(c)

TaskSpec == Start /\ [][Step]_vars

\* Tasks are scheduled; who is there reads what is sent, and a backend answers the
\* end of a request with its own.
FairSpec ==
    /\ TaskSpec
    /\ \A c \in Conns :
           /\ WF_vars(Due(c) /\ UNCHANGED front)
           /\ WF_vars(BackendFollows(c) /\ UNCHANGED front)
           /\ WF_vars(BackendReads(c) /\ UNCHANGED front)
           /\ WF_vars(ClientReads(c) /\ UNCHANGED front)

-----------------------------------------------------------------------------
(* Properties. *)

\* README: requests_total counts "the first of each connection": a request whose
\* Host was looked up is counted once by the end of its connection, whichever
\* branch, direction or failure ends it, unless its head could not be passed on.
CountedOnce ==
    [][\A c \in Conns :
           conn[c].pc \in {"routed", "verify", "write", "splice"} /\ conn'[c].pc = "done"
           => conn'[c].n = IF conn[c].vip \/ conn'[c].lost THEN 0 ELSE 1]_vars

\* A client that was sent to https finds a certificate there, whatever becomes of
\* the files.
RedirectHolds == redirected => certified

\* Nobody's task stays for ever: once the client has gone, in whatever phase, the
\* task ends, even if the backend would wait for more, and a VIP's task also when
\* its backend fails in mid-stream (the router's then waits for its client).
TaskEnds ==
    \A c \in Conns :
        /\ Live(c)
        /\ \/ conn[c].client = "gone"
           \/ Splicing(c) /\ conn[c].vip /\ conn[c].back = "gone"
              /\ conn[c].down # "ended"
        ~> conn[c].pc = "done"

\* A client that waits sees the end of a response that ended, while its own half is
\* still open.
ResponseEnds ==
    \A c \in Conns :
        (Splicing(c) /\ conn[c].back = "ended") ~>
            (conn[c].told \/ conn[c].client = "gone" \/ conn[c].back = "gone")
=============================================================================
