----------------------------- MODULE Algorithms -----------------------------
(***************************************************************************)
(* The program's pure functions, each on every input of a small set and    *)
(* against a reference definition: the wire formats of VRRP, BGP and       *)
(* rtnetlink, request heads, specs and API requests, listeners, metrics,   *)
(* and the choice of a backend.                                            *)
(*                                                                         *)
(* A job is one input; its one step is the call.  The inputs are made the  *)
(* way the other side makes them: a sender, the kernel, a client.          *)
(***************************************************************************)
EXTENDS FiniteSets, VrrpPacket, BgpMessages, Netlink, HttpHead, Series, Pool,
        VipSpecs, ApiRequest, Listeners

CONSTANTS
    MaxMembers,  \* pool sizes tried
    Width,       \* values of the counter `next` (2^64 in the code)
    MaxLines,    \* header lines of a head
    MaxLinks     \* interfaces in a dump

ASSUME AlgorithmsAssumption ==
    {MaxMembers, Width, MaxLines, MaxLinks} \subseteq Nat \ {0}

VARIABLES
    job,     \* the input
    result   \* None, or the call's result

vars == <<job, result>>

Returns(v) == result = None /\ result' = Some(v) /\ UNCHANGED job
Done(call) == job.call = call /\ result # None

-----------------------------------------------------------------------------
(* VRRP: an advertisement, the IP header it travels under, and what happens   *)
(* to it: a byte changed, the last one lost, a hop taken.                     *)

Src == <<10, 0, 0, 5>>

Adverts ==
    [vrid : {51}, priority : {0, 200, 255}, interval : {100, 4095}, src : {Src},
     vips : {<<<<10, 0, 0, 9>>>>, <<<<255, 255, 0, 0>>, <<0, 0, 255, 255>>>>}]

VrrpJobs ==
    {j \in [call : {"parse_advertisement"}, advert : Adverts, options : {0, 4},
            ttl : {255, 254}, vrid : {51, 52}, hit : {0} \cup 13..16 \cup 21..40,
            by : {1, 128, 255}, cut : {0, 1}] : j.hit = 0 \/ j.cut = 0}

IpHeader(j) ==
    <<69 + j.options \div 4, 0, 0, 0, 0, 0, 0, 0, j.ttl, 112, 0, 0>> \o j.advert.src \o Mcast
    \o Times(j.options, 0)

Arrives(j) ==
    LET sent == IpHeader(j) \o EncodeAdvertisement(j.advert)
        hurt == [k \in DOMAIN sent |-> IF k = j.hit THEN (sent[k] + j.by) % 256 ELSE sent[k]]
    IN  SubSeq(hurt, 1, Len(sent) - j.cut)

ParseCall ==
    /\ job.call = "parse_advertisement"
    /\ Returns(ParseAdvertisement(Arrives(job), job.vrid))

\* Nothing hit: beyond the packet, or in the options of the IP header.
Unhurt(j) ==
    \/ j.hit = 0 \/ j.hit > Len(IpHeader(j) \o EncodeAdvertisement(j.advert))
    \/ j.hit \in 21..(20 + j.options)

-----------------------------------------------------------------------------
(* BGP: messages one after the other, a byte of a header changed, the stream  *)
(* cut; an UPDATE as the peer reads it.                                       *)

Networks == {<<192, 0, 2, 129>>, <<10, 255, 255, 255>>} \X {0, 1, 8, 20, 31, 32}
Hop      == <<10, 0, 0, 1>>

Frames == {OpenMsg(64512, 180, Hop), KeepaliveMsg, NotificationMsg(6, 2),
           UpdateAnnounce(64512, Hop, <<10, 1, 2, 3>>, 32), UpdateWithdraw(<<10, 1, 2, 3>>, 32)}

StreamJobs ==
    [call : {"read_msg"}, frames : Frames \X Frames, hit : 0..16,
     cut : {0, 1, 19, 20, 30}]

StreamCall ==
    LET stream == job.frames[1] \o job.frames[2]
        bad    == IF job.hit = 0 THEN stream
                  ELSE [stream EXCEPT ![Len(job.frames[1]) + job.hit] = 0]
    IN  /\ job.call = "read_msg"
        /\ Returns(ReadAll(SubSeq(bad, 1, Len(bad) - job.cut)))

UpdateJobs ==
    [call : {"update"}, asn : {1, 64512}, prefix : Networks, announce : BOOLEAN]

UpdateCall ==
    LET p == job.prefix
        m == ReadAll(IF job.announce THEN UpdateAnnounce(job.asn, Hop, p[1], p[2])
                     ELSE UpdateWithdraw(p[1], p[2]))
    IN  job.call = "update" /\ Returns(DecodeUpdate(m[1][2]))

-----------------------------------------------------------------------------
(* rtnetlink: what the kernel answers (external), in one datagram or one per  *)
(* message, with a message of somebody else's in between.  (nl_msg adds the   *)
(* request's flag, which the kernel's messages lack; nobody reads the flags.)  *)

\* An attribute, padded.
Attr(ty, data) ==
    Le16(4 + Len(data)) \o Le16(ty) \o data \o Times((4 - (Len(data) % 4)) % 4, 0)

Names == {<<101>>, <<101, 48>>, <<101, 48, 49, 50>>}
Mac   == <<2, 0, 0, 0, 0, 1>>

\* Interfaces: a name with its NUL, an attribute of odd length, flags in a type, and
\* a hardware address before or behind the name, or none.
Links == [name : Names, mac : {"first", "last", "none"}]

LinkBody(l, index) ==
    LET name == Attr(3, Append(l.name, 0))
        mac  == Attr(1, Mac)
    IN  <<0, 0, 0, 0>> \o Le32(index) \o Times(8, 0)
        \o (IF l.mac = "first" THEN mac ELSE <<>>) \o Attr(32768 + 26, <<7, 7, 7, 7, 7>>)
        \o name \o (IF l.mac = "last" THEN mac ELSE <<>>)

\* Addresses: of this interface or another, IPv4 or not, with IFA_LOCAL or without.
Addrs == [index : {1, 2}, family : {2, 10}, len : {24, 32}, local : BOOLEAN]

AddrBody(a, k) ==
    <<a.family, a.len, 0, 0>> \o Le32(a.index)
    \o Attr(1, <<10, 0, IF a.local THEN 99 ELSE 0, k>>)
    \o (IF a.local THEN Attr(2, <<10, 0, 0, k>>) ELSE <<>>)

\* A dump in its datagrams, ended by DONE; each message may follow one that answers
\* another request.
Dump(ty, bodies, whole, stray) ==
    LET other == IF stray THEN NlMsg(ty, 0, 7, bodies[1]) ELSE <<>>
        msgs  == [k \in DOMAIN bodies |-> other \o NlMsg(ty, 2, 1, bodies[k])]
        all   == Append(msgs, NlMsg(NLMSG_DONE, 2, 1, <<0, 0, 0, 0>>))
    IN  IF whole THEN <<FlattenSeq(all)>> ELSE all

LinkJobs ==
    [call : {"link"}, links : BoundedSeq(Links, MaxLinks) \ {<<>>}, name : Names,
     whole : BOOLEAN, stray : BOOLEAN]

LinkCall ==
    LET dump == Dump(RTM_NEWLINK, [k \in DOMAIN job.links |-> LinkBody(job.links[k], k)],
                     job.whole, job.stray)
    IN  job.call = "link" /\ Returns(ParseLinks(Request(dump).msgs, job.name))

AddrJobs ==
    [call : {"interface_ipv4"}, addrs : BoundedSeq(Addrs, 2) \ {<<>>}, whole : BOOLEAN,
     stray : BOOLEAN]

AddrCall ==
    LET dump == Dump(RTM_NEWADDR, [k \in DOMAIN job.addrs |-> AddrBody(job.addrs[k], k)],
                     job.whole, job.stray)
    IN  /\ job.call = "interface_ipv4"
        /\ Returns(OwnAddress(ParseAddrs(Request(dump).msgs, 1)))

\* The kernel's answer to an added or deleted address, the request behind its errno.
ChangeJobs ==
    [call : {"addr_change"}, add : BOOLEAN, errno : {0, 1, EEXIST, EADDRNOTAVAIL},
     stray : BOOLEAN]

ChangeCall ==
    LET payload == AddrPayload(1, <<10, 0, 0, 9>>)
        code  == IF job.errno = 0 THEN Le32(0) ELSE Le16(65536 - job.errno) \o <<255, 255>>
        other == IF job.stray THEN NlMsg(NLMSG_ERROR, 0, 7, Le16(65535) \o <<255, 255>>) ELSE <<>>
        r     == Request(<<other \o NlMsg(NLMSG_ERROR, 0, 1,
                                          code \o payload)>>)
    IN  /\ job.call = "addr_change"
        /\ Returns([done |-> IF job.add THEN Claimed(r) ELSE Released(r),
                    asked |-> ParseAddrs(<<[ty |-> RTM_NEWADDR, body |-> payload]>>, 1)])

-----------------------------------------------------------------------------
(* Request heads, arriving in two reads. *)

HeaderLines ==
    {[name |-> "Host", value |-> <<"A">>, port |-> <<>>],
     [name |-> "HOST", value |-> <<"[", ":", ":", "1", "]">>, port |-> <<>>],
     [name |-> "host", value |-> <<"b">>, port |-> <<":", "3", "0">>],
     [name |-> "host", value |-> <<"[", ":", ":", "1", "]">>, port |-> <<":", "1">>],
     [name |-> "X-Forwarded-Proto", value |-> <<"http">>, port |-> <<>>],
     [name |-> "x-forwarded-proto", value |-> <<"http">>, port |-> <<>>],
     [name |-> "Content-Length", value |-> <<"2">>, port |-> <<>>],
     [name |-> "content-length", value |-> <<"3">>, port |-> <<>>],
     [name |-> "transfer-encoding", value |-> <<"chunked">>, port |-> <<>>]}

LineOf(h) == <<h.name, Colon, SP>> \o h.value \o h.port \o <<CR, LF>>
HeadOf(hs) ==
    <<"GET", SP, "/", CR, LF>> \o FlattenSeq([k \in DOMAIN hs |-> LineOf(hs[k])]) \o <<CR, LF>>

MaxHead == 12
MaxBody == 2

Bodies == {<<>>, <<"x">>, <<"x", CR, LF, CR, LF>>}

HeadJobs ==
    [call : {"serve_conn", "read_request"}, hs : BoundedSeq(HeaderLines, MaxLines),
     body : Bodies, cut : {1, 5, 9, 13}]

Reads(j) ==
    LET all == HeadOf(j.hs) \o j.body
        k   == Min({j.cut, Len(all)})
    IN  <<SubSeq(all, 1, k), SubSeq(all, k + 1, Len(all))>>

HeadCall ==
    LET r    == ReadHead(Reads(job), 16384)
        head == SubSeq(r.buf, 1, r.end[1])
    IN  /\ job.call = "serve_conn"
        /\ Returns([host |-> HostOf(head), https |-> ForwardedHttps(r.buf, r.end[1]),
                    unread |-> From(HeadOf(job.hs) \o job.body, Len(r.buf))])

RequestCall ==
    /\ job.call = "read_request"
    /\ Returns(ReadRequest(Reads(job), MaxHead, MaxBody))

-----------------------------------------------------------------------------
(* Metrics, and a pool. *)

Buckets == <<5, 10, 25>>

HistJobs == [call : {"observe"}, seen : BoundedSeq({0, 5, 6, 25, 26}, 4)]

HistCall ==
    /\ job.call = "observe"
    /\ Returns(Shown(FoldLeft(LAMBDA h, d : Observe(Buckets, h, d), NoHist(Buckets), job.seen)))

Text(n) == BoundedSeq({Backslash, Quote, Newline, "n"}, n)

LabelJobs == [call : {"labels"}, a : Text(2) \X Text(1), b : Text(2) \X Text(1)]

LabelCall ==
    LET of(v) == Labels(<<<<"vip", v[1]>>, <<"backend", v[2]>>>>)
    IN  job.call = "labels" /\ Returns(of(job.a) = of(job.b))

PickJobs ==
    [call : {"pick"}, healthy : UNION {[1..n -> BOOLEAN] : n \in 1..MaxMembers},
     next : 0..(Width - 1)]

\* As many picks in a row as the pool has members.
PickCall ==
    /\ job.call = "pick"
    /\ Returns([k \in DOMAIN job.healthy |-> Pick(job.healthy, (job.next + k - 1) % Width, Width)])

-----------------------------------------------------------------------------

(* Specs, API requests, listeners and certificates. *)

Vrrps == [interface : BOOLEAN, vrid : {0, 51}, priority : {0, 1, 255}, secs : {0, 1, 40, 41, 100}]

SpecJobs ==
    [call : {"check"}, ip : {"v4", "v6", "bad"}, port : {0, 80}, bind : {None, Some("v4"), Some("bad")},
     backends : {{}, {[ip |-> "v6", port |-> 1]}, {[ip |-> "v4", port |-> 0]}},
     health : [slash : BOOLEAN, interval : {0, 2}, timeout : {2}, statuses : {{}, {200}}],
     vrrp : {None} \cup {Some(v) : v \in Vrrps}]

\* What a peer reads of a VIP put with this spec, if check accepts it.
SpecCall ==
    LET v      == job.vrrp[1]
        advert == [vrid |-> v.vrid, priority |-> v.priority, interval |-> Centis(v.secs),
                   src |-> Src, vips |-> <<<<10, 0, 0, 9>>>>]
        packet == IpHeader([options |-> 0, ttl |-> 255, advert |-> advert])
                  \o EncodeAdvertisement(advert)
    IN  /\ job.call = "check"
        /\ Returns([listen |-> CheckSpec(job),
                    seen |-> IF job.vrrp = None \/ CheckSpec(job) = None THEN None
                             ELSE ParseAdvertisement(packet, v.vrid)])

ApiJobs ==
    [call : {"handle"}, token : {None} \cup {Some(f) : f \in {"gone", "", "old", "new"}},
     got : {"", "old", "new"}, method : {"GET", "PUT", "DELETE", "POST"}, json : BOOLEAN,
     path : {"healthz", "other", "vips"},
     rest : {<<>>, <<"/">>, <<"/", "a">>, <<"/", "a", "/">>, <<"/", "/", "a">>}]

ApiCall ==
    /\ job.call = "handle"
    /\ Returns(Handle(job.token, job))

BindJobs ==
    [call : {"bind_listeners"}, auto : BOOLEAN,
     source : {"none", "loopback", "link-local", "wildcard", "node"},
     free : SUBSET {"node", "loopback", "wildcard"}, literal : BOOLEAN]

\* "auto:80" is no address; the wildcard needs the port of every address.
BindCall ==
    LET free == {a \in job.free : a = "wildcard" => {"node", "loopback"} \subseteq job.free}
                \cup (IF ~job.auto /\ job.literal THEN {"configured"} ELSE {})
    IN  /\ job.call = "bind_listeners"
        /\ Returns(BindListeners(job.auto, job.source, free))

CertJobs ==
    [call : {"resolve"}, loaded : BoundedSeq({None, Some({"a"}), Some({"a", "b"}), Some({"c"})}, 3),
     sni : {None, Some("a"), Some("b"), Some("d")}]

CertCall ==
    /\ job.call = "resolve"
    /\ Returns(PickCert(job.loaded, job.sni))

-----------------------------------------------------------------------------

Init ==
    /\ \/ job \in VrrpJobs \/ job \in StreamJobs \/ job \in UpdateJobs
       \/ job \in LinkJobs \/ job \in AddrJobs \/ job \in ChangeJobs
       \/ job \in HeadJobs \/ job \in HistJobs \/ job \in LabelJobs \/ job \in PickJobs
       \/ job \in SpecJobs \/ job \in ApiJobs \/ job \in BindJobs \/ job \in CertJobs
    /\ result = None

Next ==
    \/ ParseCall \/ StreamCall \/ UpdateCall
    \/ LinkCall \/ AddrCall \/ ChangeCall
    \/ HeadCall \/ RequestCall \/ HistCall \/ LabelCall \/ PickCall
    \/ SpecCall \/ ApiCall \/ BindCall \/ CertCall

Spec == Init /\ [][Next]_vars
-----------------------------------------------------------------------------
(* Properties: one per component, the conjunction of what its functions promise. *)

\* vrrp.rs: an advertisement that arrives as it was sent, IP options or not, is read
\* as what encode_advertisement was given.
AdvertUnderstood ==
    Done("parse_advertisement") /\ Unhurt(job) /\ job.cut = 0 /\ job.ttl = 255 /\ job.vrid = 51
    => result[1] = Some([priority |-> job.advert.priority, src |-> job.advert.src,
                         interval |-> job.advert.interval])

\* One that was routed, is another virtual router's, lost its last byte or had any
\* byte of its source or its payload changed never reaches the election.
DamageDropped ==
    /\ Done("parse_advertisement")
    /\ ~Unhurt(job) \/ job.cut = 1 \/ job.ttl # 255 \/ job.vrid # 51
    => result[1] = None

\* vips.rs check and vrrp.rs together: the VRRP settings of a VIP that is accepted are
\* what its peers read: the interval to the centisecond although its field has 12
\* bits, and never the priority 0, by which a Master resigns.
SettingsReachPeers ==
    Done("check") /\ result[1].listen # None /\ job.vrrp # None =>
        result[1].seen = Some([priority |-> job.vrrp[1].priority, src |-> Src,
                               interval |-> 100 * job.vrrp[1].secs])
        /\ job.vrrp[1].priority # 0

\* VRRP on the wire: what a Master sends is what its peers read, with the settings of
\* its VIP, and nothing else moves the election.
VrrpWire == AdvertUnderstood /\ DamageDropped /\ SettingsReachPeers

\* bgp.rs read_msg: the reader passes on exactly the messages that came whole, and
\* stops at a wrong marker or the end of the stream.
FramesRead ==
    LET f1 == job.frames[1]
        f2 == job.frames[2]
        m(f) == <<<<At(f, 18), From(f, 19)>>>>
    IN  Done("read_msg") =>
            result[1] = (IF job.cut <= Len(f2) THEN m(f1) ELSE <<>>)
                        \o (IF job.cut = 0 /\ job.hit = 0 THEN m(f2) ELSE <<>>)

\* bgp.rs: an UPDATE says to the peer what it was made for, also for a prefix that
\* ends inside an octet: this prefix, our AS and next hop, or its withdrawal.
UpdateSays ==
    LET p == Some(<<Bits(job.prefix[1], job.prefix[2]), job.prefix[2]>>)
    IN  Done("update") =>
            result[1] = IF job.announce
                        THEN [withdrawn |-> None, nlri |-> p,
                              attrs |-> {<<1, <<0>>>>, <<2, <<2, 1>> \o Be16(job.asn)>>, <<3, Hop>>}]
                        ELSE [withdrawn |-> p, nlri |-> None, attrs |-> {}]

\* BGP on the wire: whole messages and only those, and UPDATEs that mean what was
\* decided.
BgpWire == FramesRead /\ UpdateSays

\* vip.rs link: the first interface of exactly this name, with its index and hardware
\* address, however the attributes are ordered and padded and the dump is cut up.
LinkFound ==
    LET same == {k \in DOMAIN job.links : job.links[k].name = job.name}
    IN  Done("link") =>
            result[1] = IF same = {} THEN None
                        ELSE Some([index |-> Min(same),
                                   mac |-> IF job.links[Min(same)].mac = "none" THEN Times(6, 0)
                                           ELSE Mac])

\* vip.rs: the source of VRRP packets is the interface's own IPv4 address and not a
\* VIP ("not a /32 (a VIP is)") as long as it has one.
SourceIsOwn ==
    LET ours == {k \in DOMAIN job.addrs : job.addrs[k].index = 1 /\ job.addrs[k].family = 2}
        own  == {k \in ours : job.addrs[k].len < 32}
        best == Min(IF own # {} THEN own ELSE ours)
    IN  Done("interface_ipv4") =>
            result[1] = IF ours = {} THEN None ELSE Some(<<10, 0, 0, best>>)

\* vip.rs: claim and release name the VIP as a /32 of the interface, are idempotent,
\* report any other errno, and take no answer that is not theirs.
ChangeAnswered ==
    Done("addr_change") =>
        result[1] = [done  |-> job.errno \in {0, IF job.add THEN EEXIST ELSE EADDRNOTAVAIL},
                     asked |-> <<[ip |-> <<10, 0, 0, 9>>, len |-> 32]>>]

\* rtnetlink: of what the kernel answers, the controller takes the right interface,
\* the right source address and its own acknowledgement.
NetlinkWire == LinkFound /\ SourceIsOwn /\ ChangeAnswered

\* The route is that of the first Host, whatever its case, its port, an IPv6 address
\* or the way the head arrives.
HostRead ==
    LET hosts == SelectSeq(job.hs, LAMBDA h : Lower(h.name) = "host")
    IN  Done("serve_conn") =>
            result[1].host = IF hosts = <<>> THEN None
                             ELSE Some([k \in DOMAIN hosts[1].value |-> Lower(hosts[1].value[k])])

\* router.rs: over TLS the backend reads the request as it was sent, with one
\* X-Forwarded-Proto, ours, and a body that is untouched wherever it was cut.
SchemeIsOurs ==
    LET kept == SelectSeq(job.hs, LAMBDA h : Lower(h.name) # "x-forwarded-proto")
        ours == [name |-> "X-Forwarded-Proto", value |-> <<"https">>, port |-> <<>>]
    IN  Done("serve_conn") =>
            result[1].https \o result[1].unread = HeadOf(<<ours>> \o kept) \o job.body

\* api.rs: a PUT is applied with its whole body, as long as its last Content-Length
\* says, or it is refused, in however many reads it arrives.
BodyWhole ==
    LET lengths == SelectSeq(job.hs, LAMBDA h : Lower(h.name) = "content-length")
        length  == IF lengths = <<>> THEN 0 ELSE IF Last(lengths).value = <<"2">> THEN 2 ELSE 3
        fails(status) == [status |-> status, body |-> <<>>]
    IN  Done("read_request") =>
            result[1] = IF job.cut > MaxHead /\ job.cut < Len(HeadOf(job.hs)) THEN fails(431)
                        ELSE IF \E k \in DOMAIN job.hs : job.hs[k].name = "transfer-encoding"
                        THEN fails(411)
                        ELSE IF length > MaxBody THEN fails(413)
                        ELSE IF Len(job.body) < length THEN fails(400)
                        ELSE [status |-> 200, body |-> SubSeq(job.body, 1, length)]

\* api.rs: with a token_file the registry is read and changed only by who has the
\* token that is in it now, and by nobody while it is empty or unreadable; the probe
\* needs none.
TokenDecides ==
    Done("handle") =>
        /\ result[1].op # "none" =>
               job.token = None \/ (job.token[1] \in {"old", "new"} /\ job.got = job.token[1])
        /\ job.path = "healthz" /\ job.method = "GET" => result[1] = Says(200)

\* Requests to the router and to the API mean the same in however many pieces they
\* arrive, and the API's are answered to whom they should be.
HttpRight == HostRead /\ SchemeIsOurs /\ BodyWhole /\ TokenDecides

\* router.rs: `auto` takes the node's address and loopback, so that another process on
\* some other address of the node does not matter; with neither there is no router, and
\* without an address of the node it is the wildcard, never the word.  (The comment on
\* the code says that it needs both; what becomes of one alone is not stated here.)
AutoBinds ==
    LET both == {"node", "loopback"}
    IN  Done("bind_listeners") /\ job.auto =>
            IF job.source = "node"
            THEN /\ both \subseteq job.free => result[1] = both
                 /\ both \cap job.free = {} => result[1] = {}
            ELSE result[1] = IF job.free = both \cup {"wildcard"} THEN {"wildcard"} ELSE {}

\* tls.rs: a client gets a certificate that is valid for the name it asks for if one
\* is loaded, whichever pairs before it are not, and some certificate if any is.
NameServed ==
    LET covers(k) == job.loaded[k] # None /\ job.sni # None /\ job.sni[1] \in job.loaded[k][1]
    IN  Done("resolve") =>
            /\ result[1] = 0 <=> ToSet(job.loaded) \subseteq {None}
            /\ (\E k \in DOMAIN job.loaded : covers(k)) => covers(result[1])

\* Clients find the router where its config says, with a certificate of its name.
ListenersRight == AutoBinds /\ NameServed

\* metrics.rs: a bucket of the histogram counts every observation up to its bound, the
\* bound included, and +Inf all of them.
HistogramCounts ==
    Done("observe") =>
        result[1] = Append([i \in DOMAIN Buckets |->
                               Cardinality({k \in DOMAIN job.seen : job.seen[k] <= Buckets[i]})],
                           Len(job.seen))

\* metrics.rs labels: two series are one only if their label values are the same,
\* quotes, backslashes and newlines in them included.
LabelsTellApart == Done("labels") => (result[1] <=> job.a = job.b)

\* What /metrics shows is what was observed, under the series it was observed for.
MetricsRight == HistogramCounts /\ LabelsTellApart

\* A scan of the members from `next` on meets the counter's wrap, and the pool's size
\* does not divide its width: slots are left out and others seen twice.
Skips(n) == Width % n # 0 /\ job.next + n > Width

\* As many picks in a row as the pool has members, without a change of health,
\* serve every healthy member, but at the wrap.
EveryHealthyServed ==
    Done("pick") /\ ~Skips(Len(job.healthy)) =>
        \A k \in DOMAIN job.healthy : job.healthy[k] => k \in ToSet(result[1])

\* pick's doc: "None when all are down", and only then, but at the wrap; there too it
\* is not more picks in a row than the pool has members less one that find nobody.
NoneOnlyIfAllDown ==
    Done("pick") /\ (\E k \in DOMAIN job.healthy : job.healthy[k]) =>
        /\ ~Skips(Len(job.healthy)) => result[1][1] # 0
        /\ ToSet(result[1]) # {0}

\* Nobody is sent to a member that is down, at the wrap or elsewhere.
OnlyHealthyServed ==
    Done("pick") => \A k \in ToSet(result[1]) \ {0} : job.healthy[k]

\* Round-robin is fair to healthy members and refuses only if there is none.
PickRight == EveryHealthyServed /\ NoneOnlyIfAllDown /\ OnlyHealthyServed
=============================================================================
