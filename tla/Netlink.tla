------------------------------ MODULE Netlink ------------------------------
(* The rtnetlink client of vip.rs: messages and attributes, the loop that     *)
(* collects the replies to a request, and what claim, release, link and       *)
(* interface_ipv4 make of them.                                               *)
EXTENDS Bytes

NLMSG_ERROR == 2
NLMSG_DONE  == 3
RTM_NEWLINK == 16
RTM_NEWADDR == 20
AF_INET     == 2
EEXIST      == 17
EADDRNOTAVAIL == 99

Align(n) == 4 * ((n + 3) \div 4)

\* b = &b[align(len).min(b.len())..], for a walk at offset i
Past(b, i, len) == Min({i + Align(len), Len(b)})

\* nl_msg: header (NLM_F_REQUEST among its flags) and payload, padded.
NlMsg(ty, flags, seq, payload) ==
    LET len == 16 + Len(payload)
    IN  Le32(len) \o Le16(ty) \o Le16(2 * (flags \div 2) + 1) \o Le32(seq) \o Le32(0) \o payload
        \o Times(Align(len) - len, 0)

\* addr_payload: a /32 of scope universe, as IFA_LOCAL and IFA_ADDRESS.
AddrPayload(index, ip) ==
    <<AF_INET, 32, 0, 0>> \o Le32(index)
    \o FlattenSeq([k \in 1..2 |-> Le16(8) \o Le16(<<2, 1>>[k]) \o ip])

\* attrs: the rtattrs in b, their flag bits dropped; a broken one ends them.
Attrs(b) ==
    LET walk[i \in 0..Len(b)] ==
            LET len == Le16At(b, i)
            IN  IF Len(b) - i < 4 THEN <<>>
                ELSE IF len < 4 \/ len > Len(b) - i THEN <<>>
                ELSE <<[ty |-> Le16At(b, i + 2) % 16384, data |-> Slice(b, i + 4, i + len)]>>
                     \o walk[Past(b, i, len)]
    IN  walk[0]

\* The last attribute that qualifies.
LastOf(as) == IF as = <<>> THEN None ELSE Some(Last(as).data)

\* Mutant: a name that only begins like this one.
NamedAlike(d, name) == SubSeq(d, 1, Len(name)) = name

\* The data up to the first NUL is the name.
Named(d, name) ==
    LET nul == SelectInSeq(d, LAMBDA c : c = 0)
    IN  (IF nul = 0 THEN d ELSE SubSeq(d, 1, nul - 1)) = name

\* parse_links: the first interface of that name, its hardware address zero if it
\* has none of six bytes.
ParseLinks(msgs, name) ==
    LET as(m)   == Attrs(From(m.body, 16))
        names(m) == LastOf(SelectSeq(as(m), LAMBDA a : a.ty = 3))
        macs(m) == LastOf(SelectSeq(as(m), LAMBDA a : a.ty = 1 /\ Len(a.data) = 6))
        k == SelectInSeq(msgs, LAMBDA m : /\ m.ty = RTM_NEWLINK /\ Len(m.body) >= 16
                                          /\ names(m) # None /\ Named(names(m)[1], name))
    IN  IF k = 0 THEN None
        ELSE Some([index |-> Le32At(msgs[k].body, 4),
                   mac |-> IF macs(msgs[k]) = None THEN Times(6, 0) ELSE macs(msgs[k])[1]])

\* parse_addrs: the interface's IPv4 addresses with their prefix lengths, in order;
\* IFA_LOCAL before IFA_ADDRESS.
ParseAddrs(msgs, index) ==
    LET as(m)    == Attrs(From(m.body, 8))
        local(m) == LastOf(SelectSeq(as(m), LAMBDA a : a.ty = 2 /\ Len(a.data) = 4))
        addr(m)  == LastOf(SelectSeq(as(m), LAMBDA a : a.ty = 1 /\ Len(a.data) = 4))
        ours == SelectSeq(msgs, LAMBDA m : /\ m.ty = RTM_NEWADDR /\ Len(m.body) >= 8
                                           /\ At(m.body, 0) = AF_INET
                                           /\ Le32At(m.body, 4) = index
                                           /\ local(m) \o addr(m) # None)
    IN  [k \in DOMAIN ours |->
            [ip |-> Head(local(ours[k]) \o addr(ours[k])), len |-> At(ours[k].body, 1)]]

\* Mutant: simply the first.
OwnAddressFirst(addrs) == IF addrs = <<>> THEN None ELSE Some(addrs[1].ip)

\* interface_ipv4: the first address that is not a /32, else the first.
OwnAddress(addrs) ==
    LET k == SelectInSeq(addrs, LAMBDA a : a.len < 32)
    IN  IF addrs = <<>> THEN None ELSE Some(addrs[IF k = 0 THEN 1 ELSE k].ip)

\* Mutant: whoever the message is for.
OursAny(b, i) == TRUE

\* A message with our sequence number.
Ours(b, i) == Le32At(b, i + 8) = 1

Reply(end, errno) == [end |-> end, errno |-> errno, msgs |-> <<>>]

\* An NLMSG_ERROR: the ACK, or an errno, which comes negated (its low half tells).
ErrorReply(body) ==
    LET e == IF Len(body) >= 4 THEN Le16At(body, 0) ELSE 0
    IN  IF e = 0 THEN Reply("ok", 0) ELSE Reply("errno", 65536 - e)

\* One datagram: the messages before DONE, an NLMSG_ERROR or the datagram's end.
Replies(b) ==
    LET walk[i \in 0..Len(b)] ==
            LET len  == Le32At(b, i)
                ty   == Le16At(b, i + 4)
                body == Slice(b, i + 16, i + len)
                next == walk[Past(b, i, len)]
            IN  IF Len(b) - i < 16 THEN Reply("wait", 0)
                ELSE IF len < 16 \/ len > Len(b) - i THEN Reply("truncated", 0)
                ELSE IF ~Ours(b, i) THEN next
                ELSE IF ty = NLMSG_DONE THEN Reply("ok", 0)
                ELSE IF ty = NLMSG_ERROR THEN ErrorReply(body)
                ELSE [next EXCEPT !.msgs = <<[ty |-> ty, body |-> body]>> \o @]
    IN  walk[0]

\* Nl::request on the datagrams it receives; "wait" if the next one decides.
Request(datagrams) ==
    FoldLeft(LAMBDA acc, b : IF acc.end # "wait" THEN acc
                             ELSE [Replies(b) EXCEPT !.msgs = acc.msgs \o @],
             Reply("wait", 0), datagrams)

\* Netlink::claim and release: an address that is already there, or already gone,
\* is as good as done.
Claimed(r)  == r.end = "ok" \/ (r.end = "errno" /\ r.errno = EEXIST)
Released(r) == r.end = "ok" \/ (r.end = "errno" /\ r.errno = EADDRNOTAVAIL)
=============================================================================
