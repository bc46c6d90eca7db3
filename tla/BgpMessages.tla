---------------------------- MODULE BgpMessages ----------------------------
(* BGP messages on the wire (bgp.rs): the encoders and the framing the reader *)
(* undoes, with an UPDATE as a peer reads it.                                 *)
EXTENDS Bytes

Marker == Times(16, 255)
OPEN         == 1
UPDATE       == 2
NOTIFICATION == 3
KEEPALIVE    == 4

Message(ty, body) == Marker \o Be16(19 + Len(body)) \o <<ty>> \o body

OpenMsg(asn, hold, id) == Message(OPEN, <<4>> \o Be16(asn) \o Be16(hold) \o id \o <<0>>)
KeepaliveMsg           == Message(KEEPALIVE, <<>>)
NotificationMsg(c, s)  == Message(NOTIFICATION, <<c, s>>)
\* Mutant: only whole octets.
EncodePrefixShort(p, n) == <<n>> \o SubSeq(p, 1, n \div 8)

\* encode_prefix: the length, and the octets that hold that many bits.
EncodePrefix(p, n) == <<n>> \o SubSeq(p, 1, (n + 7) \div 8)

\* ORIGIN IGP, AS_PATH of our AS, NEXT_HOP.
PathAttrs(asn, hop) ==
    <<64, 1, 1, 0>> \o <<64, 2, 4, 2, 1>> \o Be16(asn) \o <<64, 3, 4>> \o hop

UpdateAnnounce(asn, hop, p, n) ==
    Message(UPDATE, Be16(0) \o Be16(Len(PathAttrs(asn, hop))) \o PathAttrs(asn, hop)
                    \o EncodePrefix(p, n))

UpdateWithdraw(p, n) ==
    Message(UPDATE, Be16(Len(EncodePrefix(p, n))) \o EncodePrefix(p, n) \o Be16(0))

\* Mutant: the marker is not looked at.
HeaderRightAny(s) == Be16At(s, 16) \in 19..4096

HeaderRight(s) == Slice(s, 0, 16) = Marker /\ Be16At(s, 16) \in 19..4096

\* read_msg on a stream of which s is left before its end: the message and the rest.
ReadMsg(s) ==
    IF Len(s) >= 19 /\ HeaderRight(s) /\ Len(s) >= Be16At(s, 16)
    THEN Some([ty |-> At(s, 18), body |-> Slice(s, 19, Be16At(s, 16)),
               rest |-> From(s, Be16At(s, 16))])
    ELSE None

\* spawn_reader: message by message, up to the first error.
ReadAll(stream) ==
    LET read[i \in 0..Len(stream)] ==
            LET m == ReadMsg(From(stream, i))
            IN  IF m = None THEN <<>>
                ELSE <<<<m[1].ty, m[1].body>>>> \o read[Len(stream) - Len(m[1].rest)]
    IN  read[0]

-----------------------------------------------------------------------------
(* What a peer reads (RFC 4271, external). *)

\* The first n bits of a prefix in four octets.
Bits(p, n) ==
    [k \in 1..4 |-> LET free == 8 * k - n
                        o    == IF k <= Len(p) THEN p[k] ELSE 0
                    IN  IF free >= 8 THEN 0
                        ELSE IF free <= 0 THEN o ELSE o - (o % (2^free))]

\* One prefix or none; one with octets missing or left over is no prefix.
PrefixOf(b) ==
    IF b = <<>> THEN None
    ELSE IF Len(b) = 1 + (b[1] + 7) \div 8 THEN Some(<<Bits(Tail(b), b[1]), b[1]>>)
    ELSE Some(<<>>)

\* The attributes: flags, type, length, value.
AttrsOf(b) ==
    LET walk[i \in 0..Len(b)] ==
            IF Len(b) - i < 3 \/ Len(b) - i < 3 + At(b, i + 2) THEN {}
            ELSE {<<At(b, i + 1), Slice(b, i + 3, i + 3 + At(b, i + 2))>>}
                 \cup walk[i + 3 + At(b, i + 2)]
    IN  walk[0]

DecodeUpdate(body) ==
    LET w == Be16At(body, 0)
        a == Be16At(body, 2 + w)
    IN  [withdrawn |-> PrefixOf(Slice(body, 2, 2 + w)),
         attrs     |-> AttrsOf(Slice(body, 4 + w, 4 + w + a)),
         nlri      |-> PrefixOf(From(body, 4 + w + a))]
=============================================================================
