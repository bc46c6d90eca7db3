----------------------------- MODULE VrrpPacket -----------------------------
(* The VRRPv3 wire format (vrrp.rs): what a Master sends and what a Backup    *)
(* makes of a datagram.                                                       *)
EXTENDS Bytes

Mcast == <<224, 0, 0, 18>>

\* with_pseudo_header: protocol 112.
PseudoHeader(vrrp, src) == src \o Mcast \o <<0, 112>> \o Be16(Len(vrrp)) \o vrrp

\* The k-th 16-bit word, an odd last byte padded.
Word(d, k) == 256 * d[2 * k - 1] + (IF 2 * k <= Len(d) THEN d[2 * k] ELSE 0)

\* One turn of the carry loop; a 32-bit sum needs two at most.
Carried(s) == (s % 65536) + (s \div 65536)

\* ones_complement_checksum
Checksum(d) ==
    65535 - Carried(Carried(MapThenSumSet(LAMBDA k : Word(d, k), 1..((Len(d) + 1) \div 2))))

\* encode_advertisement
EncodeAdvertisement(a) ==
    LET packet(ck) == <<49, a.vrid, a.priority, Len(a.vips) % 256>>
                      \o Be16(a.interval % 4096) \o Be16(ck) \o FlattenSeq(a.vips)
    IN  packet(Checksum(PseudoHeader(packet(0), a.src)))

Advert(d, ihl) ==
    [priority |-> At(d, ihl + 2), src |-> Slice(d, 12, 16),
     interval |-> Be16At(d, ihl + 4) % 4096]

\* Mutant: a sum is taken on trust.
SumRightAny(d, ihl) == TRUE

SumRight(d, ihl) == Checksum(PseudoHeader(From(d, ihl), Slice(d, 12, 16))) = 0

\* Mutant: the IP header has no options.
HeaderLenFixed(d) == 20

\* The length of the IP header.
HeaderLen(d) == 4 * (At(d, 0) % 16)

\* parse_advertisement: version 3, type 1, our vrid, not routed, and intact.
ParseAdvertisement(d, vrid) ==
    LET ihl == HeaderLen(d)
    IN  IF /\ Len(d) >= 20 /\ ihl >= 20 /\ Len(d) >= ihl + 8
           /\ At(d, 8) = 255
           /\ At(d, ihl) = 49 /\ At(d, ihl + 1) = vrid
           /\ SumRight(d, ihl)
        THEN Some(Advert(d, ihl)) ELSE None
=============================================================================
