------------------------------ MODULE HttpHead ------------------------------
(* Request heads as the router and the VIP API read them (router.rs, api.rs). *)
(* A head is a sequence of symbols: CR, LF, space, colon, a digit, or a word  *)
(* that stands for a run of other bytes.                                      *)
EXTENDS Bytes

CR == "\r"
LF == "\n"
SP == " "
Colon == ":"

\* to_ascii_lowercase, on the words used here.
Lower(w) ==
    CASE w \in {"Host", "HOST"} -> "host"
      [] w = "X-Forwarded-Proto" -> "x-forwarded-proto"
      [] w = "Content-Length" -> "content-length"
      [] w = "A" -> "a"
      [] OTHER -> w

\* An unsigned number of one digit.
Number(w) == CASE w = "0" -> 0 [] w = "1" -> 1 [] w = "2" -> 2 [] w = "3" -> 3
Digits    == {"0", "1", "2", "3"}

\* split at each LF
Lines(b) ==
    FoldLeft(LAMBDA ls, w : IF w = LF THEN Append(ls, <<>>)
                            ELSE Append(Front(ls), Append(Last(ls), w)),
             <<<<>>>>, b)

\* str::trim
Trim(b) ==
    LET solid == {i \in DOMAIN b : b[i] \notin {CR, LF, SP}}
    IN  IF solid = {} THEN <<>> ELSE SubSeq(b, Min(solid), Max(solid))

\* find_head_end: just behind the first blank line.
FindHeadEnd(b) ==
    LET ends == {i \in 1..(Len(b) - 3) : SubSeq(b, i, i + 3) = <<CR, LF, CR, LF>>}
    IN  IF ends = {} THEN None ELSE Some(Min(ends) + 3)

\* The loop of serve_conn: what has been read after each read is searched, until
\* the head is there; the head, and what came with it.
ReadHead(chunks, max) ==
    FoldLeft(LAMBDA acc, c :
                 IF acc.end # None \/ acc.long THEN acc
                 ELSE LET b == acc.buf \o c
                          e == FindHeadEnd(b)
                      IN  [buf |-> b, end |-> e, long |-> e = None /\ Len(b) > max],
             [buf |-> <<>>, end |-> None, long |-> FALSE], chunks)

\* split_once(':'): the name and the value of a header line.
Name(line)  == SubSeq(line, 1, SelectInSeq(line, LAMBDA w : w = Colon) - 1)
Value(line) == SubSeq(line, SelectInSeq(line, LAMBDA w : w = Colon) + 1, Len(line))
IsHeader(line) == Contains(line, Colon)
Same(b, word) == [k \in DOMAIN b |-> Lower(b[k])] = <<word>>

\* Mutant: what follows the first colon is the port.
PortStrippedFirst(v) ==
    LET k == SelectInSeq(v, LAMBDA w : w = Colon)
    IN  IF k = 0 THEN v ELSE SubSeq(v, 1, k - 1)

\* What follows the last colon is a port if it is all digits.
PortStripped(v) ==
    LET k == SelectLastInSeq(v, LAMBDA w : w = Colon)
    IN  IF k # 0 /\ ToSet(SubSeq(v, k + 1, Len(v))) \subseteq Digits
        THEN SubSeq(v, 1, k - 1) ELSE v

\* host_of: the first Host of the header lines, lower case, without its port.
HostOf(head) ==
    LET rest  == Tail(Lines(head))
        lines == [k \in DOMAIN rest |-> Trim(rest[k])]
        blank == SelectInSeq(lines, LAMBDA l : l = <<>>)
        k     == SelectInSeq(lines, LAMBDA l : IsHeader(l) /\ Same(Trim(Name(l)), "host"))
        value == Trim(Value(lines[k]))
    IN  IF k = 0 \/ (blank # 0 /\ blank < k) THEN None
        ELSE Some(PortStripped([i \in DOMAIN value |-> Lower(value[i])]))

\* Mutant: only the spelling of the router's own header is dropped.
IsClaimExact(line) == SubSeq(line, 1, 1) = <<"X-Forwarded-Proto">>

\* A line by which the client says what scheme it used.
IsClaim(line) == Same(IF IsHeader(line) THEN Name(line) ELSE line, "x-forwarded-proto")

\* forwarded_https: the request line, our header, the lines that are no claim, and
\* what came behind the head.
ForwardedHttps(b, end) ==
    LET lines == Front(Lines(SubSeq(b, 1, end)))
        kept  == SelectSeq(Tail(lines), LAMBDA l : ~IsClaim(l))
        all   == <<Head(lines), <<"X-Forwarded-Proto", Colon, SP, "https", CR>>>> \o kept
    IN  FlattenSeq([k \in DOMAIN all |-> Append(all[k], LF)]) \o SubSeq(b, end + 1, Len(b))

-----------------------------------------------------------------------------
(* read_request of the VIP API *)

\* The header lines in turn: the last content-length counts, chunked is refused.
\* (The code splits at CRLF; the heads here have no LF without a CR.)
Length(head) ==
    FoldLeft(LAMBDA acc, l :
                 IF acc.status # 200 \/ ~IsHeader(l) THEN acc
                 ELSE IF Same(Name(l), "content-length")
                 THEN IF Len(Trim(Value(l))) = 1 /\ Trim(Value(l))[1] \in Digits
                      THEN [acc EXCEPT !.length = Number(Trim(Value(l))[1])]
                      ELSE [acc EXCEPT !.status = 400]
                 ELSE IF Same(Name(l), "transfer-encoding") THEN [acc EXCEPT !.status = 411]
                 ELSE acc,
             [status |-> 200, length |-> 0], Tail(Lines(head)))

\* Mutant: the body is what came with the head.
BodyOfRead(buf, end, rest, length) ==
    Some(SubSeq(From(buf, end), 1, Min({length, Len(buf) - end})))

\* The body: what came with the head, then reads until it is long enough; none if
\* the connection ends before.
BodyOf(buf, end, rest, length) ==
    LET body == From(buf, end) \o FlattenSeq(rest)
    IN  IF Len(body) < length THEN None ELSE Some(SubSeq(body, 1, length))

\* A request that arrives in these reads, after which the client ends its stream.
ReadRequest(chunks, maxHead, maxBody) ==
    LET r    == ReadHead(chunks, maxHead)
        n    == Length(SubSeq(r.buf, 1, r.end[1]))
        used == CHOOSE k \in DOMAIN chunks : FlattenSeq(SubSeq(chunks, 1, k)) = r.buf
        body == BodyOf(r.buf, r.end[1], SubSeq(chunks, used + 1, Len(chunks)), n.length)
        fails(status) == [status |-> status, body |-> <<>>]
    IN  IF r.long THEN fails(431)
        ELSE IF r.end = None THEN fails(400)
        ELSE IF n.status # 200 THEN fails(n.status)
        ELSE IF n.length > maxBody THEN fails(413)
        ELSE IF body = None THEN fails(400) ELSE [status |-> 200, body |-> body[1]]
=============================================================================
