----------------------------- MODULE ApiRequest -----------------------------
(* How the VIP API takes a request apart (api.rs handle, authorize): who may, *)
(* and which operation on which VIP.  A path is a sequence of symbols, what   *)
(* follows the prefix /api/v1/vips; "other" and "healthz" stand for paths     *)
(* without it.  What apply and remove answer is Registry's.                   *)
EXTENDS Bytes

Says(status)    == [status |-> status, op |-> "none", name |-> <<>>]
Does(op, name)  == [status |-> 200, op |-> op, name |-> name]

\* Mutant: an empty token file is a token like another.
AuthorizeEmpty(file, got) ==
    IF file = "gone" THEN 500 ELSE IF got = file THEN 200 ELSE 401

\* authorize: the file as it is now; got is "" without a bearer token.
Authorize(file, got) ==
    IF file \in {"gone", ""} THEN 500 ELSE IF got = file THEN 200 ELSE 401

\* The operation a method asks for on what follows the prefix.
Operation(method, rest, json) ==
    LET name == Tail(rest)
    IN  IF rest \in {<<>>, <<"/">>}
        THEN IF method = "GET" THEN Does("list", <<>>) ELSE Says(405)
        ELSE IF name = <<>> \/ Contains(name, "/") THEN Says(404)
        ELSE CASE method = "GET" -> Does("get", name)
               [] method = "PUT" -> IF json THEN Does("put", name) ELSE Says(400)
               [] method = "DELETE" -> Does("delete", name)
               [] OTHER -> Says(405)

\* handle, with a token_file or None.
Handle(token, r) ==
    LET auth == IF token = None THEN 200 ELSE Authorize(token[1], r.got)
    IN  IF r.path = "healthz" THEN Says(IF r.method = "GET" THEN 200 ELSE 405)
        ELSE IF r.path = "other" THEN Says(404)
        ELSE IF auth # 200 THEN Says(auth)
        ELSE Operation(r.method, r.rest, r.json)
=============================================================================
