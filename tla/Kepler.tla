-------------------------------- MODULE Kepler --------------------------------
(***************************************************************************)
(* The kepler exchange of crates/kepler-protocol: the client's fetch and   *)
(* exchange, and the request and header grammar of wire. The server's      *)
(* socket loop is not in the repository, its parse_request and             *)
(* format_header are.                                                      *)
(*                                                                         *)
(* A request is [uri, last_cached, language]; a response has the numbers   *)
(* of its header in cache: three for a success, the expiry for unchanged.  *)
(***************************************************************************)
EXTENDS Lines

CONSTANT MaxUri     \* MAX_URI

Request(uri, last_cached, language) ==
    [uri |-> uri, last_cached |-> last_cached, language |-> language]
Response(code, cache, meta, body) ==
    [code |-> code, cache |-> cache, meta |-> meta, body |-> body]

\* Status::from_code: 1x to 7x; 2x is success and 7x unchanged.
HasClass(code) == code[1] \in {"1", "2", "3", "4", "5", "6", "7"}

\* fetch refuses what it would not send; the limit is on the URI alone.
Refused(request) == Len(request.uri) > MaxUri \/ Contains(request.uri, "#")

RequestLine(request) ==
    request.uri \o <<SP>> \o Signed(request.last_cached) \o <<SP>> \o request.language \o CRLF

\* parse_request: the limit is on the whole line, and the last two fields may be missing.
ParseRequest(line) ==
    LET text == TrimEnd(line, {CR, LF})
        fields == Split(text, SP)
    IN IF \/ Len(text) > MaxUri \/ fields[1] = <<>>
          \/ Len(fields) > 1 /\ ~IsInteger(fields[2])
       THEN Close
       ELSE Ask(Request(fields[1], IF Len(fields) > 1 THEN Integer(fields[2]) ELSE 0,
                        IF Len(fields) > 2 THEN fields[3] ELSE <<>>))

----------------------------------------------------------------------------
\* parse_header by class: three numbers and a MIME type, one number, or a message.
Malformed == Response(<<>>, <<>>, <<>>, <<>>)
ParseSuccess(code, rest) ==
    LET fields == SplitN(rest, SP, 4)
    IN IF \/ Len(fields) < 4 \/ \E i \in 1..3 : ~IsInteger(fields[i])
          \/ Trim(fields[4], White) = <<>>
       THEN Malformed
       ELSE Response(code, [i \in 1..3 |-> Integer(fields[i])], Trim(fields[4], White), <<>>)
ParseUnchanged(code, rest) ==
    LET expires == Split(rest, SP)[1]
    IN IF IsInteger(expires) THEN Response(code, <<Integer(expires)>>, <<>>, <<>>) ELSE Malformed
ParseHeader(line) ==
    LET text == TrimEnd(line, {CR, LF})
        code == SubSeq(text, 1, 2)
        rest == TrimStart(From(text, 3), White)
    IN CASE Len(text) < 2 -> Malformed
         [] Len(text) >= 2 /\ (~IsDigit(code[1]) \/ ~IsDigit(code[2]) \/ ~HasClass(code)) -> Malformed
         [] Len(text) >= 2 /\ code[1] = "2" /\ IsDigit(code[2]) -> ParseSuccess(code, rest)
         [] Len(text) >= 2 /\ code[1] = "7" /\ IsDigit(code[2]) -> ParseUnchanged(code, rest)
         [] OTHER -> Response(code, <<>>, rest, <<>>)

\* format_header.
FormatHeader(header) ==
    header.code \o FlattenSeq([i \in DOMAIN header.cache |-> <<SP>> \o Signed(header.cache[i])])
        \o (IF header.meta = <<>> THEN <<>> ELSE <<SP>> \o header.meta) \o CRLF

\* exchange: a declared length is read under take, -1 to the end of the stream.
HasLength(header) == header.cache[1] >= 0
Receive(bytes, end) ==
    LET line == ReadLine(bytes, end, MaxUri)
        header == ParseHeader(line.text)
        whole(body) == Ok([header EXCEPT !.body = body])
    IN CASE line.kind # "line" -> line
         [] line.kind = "line" /\ header = Malformed -> Err("protocol")
         [] line.kind = "line" /\ Len(header.cache) = 3 ->
              IF HasLength(header) /\ TakeEnds(line.rest, header.cache[1], end)
              THEN whole(Take(line.rest, header.cache[1]))
              ELSE AtEnd(end, whole(line.rest))
         [] OTHER -> Ok(header)

----------------------------------------------------------------------------
\* External: the line loop of a server, and a body after its header.
Serve(bytes, end) ==
    IF HasLine(bytes) THEN ParseRequest(bytes) ELSE UnlessEnded(end)
Render(reply) == FormatHeader(reply) \o reply.body
=============================================================================
