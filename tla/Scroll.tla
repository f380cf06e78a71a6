-------------------------------- MODULE Scroll --------------------------------
(***************************************************************************)
(* The scroll exchange of crates/scroll-protocol: the client's exchange    *)
(* over a pinned TLS stream (module Tofu) and the grammar of wire. The     *)
(* server's socket loop is not in the repository, its parse_request is.    *)
(*                                                                         *)
(* A request is [uri, languages, metadata]; a response carries in about    *)
(* the author, the publication date and the modification date.             *)
(***************************************************************************)
EXTENDS Lines

CONSTANT MaxLine    \* the 4096 of read_line

Request(uri, languages, metadata) ==
    [uri |-> uri, languages |-> languages, metadata |-> metadata]
Response(code, meta, about, body) == [code |-> code, meta |-> meta, about |-> about, body |-> body]

\* Status::from_code, the class of the first digit.
HasClass(code) == code[1] \in {"1", "2", "3", "4", "5", "6"}

RequestLine(request) ==
    request.uri \o <<SP>> \o (IF request.metadata THEN <<"+">> ELSE <<>>)
        \o FlattenSeq([i \in DOMAIN request.languages |->
               (IF i = 1 THEN <<>> ELSE <<",">>) \o request.languages[i]]) \o CRLF

\* parse_request: blank languages are dropped, a byte order mark is refused.
ParseRequest(line) ==
    LET words == SplitOnce(TrimEnd(line, {CR, LF}), SP)
        rest == IF Len(words) = 1 THEN <<>> ELSE words[2]
        metadata == rest # <<>> /\ Head(rest) = "+"
        tags == Split(IF metadata THEN Tail(rest) ELSE rest, ",")
        trimmed == [i \in DOMAIN tags |-> Trim(tags[i], White)]
    IN IF words[1] = <<>> \/ Head(words[1]) = "BOM"
       THEN Close
       ELSE Ask(Request(words[1], SelectSeq(trimmed, LAMBDA tag : tag # <<>>), metadata))

----------------------------------------------------------------------------
\* parse_status_line.
Malformed == Response(<<>>, <<>>, <<>>, <<>>)
ParseStatusLine(line) ==
    LET text == TrimEnd(line, {CR, LF})
        code == SubSeq(text, 1, 2)
    IN IF \/ Len(text) < 2
          \/ Len(text) >= 2 /\ (~IsDigit(code[1]) \/ ~IsDigit(code[2]) \/ ~HasClass(code))
       THEN Malformed
       ELSE Response(code, TrimStart(From(text, 3), White), <<>>, <<>>)

\* finish_success: the three lines, trimmed.
FinishSuccess(header, lines, body) ==
    [header EXCEPT !.about = [i \in 1..3 |-> Trim(lines[i].text, White)], !.body = body]

\* exchange: a success is followed by three lines and a body to the end of the stream.
Receive(bytes, end) ==
    LET status == ReadLine(bytes, end, MaxLine)
        header == ParseStatusLine(status.text)
        author == ReadLine(status.rest, end, MaxLine)
        published == ReadLine(author.rest, end, MaxLine)
        modified == ReadLine(published.rest, end, MaxLine)
    IN CASE status.kind # "line" -> status
         [] status.kind = "line" /\ header = Malformed -> Err("protocol")
         [] status.kind = "line" /\ header # Malformed /\ header.code[1] # "2" -> Ok(header)
         [] OTHER ->
              IF author.kind # "line" THEN author
              ELSE IF published.kind # "line" THEN published
              ELSE IF modified.kind # "line" THEN modified
              ELSE AtEnd(end, Ok(FinishSuccess(header, <<author, published, modified>>,
                                               modified.rest)))

----------------------------------------------------------------------------
\* External: the line loop of a server, and a reply in the order the client reads it.
Serve(bytes, end) ==
    IF HasLine(bytes) THEN ParseRequest(bytes) ELSE UnlessEnded(end)
Render(reply) ==
    reply.code \o <<SP>> \o reply.meta \o CRLF
        \o FlattenSeq([i \in DOMAIN reply.about |-> reply.about[i] \o CRLF]) \o reply.body
=============================================================================
