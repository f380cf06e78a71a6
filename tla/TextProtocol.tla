----------------------------- MODULE TextProtocol -----------------------------
(***************************************************************************)
(* The text:// exchange of crates/text-protocol: request_line, the client's *)
(* exchange and parse_header. The server is not in the repository.         *)
(***************************************************************************)
EXTENDS Lines

CONSTANT MaxLine    \* the 4096 of exchange

\* Status::from_code.
Codes == {<<"2", "0">>, <<"3", "0">>, <<"4", "0">>}

RequestLine(iri) == iri \o CRLF

\* parse_header: the code up to the first space, the rest trimmed.
Response(code, meta, body) == [code |-> code, meta |-> meta, body |-> body]
ParseHeader(line) ==
    LET words == SplitOnce(TrimEnd(line, {CR, LF}), SP)
    IN Response(words[1], IF Len(words) = 1 THEN <<>> ELSE Trim(words[2], White), <<>>)

\* exchange: only a 20 is followed by a body, which runs to the end of the stream.
Receive(bytes, end) ==
    LET line == ReadLine(bytes, end, MaxLine)
        header == ParseHeader(line.text)
    IN CASE line.kind # "line" -> line
         [] line.kind = "line" /\ header.code \notin Codes -> Err("protocol")
         [] line.kind = "line" /\ header.code = <<"2", "0">> ->
              AtEnd(end, Ok([header EXCEPT !.body = line.rest]))
         [] OTHER -> Ok(header)

----------------------------------------------------------------------------
\* External: a server answers a line, and a stream that ends within one is dropped.
Serve(bytes, end) ==
    IF HasLine(bytes) THEN Ask(TrimEnd(bytes, {CR, LF})) ELSE UnlessEnded(end)
Render(reply) == reply.code \o <<SP>> \o reply.meta \o CRLF \o reply.body
=============================================================================
