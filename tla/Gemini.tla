-------------------------------- MODULE Gemini --------------------------------
(***************************************************************************)
(* The gemini exchange of crates/gemini-protocol: the client's exchange    *)
(* and parse_response, the server's handle_connection, parse_request and   *)
(* write_reply, and titan's request, which is answered the same way.       *)
(*                                                                         *)
(* A URL is a sequence of tokens: a scheme, a host and a path.             *)
(***************************************************************************)
EXTENDS Lines

CONSTANT MaxLine    \* ServerConfig::max_request_line and the client's MAX_REQUEST, both 1024

Schemes == {"gemini://", "other://"}
IsUrl(text) == text # <<>> /\ Head(text) \in Schemes

----------------------------------------------------------------------------
\* Status::from_code: the class is the first digit, 1 to 6.
HasClass(code) == code[1] \in {"1", "2", "3", "4", "5", "6"}
IsSuccess(code) == code[1] = "2"

Response(code, meta, body) == [code |-> code, meta |-> meta, body |-> body]

\* Reply::header: every status that carries no body.
Header(code, meta) == Response(code, meta, <<>>)

\* write_reply: the header line, and the body of a success only.
Render(reply) ==
    reply.code \o <<SP>> \o reply.meta \o CRLF
        \o (IF HasClass(reply.code) /\ IsSuccess(reply.code) THEN reply.body ELSE <<>>)

\* parse_request, in its order of refusals.
ParseRequest(line) ==
    LET text == TrimEnd(line, {CR, LF})
    IN IF ~IsUtf8(line) \/ ~IsUrl(text) \/ Head(text) # "gemini://"
          \/ Len(text) = 1 \/ Contains(text, "#")
       THEN Answer(Header(<<"5", "9">>, <<"reason">>))
       ELSE Ask(text)

\* handle_connection up to the handler. The limit counts the bytes before the line feed,
\* the carriage return among them, and the end of the stream ends the line too.
Serve(bytes, end) ==
    CASE HasLine(bytes) -> ParseRequest(Front(bytes))
      [] ~HasLine(bytes) /\ Len(bytes) > MaxLine -> Answer(Header(<<"5", "9">>, <<"reason">>))
      [] OTHER -> AtClose(end, ParseRequest(bytes))

----------------------------------------------------------------------------
\* Mutant: the limit forgets the CRLF.
RefusedWithoutCrlf(url) == Len(url) > MaxLine

\* exchange: the request, refused before anything is sent when it is too long.
Refused(url) == Len(url \o CRLF) > MaxLine

RequestLine(url) == url \o CRLF

\* titan's request_line and upload_inner: the parameters, then the body.
TitanRequest(upload) ==
    upload.url \o <<";size=">> \o Decimal[Len(upload.body)]
        \o (IF upload.mime = <<>> THEN <<>> ELSE <<";mime=">> \o upload.mime)
        \o (IF upload.token = <<>> THEN <<>> ELSE <<";token=">> \o upload.token)
        \o CRLF \o upload.body

\* External: a titan server reads the parameters of the line and then size bytes.
Parameters == {";size=", ";mime=", ";token="}
ParameterOf(line, name) ==
    LET rest == From(line, Find(line, name) + 1)
        stop == FirstOf({i \in DOMAIN rest : rest[i] \in Parameters})
    IN CASE ~Contains(line, name) -> <<>>
         [] Contains(line, name) /\ stop = 0 -> rest
         [] OTHER -> SubSeq(rest, 1, stop - 1)
ServeTitan(bytes, end) ==
    LET parts == SplitHeader(bytes)
        size == Number(ParameterOf(parts[1], ";size="))
    IN IF Len(parts) = 2 /\ Len(parts[2]) >= size
       THEN Ask([url |-> SubSeq(parts[1], 1, Find(parts[1], ";size=") - 1), body |-> parts[2],
                 mime |-> ParameterOf(parts[1], ";mime="),
                 token |-> ParameterOf(parts[1], ";token=")])
       ELSE UnlessEnded(end)

\* parse_response: only a success keeps the body.
ParseResponse(raw) ==
    LET parts == SplitHeader(raw)
        header == parts[1]
    IN IF Len(parts) = 1 \/ ~IsUtf8(header) \/ Len(header) < 2
          \/ ~IsDigit(header[1]) \/ ~IsDigit(header[2]) \/ ~HasClass(header)
       THEN Err("protocol")
       ELSE Ok(Response(SubSeq(header, 1, 2), TrimStart(From(header, 3), {SP}),
                        IF IsSuccess(header) THEN parts[2] ELSE <<>>))

\* exchange and upload_inner read to the end of the stream.
Receive(bytes, end) ==
    AtEnd(end, ParseResponse(bytes))
=============================================================================
