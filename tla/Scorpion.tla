------------------------------- MODULE Scorpion -------------------------------
(***************************************************************************)
(* The scorpion exchange of crates/scorpion-protocol: Request and its      *)
(* parameters, the status line, the server's serve_connection and the      *)
(* client's exchange and read_response.                                    *)
(*                                                                         *)
(* A request is [subprotocol, parameter, url]; a response, which is also   *)
(* what Reply::render makes of a reply, is [status, parameters, body].     *)
(***************************************************************************)
EXTENDS Lines

CONSTANTS
    MaxLine,        \* MAX_REQUEST_LINE, also Limits::max_header
    MaxBody         \* Limits::max_body

----------------------------------------------------------------------------
\* Subprotocol and Parameter: what stands between the subprotocol's byte and the space.
Subprotocols == {"R", "S", "I", "M"}
NoParameter == [kind |-> "none"]
NoEnd == -1
RangeOf(start, end) == [kind |-> "range", start |-> start, end |-> end]
Text(kind, text) == [kind |-> kind, text |-> text]
Hmac(hmac, version) == [kind |-> "hmac", hmac |-> hmac, version |-> version]

Request(subprotocol, parameter, url) ==
    [subprotocol |-> subprotocol, parameter |-> parameter, url |-> url]

\* Range::len: the end is exclusive, the subtraction saturates.
RangeLen(range) == IF range.end <= range.start THEN 0 ELSE range.end - range.start

\* Parameter::render.
RenderParameter(parameter) ==
    CASE parameter.kind = "none" -> <<>>
      [] parameter.kind = "range" ->
           Decimal[parameter.start] \o <<"-">>
               \o (IF parameter.end = NoEnd THEN <<>> ELSE Decimal[parameter.end])
      [] parameter.kind = "hmac" -> parameter.hmac \o <<"@">> \o parameter.version
      [] OTHER -> parameter.text

\* Range::parse and Parameter::parse: the subprotocol decides how the text is read.
GoodRange(text) ==
    LET ends == SplitOnce(text, "-")
    IN Len(ends) = 2 /\ IsNumber(ends[1]) /\ (ends[2] = <<>> \/ IsNumber(ends[2]))
ParseParameter(subprotocol, text) ==
    LET halves == SplitOnce(text, IF subprotocol = "R" THEN "-" ELSE "@")
    IN CASE text = <<>> -> NoParameter
         [] text # <<>> /\ subprotocol = "R" ->
              RangeOf(Number(halves[1]), IF halves[2] = <<>> THEN NoEnd ELSE Number(halves[2]))
         [] text # <<>> /\ subprotocol = "S" ->
              IF Len(halves) = 2 THEN Hmac(halves[1], halves[2]) ELSE Text("version", text)
         [] text # <<>> /\ subprotocol = "I" -> Text("capabilities", text)
         [] text # <<>> /\ subprotocol = "M" -> Text("type", text)

\* strip_fragment and to_wire.
StripFragment(url) == SplitOnce(url, "#")[1]
RequestLine(request) ==
    <<request.subprotocol>> \o RenderParameter(request.parameter)
        \o <<SP>> \o StripFragment(request.url) \o CRLF

\* has_scheme: a colon after a scheme's characters.
SchemeText == {"scorpion", "other"}
HasScheme(url) ==
    /\ Find(url, ":") > 1
    /\ \A i \in 1..(Find(url, ":") - 1) : url[i] \in SchemeText

----------------------------------------------------------------------------
\* Status and Major: the first digit decides how the parameters are split.
Response(status, parameters, body) ==
    [status |-> status, parameters |-> parameters, body |-> body]
LeadingParameters(status) ==
    CASE status[1] \in {"2", "8"} -> 2
      [] status[1] \in {"4", "6"} -> 1
      [] OTHER -> 0
HasBody(status) == status[1] = "2"
PartialStatus == <<"2", "1">>

\* Reply::render: the size of a content is its length, of a partial that of the whole file.
Content(body, type, version) ==
    Response(<<"2", "0">>, <<Decimal[Len(body)], type>> \o version, body)
Partial(body, total, type) == Response(PartialStatus, <<Decimal[total], type>>, body)
Redirect(url, permanent) == Response(<<"3", IF permanent THEN "1" ELSE "0">>, <<url>>, <<>>)
Input(prompt) == Response(<<"1", "0">>, <<prompt>>, <<>>)
Status(status, message) ==
    Response(status, IF message = <<>> THEN <<>> ELSE <<message>>, <<>>)
BadRequest == Status(<<"5", "9">>, <<"reason">>)

\* Header::to_wire and write_reply.
Render(reply) ==
    reply.status \o FlattenSeq([i \in DOMAIN reply.parameters |-> <<SP>> \o reply.parameters[i]])
        \o CRLF \o reply.body

\* split_parameters: the last parameter keeps its spaces, an empty one is dropped.
SplitParameters(status, rest) ==
    LET parts == SplitN(rest, SP, LeadingParameters(status) + 1)
    IN IF Last(parts) = <<>> THEN Front(parts) ELSE parts

\* Header::parse; any minor digit, no class 9.
GoodHeader(text) ==
    /\ Len(text) >= 2
    /\ IsDigit(text[1]) /\ text[1] # "9" /\ IsDigit(text[2])
    /\ Len(text) = 2 \/ text[3] = SP
ParseHeader(text) ==
    LET status == SubSeq(text, 1, 2)
    IN Response(status, SplitParameters(status, From(text, 4)), <<>>)

\* Header::success: a 2x declares a size, a number or "?", and a type.
GoodSuccess(header) ==
    /\ Len(header.parameters) >= 2
    /\ header.parameters[1] = <<"?">> \/ IsNumber(header.parameters[1])

----------------------------------------------------------------------------
\* Request::parse. The line has lost one carriage return.
StripCr(line) == IF line # <<>> /\ Last(line) = CR THEN Front(line) ELSE line
Parse(line) ==
    LET words == SplitOnce(Tail(line), SP)
    IN IF \/ line = <<>>
          \/ Head(line) \notin Subprotocols
          \/ Len(words) = 1
          \/ ~HasScheme(words[2])
          \/ Head(line) = "R" /\ words[1] # <<>> /\ ~GoodRange(words[1])
       THEN Answer(BadRequest)
       ELSE Ask(Request(Head(line), ParseParameter(Head(line), words[1]), words[2]))

\* serve_connection: a line that is too long or not UTF-8 ends the connection without a reply.
Serve(bytes, end) ==
    LET line == ReadLine(bytes, end, MaxLine)
    IN CASE line.kind = "more" -> More
         [] line.kind = "line" /\ (bytes # <<>> \/ end # "eof") -> Parse(StripCr(line.text))
         [] OTHER -> Fail

----------------------------------------------------------------------------
\* read_to_end_capped: to the end of the stream or to the cap, whichever comes first.
Capped(rest, cap, end, whole(_)) ==
    CASE TakeEnds(rest, cap, end) -> whole(Take(rest, cap))
      [] ~TakeEnds(rest, cap, end) /\ end = "error" -> Err("io")
      [] OTHER -> More

\* Mutant: a body cut short counts as whole.
IsWholeAtEof(rest, size, end) == TakeEnds(rest, size, end)

IsWhole(rest, size, end) == Len(rest) >= size

\* read_exact of a declared size.
Exactly(rest, size, end, whole(_)) ==
    CASE size > MaxBody -> Err("too large")
      [] size <= MaxBody /\ IsWhole(rest, size, end) -> whole(Take(rest, size))
      [] size <= MaxBody /\ ~IsWhole(rest, size, end) /\ end = "eof" -> Err("truncated")
      [] size <= MaxBody /\ ~IsWhole(rest, size, end) /\ end = "error" -> Err("io")
      [] OTHER -> More

\* Mutant: the range alone limits a partial body.
PartialCapOfRange(parameter) ==
    IF parameter.kind = "range" /\ parameter.end # NoEnd THEN RangeLen(parameter) ELSE MaxBody

\* The cap of a partial response: what the range asked for, never more than the limit.
PartialCap(parameter) ==
    IF parameter.kind = "range" /\ parameter.end # NoEnd /\ RangeLen(parameter) < MaxBody
    THEN RangeLen(parameter)
    ELSE MaxBody

\* read_response: only a 2x has a body, and a partial one is measured by the range asked for.
ReadBody(header, rest, parameter, end) ==
    LET whole(body) == Ok([header EXCEPT !.body = body])
        size == header.parameters[1]
    IN CASE ~GoodSuccess(header) -> Err("protocol")
         [] GoodSuccess(header) /\ header.status = PartialStatus ->
              Capped(rest, PartialCap(parameter), end, whole)
         [] GoodSuccess(header) /\ header.status # PartialStatus /\ size = <<"?">> ->
              Capped(rest, MaxBody, end, whole)
         [] OTHER -> Exactly(rest, Number(size), end, whole)

Receive(bytes, end, parameter) ==
    LET line == ReadLine(bytes, end, MaxLine)
        text == StripCr(line.text)
    IN CASE line.kind # "line" -> line
         [] line.kind = "line" /\ bytes = <<>> -> Err("io")
         [] line.kind = "line" /\ bytes # <<>> /\ ~GoodHeader(text) -> Err("protocol")
         [] line.kind = "line" /\ bytes # <<>> /\ GoodHeader(text) /\ ~HasBody(text) -> Ok(ParseHeader(text))
         [] OTHER -> ReadBody(ParseHeader(text), line.rest, parameter, end)
=============================================================================
