-------------------------------- MODULE Gopher --------------------------------
(***************************************************************************)
(* The gopher and Gopher+ exchanges of crates/gopher-protocol: the client's *)
(* fetch, fetch_plus and plus_over, the server's handle_connection and     *)
(* parse_request.                                                          *)
(*                                                                         *)
(* A request is [selector, search, plus]; the empty search and the empty   *)
(* plus token are None.                                                    *)
(***************************************************************************)
EXTENDS Lines

CONSTANT MaxLine    \* ServerConfig::max_request_line

Request(selector, search, plus) == [selector |-> selector, search |-> search, plus |-> plus]

\* What the client is given: the path and the query of a URL, and the Gopher+ form asked for.
Url(path, query, plus) == [path |-> path, query |-> query, plus |-> plus]

\* External: Url::parse. White space around the text goes, and so do the fragment and dot
\* segments; a query is what follows a question mark, and a space is escaped.
NextSegments(before, segment, isLast) ==
    LET kept == CASE segment = <<".">> -> before
                  [] segment = <<".", ".">> -> IF before = <<>> THEN <<>> ELSE Front(before)
                  [] OTHER -> Append(before, segment)
    IN IF isLast /\ segment \in { <<".">>, <<".", ".">> } THEN Append(kept, <<>>) ELSE kept
WithoutDots(segments) ==
    LET n == Len(segments)
        state[i \in 0..n] == IF i = 0 THEN <<>> ELSE NextSegments(state[i - 1], segments[i], i = n)
    IN state[n]
Escaped(s) == [i \in DOMAIN s |-> IF s[i] = SP THEN "%20" ELSE s[i]]
ParseUrl(text) ==
    LET whole == SplitOnce(Tail(Trim(text, White)), "#")[1]
        parts == SplitOnce(whole, "?")
        places == SplitOnce(parts[1], "/")
        authority == SplitOnce(places[1], ":")
        segments == WithoutDots(Split(places[2], "/"))
    IN [host |-> authority[1], port |-> IF Len(authority) = 2 THEN authority[2] ELSE <<>>,
        path |-> Escaped(Tail(FlattenSeq([i \in DOMAIN segments |-> <<"/">> \o segments[i]]))),
        query |-> IF Len(parts) = 2 THEN Escaped(parts[2]) ELSE <<>>, plus |-> <<>>]

\* split_path: the item type is the first character of the path, "1" for the root.
SplitPath(path) == IF path = <<>> THEN <<"1", <<>> >> ELSE <<Head(path), Tail(path)>>

\* mime_for_item_type.
Mime(item) ==
    CASE item = "0" -> "text/plain"
      [] item \in {"1", "7"} -> "application/gopher-menu"
      [] item = "h" -> "text/html"
      [] item = "g" -> "image/gif"
      [] item \in {"I", ":"} -> "image/*"
      [] item \in {"s", "<"} -> "audio/*"
      [] OTHER -> "application/octet-stream"

\* The request lines of fetch and of fetch_plus: the item type stays behind, and Gopher+
\* sends the search field even when it is empty.
PlainLine(url) ==
    SplitPath(url.path)[2] \o (IF url.query = <<>> THEN <<>> ELSE <<TAB>> \o url.query) \o CRLF
PlusLine(url) == SplitPath(url.path)[2] \o <<TAB>> \o url.query \o <<TAB>> \o url.plus \o CRLF
RequestLine(url) == IF url.plus = <<>> THEN PlainLine(url) ELSE PlusLine(url)
Meant(url) == Request(SplitPath(url.path)[2], url.query, url.plus)

----------------------------------------------------------------------------
\* PlusRequest::from_token: a view may follow "+"; what follows "$" is only a filter.
FromToken(token) ==
    CASE token # <<>> /\ Head(token) = "+" -> token
      [] token # <<>> /\ Head(token) \in {"!", "$"} -> <<Head(token)>>
      [] OTHER -> <<>>

\* parse_request.
ParseRequest(line) ==
    LET fields == Split(TrimEnd(line, {CR, LF}), TAB)
    IN Ask(Request(fields[1], IF Len(fields) > 1 THEN fields[2] ELSE <<>>,
                   IF Len(fields) > 2 THEN FromToken(fields[3]) ELSE <<>>))

\* handle_connection: an over-long selector is answered by closing the connection.
Serve(bytes, end) ==
    CASE HasLine(bytes) -> ParseRequest(Front(bytes))
      [] ~HasLine(bytes) /\ Len(bytes) >= MaxLine -> Close
      [] OTHER -> AtClose(end, ParseRequest(bytes))

\* The server counts the body of a Gopher+ reply; a plain reply is the body alone.
Counted(body) == <<"+">> \o Decimal[Len(body)]
Render(asked, body) == IF asked.plus = <<>> THEN body ELSE Counted(body) \o CRLF \o body

\* External: a Gopher+ server of another make chooses its header, and ends a
\* period-terminated body and an error text with the period.
Period == <<".">> \o CRLF
RenderForeign(reply) ==
    reply.header \o CRLF \o reply.body
        \o (IF Last(reply.header) = "1" THEN Period ELSE <<>>)

----------------------------------------------------------------------------
\* plus::parse_header: a count, "-1" for a period, "-2" for the end of the stream, or an error.
Length(n) == [kind |-> "length", count |-> n]
PeriodTerminated == [kind |-> "period"]
UntilClose == [kind |-> "close"]
PlusError == [kind |-> "error"]
Malformed == [kind |-> "malformed"]
ParseHeader(line) ==
    LET text == TrimEnd(line, {CR, LF})
        rest == TrimStart(Tail(text), White)
        stop == FirstOf({i \in DOMAIN rest : rest[i] \in White})
        token == IF stop = 0 THEN rest ELSE SubSeq(rest, 1, stop - 1)
    IN CASE text = <<>> -> Malformed
         [] text # <<>> /\ Head(text) = "-" -> PlusError
         [] text # <<>> /\ Head(text) = "+" ->
              CASE token = <<"-", "1">> -> PeriodTerminated
                [] token = <<"-", "2">> -> UntilClose
                [] IsNumber(token) -> Length(Number(token))
                [] OTHER -> Malformed
         [] OTHER -> Malformed

\* strip_period_terminator: the terminator goes, the line break before it stays.
Terminators == << CRLF \o <<".">> \o CRLF, <<LF, ".", LF>>, CRLF \o <<".">>, <<LF, ".">> >>
StripPeriod(body) ==
    LET k == SelectInSeq(Terminators, LAMBDA t : IsSuffix(t, body))
        keep == IF Terminators[k][1] = CR THEN 2 ELSE 1
    IN IF k = 0 THEN body ELSE SubSeq(body, 1, Len(body) - Len(Terminators[k]) + keep)

\* fetch reads to the end of the stream.
ReceivePlain(bytes, end, url) ==
    AtEnd(end, Ok([mime |-> Mime(SplitPath(url.path)[1]), body |-> bytes]))

\* plus_over and fetch_plus: a counted body stops at its count, an error reply is an error.
ReceivePlus(bytes, end) ==
    LET line == ReadLine(bytes, end, Len(bytes))
        header == ParseHeader(line.text)
        reply(body) == Ok([header |-> header, body |-> body])
    IN CASE line.kind # "line" -> line
         [] line.kind = "line" /\ header.kind = "malformed" -> Err("protocol")
         [] line.kind = "line" /\ header.kind = "length" ->
              IF TakeEnds(line.rest, header.count, end)
              THEN reply(Take(line.rest, header.count))
              ELSE AtEnd(end, reply(<<>>))
         [] line.kind = "line" /\ header.kind = "close" -> AtEnd(end, reply(line.rest))
         [] line.kind = "line" /\ header.kind = "period" -> AtEnd(end, reply(StripPeriod(line.rest)))
         [] OTHER -> AtEnd(end, Err("refused"))
Receive(bytes, end, url) ==
    IF url.plus = <<>> THEN ReceivePlain(bytes, end, url) ELSE ReceivePlus(bytes, end)
=============================================================================
