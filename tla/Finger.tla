-------------------------------- MODULE Finger --------------------------------
(***************************************************************************)
(* The finger exchange of crates/finger-protocol: Query::wire and          *)
(* query_from_url, the client's query, the server's handle_connection and  *)
(* parse_query. A query names a user (or none) and may be verbose.         *)
(***************************************************************************)
EXTENDS Lines

CONSTANT MaxLine    \* ServerConfig::max_request_line

Query(user, verbose) == [user |-> user, verbose |-> verbose]

\* query_from_url: the path, else the user information, else nobody: the host listing.
QueryFromUrl(url) == Query(IF url.path # <<>> THEN url.path ELSE url.username, FALSE)

\* Query::wire: {W}{S}{U}{C}.
Wire(query) ==
    (CASE query.verbose /\ query.user = <<>> -> <<"/W">>
       [] query.verbose /\ query.user # <<>> -> <<"/W", SP>> \o query.user
       [] OTHER -> query.user) \o CRLF

\* parse_query. The switch is read off the front whatever follows it.
ParseQuery(line) ==
    LET text == TrimEnd(line, {CR, LF})
        verbose == text # <<>> /\ Head(text) = "/W"
    IN Query(Trim(IF verbose THEN Tail(text) ELSE text, {SP}), verbose)

\* handle_connection: an empty stream is a legitimate empty query.
Serve(bytes, end) ==
    CASE HasLine(bytes) -> Ask(ParseQuery(Front(bytes)))
      [] ~HasLine(bytes) /\ Len(bytes) >= MaxLine -> Close
      [] OTHER -> AtClose(end, Ask(ParseQuery(bytes)))

Response(body) == [body |-> body]
Render(reply) == reply.body

\* query reads to the end of the stream, without a limit.
Receive(bytes, end) == AtEnd(end, Ok(Response(bytes)))
=============================================================================
