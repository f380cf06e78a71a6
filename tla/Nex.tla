---------------------------------- MODULE Nex ----------------------------------
(***************************************************************************)
(* The nex exchange of crates/nex-protocol: a selector line, a body, no    *)
(* status.                                                                 *)
(***************************************************************************)
EXTENDS Lines

CONSTANTS
    MaxLine,        \* ServerConfig::max_request_line
    MaxBody         \* FetchOptions::max_body

\* fetch_path: the path of the URL as it stands.
Wire(path) == path \o CRLF

\* handle_connection: a line feed or the end of the stream ends the selector; one that
\* reaches the limit is answered by closing the connection.
Selector(line) == TrimEnd(line, {CR})
Serve(bytes, end) ==
    CASE HasLine(bytes) -> Ask(Selector(Front(bytes)))
      [] ~HasLine(bytes) /\ Len(bytes) >= MaxLine -> Close
      [] OTHER -> AtClose(end, Ask(Selector(bytes)))

\* The body is whatever the handler wrote.
Response(body) == [body |-> body]
Render(reply) == reply.body

\* fetch_path's read: to the end of the stream under the cap.
Receive(bytes, end) ==
    IF Len(bytes) > MaxBody THEN Err("too large") ELSE AtEnd(end, Ok(Response(bytes)))
=============================================================================
