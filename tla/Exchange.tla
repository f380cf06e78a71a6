------------------------------- MODULE Exchange -------------------------------
(***************************************************************************)
(* One request over one connection, as every stream protocol of the        *)
(* repository runs it: a client connects, writes its request and reads the *)
(* reply; a connection task of the server reads the request, asks its      *)
(* handler and writes the reply. What the two make of the bytes is in the  *)
(* module of the protocol: Gemini (titan too), Spartan, Nex, Finger,       *)
(* TextProtocol, Kepler, Scroll, Scorpion and Gopher.                      *)
(*                                                                         *)
(* The connection is external: it delivers a prefix of what was written,   *)
(* in order, and then its end. A peer that dies over plain TCP looks like  *)
(* one that closed; over TLS only a shutdown (close_notify) ends the       *)
(* stream, anything else is an error.                                      *)
(***************************************************************************)
EXTENDS Lines

CONSTANTS
    Calls,          \* the requests a client may be asked for
    Replies,        \* the replies of the handlers, by protocol
    Window,         \* how many bytes a connection holds unread
    MaxLine, MaxUpload, MaxBody, MaxUri

ASSUME ExchangeAssumption ==
    /\ Window \in Nat \ {0}
    /\ {MaxLine, MaxUpload, MaxBody, MaxUri} \subseteq Nat

VARIABLES
    call,           \* the protocol and what the client was asked for, or raw bytes
    client,         \* pc, the request it writes, how much it has read, its result
    server,         \* pc, how much it has read, what it made of it, the reply and its
                    \* bytes, and whether the reply was cut short
    up, down        \* the two directions: the bytes written and the end of the stream

vars == <<call, client, server, up, down>>

G == INSTANCE Gemini
S == INSTANCE Spartan
N == INSTANCE Nex
F == INSTANCE Finger
T == INSTANCE TextProtocol
K == INSTANCE Kepler
C == INSTANCE Scroll
P == INSTANCE Scorpion
H == INSTANCE Gopher

----------------------------------------------------------------------------
\* The protocols by their transport and by the timeouts their code has.
Protocols == {"gemini", "titan", "spartan", "nex", "finger", "text", "kepler", "keplers",
              "scroll", "scorpion", "gopher", "gopherplus"}
Secure == {"gemini", "titan", "scroll", "keplers"}

\* Mutant: the spartan client has no timeout.
TimedClientsNexOnly == {"nex"}

TimedClients == {"spartan", "nex"}

\* Mutant: the gopher server reads without a timeout.
TimedReadersNotGopher == {"gemini", "spartan", "nex", "finger"}

TimedReaders == {"gemini", "spartan", "nex", "finger", "gopher"}

TimedWriters == {"spartan", "nex"}

\* What a client writes for the request it was given.
ClientBytes(c) ==
    CASE ~c.own -> c.input
      [] c.own /\ c.proto = "gemini" -> G!RequestLine(c.input)
      [] c.own /\ c.proto = "titan" -> G!TitanRequest(c.input)
      [] c.own /\ c.proto = "spartan" -> S!Wire(c.input)
      [] c.own /\ c.proto = "nex" -> N!Wire(c.input)
      [] c.own /\ c.proto = "finger" -> F!Wire(c.input)
      [] c.own /\ c.proto = "text" -> T!RequestLine(c.input)
      [] c.own /\ c.proto \in {"kepler", "keplers"} -> K!RequestLine(c.input)
      [] c.own /\ c.proto = "scroll" -> C!RequestLine(c.input)
      [] c.own /\ c.proto = "scorpion" -> P!RequestLine(c.input)
      [] c.own /\ c.proto \in {"gopher", "gopherplus"} -> H!RequestLine(c.input)

\* What the client refuses to send at all.
Refuses(c) ==
    \/ c.own /\ c.proto = "gemini" /\ G!Refused(c.input)
    \/ c.own /\ c.proto \in {"kepler", "keplers"} /\ K!Refused(c.input)

\* The request the handler is meant to see.
Meant(c) ==
    CASE c.proto = "scorpion" -> [c.input EXCEPT !.url = P!StripFragment(@)]
      [] c.proto \in {"gopher", "gopherplus"} -> H!Meant(c.input)
      [] OTHER -> c.input

\* What the server makes of the bytes so far.
Serve(p, bytes, end) ==
    CASE p = "gemini" -> G!Serve(bytes, end)
      [] p = "titan" -> G!ServeTitan(bytes, end)
      [] p = "spartan" -> S!Serve(bytes, end)
      [] p = "nex" -> N!Serve(bytes, end)
      [] p = "finger" -> F!Serve(bytes, end)
      [] p = "text" -> T!Serve(bytes, end)
      [] p \in {"kepler", "keplers"} -> K!Serve(bytes, end)
      [] p = "scroll" -> C!Serve(bytes, end)
      [] p = "scorpion" -> P!Serve(bytes, end)
      [] p \in {"gopher", "gopherplus"} -> H!Serve(bytes, end)

\* What the server writes for a reply.
ServerBytes(p, outcome, reply) ==
    CASE p \in {"gemini", "titan"} -> G!Render(reply)
      [] p = "spartan" -> S!Render(reply)
      [] p = "nex" -> N!Render(reply)
      [] p = "finger" -> F!Render(reply)
      [] p = "text" -> T!Render(reply)
      [] p \in {"kepler", "keplers"} -> K!Render(reply)
      [] p = "scroll" -> C!Render(reply)
      [] p = "scorpion" -> P!Render(reply)
      [] p = "gopher" -> H!Render(outcome.request, reply.body)
      [] p = "gopherplus" -> H!RenderForeign(reply)

\* What the client makes of the bytes so far.
Receive(c, bytes, end) ==
    LET p == c.proto
    IN CASE p \in {"gemini", "titan"} -> G!Receive(bytes, end)
         [] p = "spartan" -> S!Receive(bytes, end)
         [] p = "nex" -> N!Receive(bytes, end)
         [] p = "finger" -> F!Receive(bytes, end)
         [] p = "text" -> T!Receive(bytes, end)
         [] p \in {"kepler", "keplers"} -> K!Receive(bytes, end)
         [] p = "scroll" -> C!Receive(bytes, end)
         [] p = "scorpion" -> P!Receive(bytes, end, IF c.own THEN c.input.parameter ELSE P!NoParameter)
         [] p \in {"gopher", "gopherplus"} ->
              H!Receive(bytes, end, IF c.own THEN c.input ELSE H!Url(<<>>, <<>>, <<>>))

\* What is written is tokens, and a range has numbers for its ends.
ASSUME CallsAssumption ==
    \A c \in Calls :
        /\ c.proto \in Protocols /\ ClientBytes(c) \in Seq(STRING)
        /\ c.own /\ c.proto = "scorpion" /\ c.input.parameter.kind = "range" =>
              {c.input.parameter.start, c.input.parameter.end} \subseteq Int

ASSUME RepliesAssumption ==
    \A p \in Protocols \ {"gopher"} : \A reply \in Replies[p] :
        ServerBytes(p, More, reply) \in Seq(STRING)

----------------------------------------------------------------------------
\* How a stream ends for the reader when its writer drops it.
DropEnds == IF call.proto \in Secure THEN {"error"} ELSE {"eof", "error"}

\* After a shutdown it ends cleanly, unless bytes the peer sent were never read: then
\* the kernel may reset the connection.
ShutdownEnds == IF server.read < Len(up.bytes) THEN {"eof", "error"} ELSE {"eof"}

NoReply == [body |-> <<>>]

Init ==
    /\ call \in Calls
    /\ client = [pc |-> "connect", request |-> ClientBytes(call), read |-> 0, result |-> More]
    /\ server = [pc |-> "accept", read |-> 0, outcome |-> More, reply |-> NoReply,
                 bytes |-> <<>>, cut |-> FALSE]
    /\ up = [bytes |-> <<>>, end |-> "open"]
    /\ down = [bytes |-> <<>>, end |-> "open"]

\* The client's call returns, and its stream is dropped.
ClientReturns(result) ==
    /\ client' = [client EXCEPT !.pc = "done", !.result = result]
    /\ \E end \in DropEnds : up' = [up EXCEPT !.end = end]
    /\ UNCHANGED <<call, down>>

ClientConnects ==
    /\ client.pc = "connect" /\ ~Refuses(call)
    /\ client' = [client EXCEPT !.pc = "write"]
    /\ server' = [server EXCEPT !.pc = "read"]
    /\ UNCHANGED <<call, up, down>>

ClientRefuses ==
    /\ client.pc = "connect" /\ Refuses(call)
    /\ ClientReturns(Err("refused"))
    /\ UNCHANGED server

ConnectFails ==
    /\ client.pc = "connect"
    /\ ClientReturns(Err("connect"))
    /\ UNCHANGED server

\* write_all: some more of the request fits into the connection.
ClientWrites(n) ==
    LET bytes == client.request
        written == Len(up.bytes) + n
    IN /\ client.pc = "write"
       /\ written <= Len(bytes) /\ written - server.read <= Window
       /\ up' = [up EXCEPT !.bytes = SubSeq(bytes, 1, written)]
       /\ client' = [client EXCEPT !.pc = IF written = Len(bytes) THEN "read" ELSE "write"]
       /\ UNCHANGED <<call, server, down>>

\* The server has gone while the request was being written.
ClientWriteFails ==
    /\ client.pc = "write" /\ server.pc = "done"
    /\ ClientReturns(Err("io"))
    /\ UNCHANGED server

\* A read returns some bytes, or the end of the stream when there are no more.
ClientReads(n) ==
    LET read == client.read + n
        end == IF n = 0 THEN down.end ELSE "open"
        outcome == Receive(call, SubSeq(down.bytes, 1, read), end)
    IN /\ client.pc = "read"
       /\ read <= Len(down.bytes)
       /\ n = 0 => client.read = Len(down.bytes) /\ down.end # "open"
       /\ IF outcome = More
          THEN client' = [client EXCEPT !.read = read] /\ UNCHANGED <<call, up, down>>
          ELSE ClientReturns(outcome)
       /\ UNCHANGED server

ClientTimesOut ==
    /\ call.proto \in TimedClients /\ client.pc \in {"connect", "write", "read"}
    /\ ClientReturns(Err("timeout"))
    /\ UNCHANGED server

\* The caller drops the future, or the client's process dies.
ClientGoes ==
    /\ client.pc \in {"write", "read"}
    /\ ClientReturns(Err("gone"))
    /\ UNCHANGED server

\* The peer's end of the connection stays open and nothing comes or goes.
ClientStalls ==
    /\ client.pc \in {"write", "read"}
    /\ client' = [client EXCEPT !.pc = "stalled"]
    /\ UNCHANGED <<call, server, up, down>>

----------------------------------------------------------------------------
\* The connection task ends and its stream is dropped or shut down.
ServerEnds(s, ends) ==
    /\ server' = [s EXCEPT !.pc = "done"]
    /\ \E end \in ends : down' = [down EXCEPT !.end = end]
    /\ UNCHANGED <<call, client, up>>

Replying(s, reply) ==
    [s EXCEPT !.pc = "write", !.reply = reply,
              !.bytes = ServerBytes(call.proto, s.outcome, reply)]

\* One byte, or the end of the stream.
ServerReads ==
    LET more == server.read < Len(up.bytes)
        read == IF more THEN server.read + 1 ELSE server.read
        outcome == Serve(call.proto, SubSeq(up.bytes, 1, read), IF more THEN "open" ELSE up.end)
        s == [server EXCEPT !.read = read, !.outcome = outcome]
    IN /\ server.pc = "read"
       /\ more \/ up.end # "open"
       /\ \/ /\ outcome.kind = "more" /\ server' = s
             /\ UNCHANGED <<call, client, up, down>>
          \/ /\ outcome.kind = "ask" /\ server' = [s EXCEPT !.pc = "handle"]
             /\ UNCHANGED <<call, client, up, down>>
          \/ /\ outcome.kind = "reply"
             /\ server' = Replying(s, outcome.reply)
             /\ UNCHANGED <<call, client, up, down>>
          \/ outcome.kind = "close" /\ ServerEnds(s, {"eof"})
          \/ outcome.kind = "fail" /\ ServerEnds(s, DropEnds)

\* The handler answers, a partial body only to a range.
ServerHandles ==
    /\ server.pc = "handle"
    /\ \E reply \in Replies[call.proto] :
          /\ call.proto = "scorpion" /\ reply.status = P!PartialStatus =>
                server.outcome.request.parameter.kind = "range"
          /\ server' = Replying(server, reply)
    /\ UNCHANGED <<call, client, up, down>>

\* write_all of the reply, and the shutdown after its last byte.
ServerWrites(n) ==
    LET written == Len(down.bytes) + n
    IN /\ server.pc = "write"
       /\ written <= Len(server.bytes) /\ written - client.read <= Window
       /\ n = 0 => server.bytes = <<>>
       /\ IF written = Len(server.bytes)
          THEN /\ server' = [server EXCEPT !.pc = "done"]
               /\ \E end \in ShutdownEnds : down' = [bytes |-> server.bytes, end |-> end]
          ELSE /\ down' = [down EXCEPT !.bytes = SubSeq(server.bytes, 1, written)]
               /\ UNCHANGED server
       /\ UNCHANGED <<call, client, up>>

ServerWriteFails ==
    /\ server.pc = "write" /\ client.pc = "done"
    /\ ServerEnds([server EXCEPT !.cut = TRUE], DropEnds)

ServerTimesOut ==
    /\ \/ server.pc = "read" /\ call.proto \in TimedReaders
       \/ server.pc = "write" /\ call.proto \in TimedWriters
    /\ ServerEnds([server EXCEPT !.cut = TRUE], DropEnds)

\* The server's process dies.
ServerDies ==
    /\ server.pc \in {"read", "handle", "write"}
    /\ ServerEnds([server EXCEPT !.cut = TRUE], DropEnds)

ServerStalls ==
    /\ server.pc \in {"read", "handle", "write"}
    /\ server' = [server EXCEPT !.pc = "stalled"]
    /\ UNCHANGED <<call, client, up, down>>

----------------------------------------------------------------------------
ClientWrite == \E n \in 1..Window : ClientWrites(n)
ClientRead == \E n \in 0..Window : ClientReads(n)
ServerWrite == \E n \in 0..Window : ServerWrites(n)

Next ==
    \/ ClientConnects \/ ClientRefuses \/ ConnectFails
    \/ ClientWrite \/ ClientWriteFails \/ ClientRead
    \/ ClientTimesOut \/ ClientGoes \/ ClientStalls
    \/ ServerReads \/ ServerHandles \/ ServerWrite \/ ServerWriteFails
    \/ ServerTimesOut \/ ServerDies \/ ServerStalls

\* When a reader or a handler can go on.
ClientCanRead == client.pc = "read" /\ (client.read < Len(down.bytes) \/ down.end # "open")
ServerCanRead == server.pc = "read" /\ (server.read < Len(up.bytes) \/ up.end # "open")
ServerCanHandle == server.pc = "handle"

\* A task that is not stalled is scheduled, the kernel delivers, a timer fires. The first
\* three are weak fairness with the enabling condition written out.
Fairness ==
    /\ <>[]ClientCanRead => []<><<ClientRead>>_vars
    /\ <>[]ServerCanRead => []<><<ServerReads>>_vars
    /\ <>[]ServerCanHandle => []<><<ServerHandles>>_vars
    /\ WF_vars(ClientConnects) /\ WF_vars(ClientRefuses) /\ WF_vars(ClientWrite)
    /\ WF_vars(ClientWriteFails) /\ WF_vars(ClientTimesOut)
    /\ WF_vars(ServerWrite) /\ WF_vars(ServerWriteFails) /\ WF_vars(ServerTimesOut)

Spec == Init /\ [][Next]_vars /\ Fairness

----------------------------------------------------------------------------
\* The servers that take the end of a plain stream for the end of the line.
EndsAtEof == {"nex", "finger", "gopher", "gopherplus", "scorpion"}

\* The client left before its request was written.
Abandoned == up.end # "open" /\ up.bytes # client.request

\* A handler is asked for what the client was given, the whole upload included: the bytes
\* of the client's formatter come back from the server's parser, and a client that goes
\* away in the middle never leaves a handler with half a request, except where the end of
\* a plain stream ends the line.
AskedAsMeant ==
    server.outcome.kind = "ask" /\ call.own =>
        \/ server.outcome.request = Meant(call)
        \/ call.proto \in EndsAtEof /\ up.end = "eof" /\ Abandoned

\* What the server of each protocol lets through of the requests its client sends. Only
\* gemini's client knows its server's limit, and it does not know that a fragment is
\* refused; kepler's measures the URI, its server the whole line; the others measure nothing.
WithinLimits(c) ==
    CASE c.proto = "gemini" -> ~Contains(c.input, "#")
      [] c.proto = "spartan" ->
           /\ Len(S!Wire(c.input)) - Len(c.input.data) <= MaxLine
           /\ Len(c.input.data) <= MaxUpload
      [] c.proto = "scorpion" -> Len(P!RequestLine(c.input)) - 1 <= MaxLine
      [] c.proto \in {"kepler", "keplers"} -> Len(K!RequestLine(c.input)) - 2 <= MaxUri
      [] c.proto \in {"nex", "finger", "gopher", "gopherplus"} -> Len(ClientBytes(c)) <= MaxLine
      [] OTHER -> TRUE

\* A request that its own client sends is never refused for its form, and for its length
\* exactly when it is over the server's limit: then no handler is asked. The limits count
\* the carriage return, the line feed or the upload each in its own way.
OwnRequestAccepted ==
    call.own =>
        \/ Abandoned
        \/ WithinLimits(call) /\ server.outcome.kind \in {"more", "ask"}
        \/ ~WithinLimits(call) /\ server.outcome.kind # "ask"

\* The response a client should return for a reply that arrived whole: of a partial body
\* what the range asked for.
Expected ==
    CASE call.proto = "gopher" /\ call.input.plus = <<>> ->
           [mime |-> H!Mime(H!SplitPath(call.input.path)[1]), body |-> server.reply.body]
      [] call.proto = "gopher" /\ call.input.plus # <<>> ->
           [header |-> H!Length(Len(server.reply.body)), body |-> server.reply.body]
      [] call.proto = "gopherplus" ->
           [header |-> H!ParseHeader(server.reply.header), body |-> server.reply.body]
      [] call.proto = "scorpion" /\ server.reply.status = P!PartialStatus
           /\ call.input.parameter.end # P!NoEnd ->
           [server.reply EXCEPT !.body = Take(@, P!RangeLen(call.input.parameter))]
      [] OTHER -> server.reply

\* The protocols that close a connection without a reply, which reads as an empty body.
Statusless == {"nex", "finger", "gopher"}

\* The protocols whose response a broken connection cannot change: over TLS the end is
\* authenticated, scorpion's size is checked against what arrives.
Certain(response) ==
    \/ call.proto \in Secure
    \/ /\ call.proto = "scorpion" /\ response.status = <<"2", "0">> /\ response.body # <<>>
       /\ response.parameters[1] # <<"?">>

\* What may be left behind the body when a period-terminated one is cut within the period.
Trailer == IF call.proto = "gopherplus" THEN H!Period ELSE <<>>

\* The length that the header of a response declares for its body; -1 when it has none.
Declared(response) ==
    CASE call.proto = "kepler" /\ Len(response.cache) = 3 -> response.cache[1]
      [] call.proto \in {"gopher", "gopherplus"} /\ "header" \in DOMAIN response ->
           IF response.header.kind = "length" THEN response.header.count ELSE -1
      [] OTHER -> -1

\* A connection cut over plain TCP shortens the body, and the header only where the end of
\* the stream ends the line. A body whose length was declared comes back short as well,
\* without an error (kepler, Gopher+), but never with the length that its header declares.
Shortened(got) ==
    /\ server.cut /\ ~Certain(Expected)
    /\ IsPrefix(got.body, Expected.body \o Trailer)
    /\ call.proto = "spartan" => [got EXCEPT !.body = Expected.body] = Expected
    /\ "code" \in DOMAIN got => got.code = Expected.code
    /\ "status" \in DOMAIN got => got.status = Expected.status
    /\ Declared(got) >= 0 => Declared(got) # Len(got.body)

\* A scorpion body without a declared length of its own, longer than max_body: read_to_end_capped
\* returns its beginning and no error.
OverLimit(got) ==
    /\ call.proto = "scorpion" /\ Len(Expected.body) > MaxBody
    /\ Expected.status = P!PartialStatus \/ Expected.parameters[1] = <<"?">>
    /\ got = [Expected EXCEPT !.body = Take(@, MaxBody)]

\* What a client returns is what the server replied, whole, except for a body that a broken
\* plain connection cut short or that scorpion's client cut at its limit.
ResponseFaithful ==
    LET got == client.result.response
    IN client.result.kind = "ok" /\ call.own =>
          \/ /\ server.outcome.kind \notin {"ask", "reply"}
             /\ call.proto \in Statusless /\ got.body = <<>>
          \/ /\ server.outcome.kind \in {"ask", "reply"}
             /\ got = Expected \/ Shortened(got) \/ OverLimit(got)

\* No side holds more than its limits allow: a server the request line and an upload, a
\* client the body its caller permits (header and body together for spartan and nex).
CapsHonoured ==
    /\ call.proto \in {"gemini", "spartan", "nex", "finger", "gopher", "scorpion"} =>
           server.read <= MaxLine + MaxUpload + 1
    /\ call.proto = "spartan" /\ server.outcome.kind = "ask" =>
           Len(server.outcome.request.data) <= MaxUpload
    /\ call.proto \in {"spartan", "nex", "scorpion"} /\ client.result.kind = "ok" =>
           Len(client.result.response.body) <= MaxBody

\* A client's call returns, unless its peer stalls and its protocol has no timeout.
ClientReturnsAtLast ==
    <>(\/ client.pc \in {"done", "stalled"}
       \/ server.pc = "stalled" /\ call.proto \notin {"spartan", "nex"})

\* A connection task ends once it has a connection, whatever its client does: a stalled
\* client can hold it only where the code has no timeout for that step.
Held == client.pc = "stalled" /\ server.pc \in {"read", "write"}
ServerEndsAtLast ==
    server.pc = "read" ~>
        \/ server.pc \in {"done", "stalled"}
        \/ Held /\ server.pc = "write" /\ call.proto \notin {"spartan", "nex"}
        \/ Held /\ server.pc = "read"
             /\ call.proto \notin {"gemini", "spartan", "nex", "finger", "gopher"}
=============================================================================
