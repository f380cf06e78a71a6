-------------------------------- MODULE Spartan --------------------------------
(***************************************************************************)
(* The spartan exchange of crates/spartan-protocol: the client's fetch,    *)
(* submit and request, the server's read_request and encode.               *)
(*                                                                         *)
(* A request line is "host SP path SP content-length CRLF", the data block *)
(* follows. Host and path are sequences of tokens.                         *)
(***************************************************************************)
EXTENDS Lines

CONSTANTS
    MaxLine,        \* ServerConfig::max_request_line
    MaxUpload,      \* ServerConfig::max_upload
    MaxBody         \* FetchOptions::max_body

----------------------------------------------------------------------------
\* split_url: the query of the URL, percent-decoded, becomes the data block of a fetch;
\* submit sends its own data instead. An empty path is "/", and request_host decodes
\* the escapes of the host.
UrlPath(url) == IF url.path = <<>> THEN <<"/">> ELSE url.path
RequestOf(url, data) == [host |-> PercentDecode(url.host), path |-> UrlPath(url), data |-> data]
FetchRequest(url) == RequestOf(url, PercentDecode(url.query))
SubmitRequest(url, data) == RequestOf(url, data)

\* request: the request line and the data block.
Wire(request) ==
    request.host \o <<SP>> \o request.path \o <<SP>> \o Decimal[Len(request.data)]
        \o CRLF \o request.data

----------------------------------------------------------------------------
\* SpartanResponse::encode. Only a success has a body.
Response(status, meta, body) == [status |-> status, meta |-> meta, body |-> body]
Render(response) == <<response.status, SP>> \o response.meta \o CRLF \o response.body
Refusal == Answer(Response("4", <<"reason">>, <<>>))

\* The port is no part of the host, a bracketed address may hold a colon.
GoodHost(host) ==
    \/ host # <<>> /\ ~Contains(host, ":")
    \/ host # <<>> /\ Head(host) = "[" /\ Last(host) = "]"

\* Mutant: the block is read with one read.
BlockReadSoFar(data, length) == Len(data) >= length \/ data # <<>>

\* The block is whole.
BlockRead(data, length) == Len(data) >= length

\* read_request after the line: data is what has been read of the block.
ParseLine(line, data, end) ==
    LET fields == Split(TrimEnd(line, {CR, LF}), SP)
        length == Number(fields[3])
    IN IF \/ ~IsUtf8(line) \/ Len(fields) # 3
          \/ ~GoodHost(fields[1])
          \/ fields[2] = <<>> \/ Head(fields[2]) # "/"
          \/ ~IsNumber(fields[3]) \/ length > MaxUpload
       THEN Refusal
       ELSE IF BlockRead(data, length)
       THEN Ask([host |-> fields[1], path |-> fields[2], data |-> Take(data, length)])
       ELSE UnlessEnded(end)

\* read_request: the line ends with CRLF, at the end of the stream, or at the limit,
\* which counts the CRLF. The block is read exactly, by read_exact.
Serve(bytes, end) ==
    LET parts == SplitHeader(bytes)
    IN CASE Len(parts) = 2 -> ParseLine(parts[1], parts[2], end)
         [] Len(parts) = 1 /\ Len(bytes) >= MaxLine -> Refusal
         [] OTHER -> AtClose(end, ParseLine(bytes, <<>>, end))

----------------------------------------------------------------------------
\* Status::from_code.
Statuses == {"2", "3", "4", "5"}

\* parse_response. The code is parsed as a number and must be one of the four.
ParseResponse(raw) ==
    LET parts == SplitHeader(raw)
        words == SplitOnce(parts[1], SP)
        code == Number(words[1])
        status == Digits[code + 1]
    IN IF Len(parts) = 1 \/ ~IsUtf8(parts[1]) \/ ~IsNumber(words[1]) \/ code \notin 2..5
       THEN Err("protocol")
       ELSE Ok(Response(status,
                        IF Len(words) = 1 THEN <<>> ELSE Trim(words[2], White),
                        IF status = "2" THEN parts[2] ELSE <<>>))

\* request reads to the end of the stream under the cap, which counts the header too.
Receive(bytes, end) ==
    IF Len(bytes) > MaxBody THEN Err("too large") ELSE AtEnd(end, ParseResponse(bytes))
=============================================================================
