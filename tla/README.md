# TLA+ models of smolweb

smolweb is a workspace of thirteen Rust crates, each a client, a server or both
for one protocol of the small internet. They share no state with each other, but
for one trust store that gemini and scroll have in common. This directory holds
TLA+ models of the crates (sessions, servers, stores and files, the exchanges over one
connection, and the formats they carry), TLC configurations that check them on
small instances, and proofs checked by TLAPS. `PROJECT.json` lists the components,
runs, mutants, hazards, findings and theorems, and maps every definition to its
lines of source.

## Inventory

| Part | State | Operations | What is hard | What makes it correct |
|---|---|---|---|---|
| guppy server (`guppy-protocol/src/server.rs`) | session table by peer address; per session the packets, `next_unsent`, `unacked`, `done_at` | request, acknowledgement, tick | UDP loses, duplicates, reorders; sessions are dropped by age; sends fail | window and table bounds; a live session is never restarted; `done` only when the client has it all |
| guppy client (`client.rs`) | `Reassembly`: chunks, `contiguous_end`, `eof_seq`, `buffered` | send, receive, stall, deadline | end of file before data; duplicates; lost acknowledgements | the body is the one served; it ends; memory is bounded |
| misfin server (`misfin/src/server.rs`) | one task per connection | read, dispatch, reply | three transactions per dispatch, with other tasks, the operator and crashes between | a receipt can be believed; nothing refused is stored |
| misfin store (`mailbox.rs`) | five redb tables | store, record_sender, check_and_record_identity, forget, list | concurrent first contacts; crash between transactions | pins are stable; list is exact; mail is append-only |
| misfin client (`client.rs`) | none after the call | send | reply lost after the message was stored | receipt against the mailbox |
| misfin identity files (`identity.rs`) | one JSON file per identity | load or mint, rotate, forget | exists-then-write, non-atomic write, remove-then-write | one identity per address survives crashes and races |
| gemini TOFU (`gemini-protocol/src/tofu.rs`, `client.rs`, `tls.rs`, `titan.rs`); scroll shares it | pins by host, one installed store | tofu_connect | pin read before two awaits, written after | pins and alarms have a cause; first contact happens once |
| fsp session (`fsp-protocol/src/client.rs`, `wire.rs`) | key, 16-bit sequence number | request with retries, get_file, list | late and duplicate replies, wrap-around, resends | a reply answers its request |
| dict session (`dict-protocol/src/client.rs`, `wire.rs`) | position in the stream | command, define, match, text blocks | errors in mid-response desynchronise the stream | each answer belongs to its command; escaping round-trips |
| exchanges over one connection: gemini and titan, spartan, nex, finger, text, kepler, scroll, scorpion, gopher and Gopher+ | one connection, what was read of it | write the request, read the line and the upload, ask the handler, reply, read the response | peers that go away, stall or are cut off in the middle; limits at their boundary; the end of a plain stream proves nothing | a handler sees the request that was meant; a response is the reply or an error; limits hold; tasks end |
| formats: gemtext, scrolltext, nex and text lines, gopher menus and Gopher+ blocks, scorpion documents, gemmail | none | parse, print | documents cut anywhere; escapes, open blocks, lengths | what was written is read again; what was shown is not taken back |
| file handlers: spartan, nex, guppy | the served tree | resolve, read, list, redirect | decoding before or after splitting; `..`, empty names, directories | only files below the root; the file that was named |
| webfinger, MIME and UDC tables, X.509, TLS set-up, command lines | none | - | - | not modelled |

Interaction is by datagram (guppy, fsp), by stream (the rest), and by shared
storage: the misfin tables, written by all tasks of the server and by the
operator, and the TOFU store, written by all concurrent fetches.

## Modules

| Module | What it is |
|---|---|
| `GuppyWire` | chunking (`build_session`, `random_seq`), the datagrams, the network |
| `GuppyServer` | `serve`: sessions, window, acknowledgements, tick |
| `GuppyClient` | `fetch` and `transact`: reassembly |
| `Guppy` | server, clients and network composed; properties, fairness, refinement |
| `GuppyFetch` | abstract: a fetch returns, once, an answer the handler gave, or fails |
| `GuppyProofs` | theorems about `Guppy`, and that it implements `GuppyFetch` |
| `MisfinMailbox` | the tables and their transactions |
| `Misfin` | senders, server tasks, operator, crash, over `MisfinMailbox`; properties |
| `MisfinProofs` | theorems about `Misfin`, and about `MisfinIdentity` |
| `Tofu` | trust on first use: concurrent `tofu_connect` calls, titan uploads, the stores |
| `TofuProofs` | theorems about `Tofu` |
| `Fsp` | an FSP session over a lossy network, with a server as the client expects it |
| `FspProofs` | theorems about `Fsp` |
| `Lines` | what the exchanges and the formats share: tokens, trimming, splitting, numbers, reading a line, taking n bytes |
| `Gemini`, `Spartan`, `Nex`, `Finger`, `TextProtocol`, `Kepler`, `Scroll`, `Scorpion`, `Gopher` | what the two sides of a protocol make of the bytes: request line, parser, refusals, reply, response |
| `Exchange` | a client, a connection and a server task, for any of these protocols; properties, fairness |
| `ExchangeProofs` | theorems about `Exchange` |
| `Dict` | a DICT session: commands, text blocks, and a server that may break off |
| `DictProofs` | theorems about `Dict` |
| `MisfinIdentity` | the identity files, one file operation at a time |
| `Gemtext`, `Scrolltext`, `Listings`, `GopherMenu`, `ScorpionDocument`, `Gemmail`, `FileHandlers` | the parsers, printers and file handlers as operators |
| `Documents` | inputs that grow piece by piece through these operators; properties |
| `DocumentsProofs` | theorem about the file handlers of `Documents` |
| `LineProofs` | what the operators of `Lines` return, and induction over numbers and recursions, for the proofs |
| `MCGuppy`, `MCMisfin`, `MCTofu`, `MCFsp`, `MCExchange`, `MCDict`, `MCMisfinIdentity`, `MCDocuments` | instances for TLC |

### Guppy

A body is a document with a length; a chunk is an interval of its offsets, so a
chunk out of place, counted twice or of another body can be told from the right
one. `sessions` is the server's hash map (`NoSession` is an absent key);
a session's `packets` is a function of its document and first sequence number.
`client[p]` holds the `Reassembly` of the fetch on socket `p`; `first = NoSeq` is
`state == None`. The network `net` is a set: a receive removes the datagram or
leaves it (a duplicate), `Lose` drops it, and order is free.

Every arm of the receive loop is an action: `ReceiveAck` (`acknowledge` with the
`open_window` it calls), `IgnoreRequest` (peer known or table full),
`AnswerSuccess` (handler, `build_session`, `open_window`, insert), `AnswerSpecial`
(prompt, redirect, error, malformed URL). `Tick` drops any of the sessions that
may be too old and retransmits for any of the rest; the clock is abstracted to that
choice, and a tick that drops all sessions is also a server restart. `Sent` lets
`send_to` fail after any number of packets, at most `MaxSendErrors` times. On the
client the head of the loop (`Checked`: completeness, then size) is part of every
action that changes the reassembly. `GiveUp` is the overall deadline and any socket
error. `answered` is a history variable: the sessions built for each socket.

### Misfin

A redb transaction is one step that commits or (`StorageFails`) leaves the tables
alone. A task is at `reading`, before one of the three transactions of `dispatch`
(`identity`, `sender`, `store`), at `reply`, or gone. `Refusal` is the chain of
early returns of `dispatch` in the code's order, after the two 59s of
`read_request`. A certificate is its fingerprint; `Claim` gives the address it
claims (or none), `Expired` those outside their validity. A certificate that cannot
be parsed is one that claims nothing and is not expired, as in the code. Messages
are known by the connection that brought them. `Mismatch` is a sender that closes
after an unexpected server fingerprint; the server's task then reads an empty line.
`released` is a history variable of the pins the operator removed.

### Tofu

A call of `tofu_connect` (gemini's `fetch`, scroll's `fetch`) is three steps, with other
calls between them: `Lookup` reads the installed store and the host's pin in it,
`Handshake` ends the two awaits with the verdict of `PinningVerifier` on the pin read
then, and `PinFirst` writes the pin if there was none at the lookup. A call keeps the store it
started with when `SetTrustStore` replaces it. `Upload` is titan's, over the connector
that accepts any certificate. `Presents` is the environment: the certificates that
whoever answers for a host may present. `AcceptChange` is the embedder's `pin` after a
`CertificateChanged`. The field `held` (the host's pin at the handshake) and the
variable `overlap` (which calls were under way together) are history.

### Fsp

`session` is the `Session` and the call on it, `remaining` what is left until the deadline of `await_reply`. A request has an ordinal, which only the
model sees, and a sequence number that wraps; `Request` is the head of
`Session::request`, `Timeout` the deadline of `await_reply` (a resend of the same bytes, or
the end of the attempts), `Receive` a datagram in `await_reply` with all that follows from
it: the key, the error reply, and the next block's request or the end of the call. `Tick` is time: it takes
`remaining` to zero, and only then `Timeout` comes; `Stray`, what a datagram that does not match does to
the deadline, leaves it alone.
The server is external: it echoes the sequence number and answers from `Content` and
`Directory`, in blocks of `MaxPayload`; for a path of `Endless` a full block, or a block with an entry, comes each time. A datagram that fails `decode` is a lost one.
`Lifetime` is an assumption on the network: a datagram is gone once that many
more requests are made. In the code the modulus is 65536; the assumption is
`Lifetime < SeqMod`, and with less a very old reply answers a new request.

### Exchange and the protocol modules

`call` is what a client was asked for (or raw bytes, for requests no client of the repository
would write); `client` and `server` are the two tasks with their program counters and how
much they have read; `up` and `down` are the two directions of the connection, bytes and
end. A protocol module is stateless. Its `Serve(bytes, end)` says what the server makes of the
bytes so far: more, ask the handler with a request, reply at once, close, or fail; `Receive` says
the same of the client. Both are written from the reading loops of the code, so that a read of one
byte or of many gives what the code has at that point. A byte is a token: a letter stands for
ordinary text, and the characters the parsers look at stand for themselves.

`ServerReads` is one turn of the reading loop with the parser behind it, `ServerHandles` the
handler's answer, `ServerWrites` a part of `write_all` and, with the last one, the
shutdown; `ClientWrites` and `ClientReads` are the client's. `ClientGoes` and `ServerDies` can come at any
point, `ClientStalls` and `ServerStalls` leave the connection open with nobody at one end.
Over plain TCP a dropped connection is an end of stream or an error; over TLS only a shutdown ends
the stream (`Secure`). After a shutdown with unread bytes the kernel may reset. The
timeouts are those of the code (`TimedClients`, `TimedReaders`, `TimedWriters`).
Servers of text, kepler, scroll and titan, and a Gopher+ server of another make, are not in the
repository: they are external and built from the crates' own parsers and formatters where there are any.
The accept loop of scorpion is the caller's; its stream is closed after `serve_connection`.

### Dict

`call` is the `Session` call under way; `up`, `pending` and `down` are the lines on their way.
`Send` is `command` (the length check, the write), `DropSend` a caller that abandons the future within
`write_all`: what was written of the line is `half`, and the next command comes behind it. `ReadFirst`, `ReadBlock`,
`ReadDefinition`, `ReadClosing` are the places at which a line is read, `ReadEnd` the end of the stream there, and
`Drop` a caller that abandons the future in one of them. The server answers with any of the answers of the instance,
whole, cut, or outside the grammar. `astray` is history: a call ended inside its command or its response. The
code has no way back into step then, and no property claims one.

One loop, `SplitRun`, serves two readers with different rules. `ClientGrammar` is that of `split_params`, which reads what a
server writes. `ServerGrammar` is external: a server reads commands by RFC 2229, where an apostrophe quotes as a quotation
mark does, and a backslash escapes outside of quotes, too. `ReadCommand` takes a line that begins with no known
command for an unknown one, which is answered 500.

### Misfin identity files

Each step is one call to the file system: `Exists`, `ReadFile`, `Open` (which truncates), `Write`,
`Inspect`, `Report`, `Remove`. `ProcessDies` comes between any two. `kept` is history, the key the
callers of an address hold; `calm` are the files at which no call created or removed while another was
under way. Outside `calm` the code's lack of a lock shows: two creations leave one caller with a key that is not on
disk. `Specs`, the addresses, are sequences of characters, since `sanitize_filename` maps several to one file.
The specification and its type invariant are `IdentitySpec` and `IdentityTypeOK`: `MisfinProofs` extends `Misfin` too.

### Documents

An input of one format grows by pieces from a small set, so that all sequences up to a bound are
looked at together with the inputs they began as. `RoundTrips` writes the parsed items out as an author would and compares what that gives with the input, line by line
(`LinesKept`): no line is lost, added or moved, white space outside fences aside. Then it parses again. For scorpion blocks it cuts the encoding at every byte (`BlocksSurvive`);
`OnlyExtends` sees nothing of those, since their input grows by whole blocks. For
gopher it takes the text of an item's URL through `Url::parse` (external: fragment and query are split off, the segments `.` and
`..` are resolved, spaces are percent-encoded) and the client's `split_path`; the selector comes back as it was where there is
nothing of that in it (`Verbatim`). `ServedFromRoot` compares
each handler with `Followed`, a reading of the decoded path that knows nothing of the handlers, and a listing, read by the
client's `parse_listing`, with the entries of the directory. A nex listing begins with the path as it was asked for
(`Heading`), which is free text.

## Runs

| Run | Instance | Checks | States |
|---|---|---|---|
| `guppy_transfer` | one socket, a body of four packets, window 2, one failing send, deadlines at any time | `TypeOK`, `BodyExact`, `DoneMeansDelivered`, `WindowRespected`, `BufferBounded`, `SessionStable` | 379,601 |
| `guppy_live` | one socket, three packets, `MaxBody` one above the body, no failing send, long deadlines | `FetchServed`, `RefinesTransaction` | 3,003 |
| `guppy_send_error` | as live, with one failing send | violation of `FetchServed` | - |
| `guppy_too_large` | as live, with `MaxBody` the length of the body | violation of `RefusedOnlyIfLarger` | - |
| `misfin_delivery` | two connections, four certificates (two claim one address, one claims none, one expired), three addresses | `TypeOK`, `ReceiptHonest`, `MailAdmissible`, `PinHonoured`, `IndexExact`, `PinStable`, `AppendOnly` | 62,521 |
| `tofu_pins` | three calls, two hosts, one of which has two certificates, the permissive and an in-memory store | `TypeOK`, `PinProvenance`, `NoFalseAlarm`, `FirstContactOnce` | 112,624 |
| `fsp_session` | four paths (two full blocks, a short block, refused, one without end), a directory of three blocks, modulus 3, lifetime 2, two attempts, a deadline of two ticks, calls start up to the fourth request | `TypeOK`, `KeyCurrent`, `FileExact`, `ListExact`, `RequestEnds`, `CallReturns` | 379,841 |
| `tofu_race` | as `tofu_pins` | violation of `LaterVisitsMatch` | - |
| `exchange` | twelve protocols, requests and replies at their limits and past them, window of 3 bytes | `AskedAsMeant`, `OwnRequestAccepted`, `ResponseFaithful`, `CapsHonoured`, `ClientReturnsAtLast`, `ServerEndsAtLast` | 108,798 |
| `dict_session` | two calls of ten, answers of every shape, calls dropped after none, one or four tokens of their line | `AnswersOwn`, `BetweenResponses`, `CommandAsMeant` | 3,993,286 |
| `identity_files` | two processes, two addresses with one file name, three keys | `IdentityKept`, `NothingOverwritten`, `RotateRenews` | 143,244 |
| `documents` | eleven kinds of input, of up to three to five pieces | `RoundTrips`, `ServedFromRoot`, `OnlyExtends` | 224,316 |

**Bounds.** Four packets and a window of two is the smallest transfer in which the
window fills, opens by acknowledgements out of order and the end of file can
overtake two data packets; a session that was dropped may be built again for the same
request while the first one's packets are in flight. The six sequence numbers leave one
place for it: a second place takes the run out of reach, and the proofs cover it. With one socket the cap of the session
table says nothing; `SessionCap` is proved and in no run.
In misfin, two connections give every race of two dispatches; four certificates give
every branch of `dispatch`. `RejectChangedSender` is on and `RequireSenderIdentity` off
in the run (with it on, the certificate without an address is refused early); the
proofs cover all four settings. In `tofu_pins` two calls race and a third finds what
they left; a second host shows that pins are kept apart. In `fsp_session` the four requests and
those of the last call wrap the sequence number more than once, with replies of the previous
request and its resends in flight; `MaxRequests` is the bound. It may stop: `bye`
consumes the session. Two ticks are the least deadline that a stray reply between them could extend. Sockets, calls and connections are interchangeable, so
permutations of them are symmetries; the run with liveness uses none. No counter
is unbounded but `sendErrors`, which is bounded by `MaxSendErrors`.
`misfin_delivery` may stop: when each connection has had its delivery nothing is left to do.

In `exchange` the limits (`MaxLine` 12 tokens, `MaxUpload` 3, `MaxBody` 8, `MaxUri` 14) are such
that requests and replies at them and past them are among the inputs of each protocol that has the limit; a
window smaller than a request makes both sides block and lets a peer go in the middle of
anything. There is one request per connection, so the run stops. In `dict_session` a
second call is enough to meet what the first one left; `MaxLine` lets the longest word be refused. `Cuts` is where a call
can be dropped in its line: before it, within its first word, and at its fourth token; only a session in step leaves a line
unfinished, so there is at most one torn line. Three keys let each
process mint and one rotate. Where `documents` stops an input has its bound of pieces, which is
enough for a block to open, hold an escape and close, and for `..` to follow a
name. `Base` 2 makes the length fields of a scorpion block overflow at four and eight bytes.

**Fairness** (`LiveSpec`). The network is fair-lossy: a datagram that is in flight
again and again is received in the end (strong fairness per kind and sequence
number), which is the least under which retransmission is of use. `transact` calls
`recv` with `retransmit_after`, so a stall happens when nothing is under way to the
client (weak fairness of `Stall` under `Quiet`). `serve`'s interval timer always ticks
(weak fairness of `Tick`). No fairness is assumed of losses, fetches or drops. In `fsp_session` time passes (weak fairness of `Tick`)
and the task whose deadline is over is scheduled (weak fairness of `Timeout`). That a deadline is reached although stray
datagrams keep coming is not assumed: it is `RequestEnds`, and it fails when they restart the wait.
Nothing is assumed of the network or the server.
In `exchange` a task that is not stalled is scheduled, the kernel delivers what was written,
and the timers of the code fire (weak fairness; for the reads and the handler its enabling
condition is written out, for TLC would evaluate the parsers to find it). Nothing is assumed of a
stalled peer. The two properties say which tasks a stalled peer can hold: those
without a timeout at that step.
In the guppy liveness runs the two 30 s deadlines are longer than a transfer
(`DeadlinesRace = FALSE`); a deadline would end any fetch, and the
property would say nothing.

## Findings

* **`guppy_send_error`**: `open_window` stops when `send_to` fails. If that is the first
  packet of a session, nothing is unacknowledged, so nothing is retransmitted;
  repeated requests are ignored as belonging to a live session; no acknowledgement
  can come. `lib.rs:15` says "Lost packets are handled by retransmission on both
  sides". The session is stuck until `session_timeout`.
* **`guppy_too_large`**: `Reassembly::insert` counts the bytes of a chunk before it looks whether the chunk
  is there already (`client.rs:135`). A chunk that is repeated counts again, so a body within `max_body` is refused as
  too large, against `client.rs:20` ("Refuse reassembled bodies larger than this"). With the default of 16 MiB it
  takes a large body and many lost acknowledgements. `FetchServed` excepts the fetches whose chunks, counted like that,
  exceed the limit.
* **`tofu_race`**: `tofu.rs:4` promises that every later visit must present the
  certificate pinned on first contact. `tofu_connect` decides by a pin it read before two
  awaits. A fetch that looked a new host up, and shakes hands after another fetch has
  pinned it, accepts another certificate and overwrites the pin; no
  `CertificateChanged` is raised. What does hold, and is proved, is
  `FirstContactOnce`: it takes fetches that overlap.

**Remarks**: behaviour met while modelling that no run is about.

* guppy: a body over `max_body` is returned when the chunk that crosses the limit also completes it
  (`client.rs:177` before 180; line 20 says "Refuse reassembled bodies larger than this"). The excess is
  one chunk at most, as `BufferBounded` shows.
* titan: `titan.rs:3` and 67 say that uploads use gemini's TOFU verifier; `connector()`
  accepts any certificate, as `tls.rs:12` says.
* misfin identities: `a+b@h` and `a_b@h` have one file, and `load_or_create_identity` does not
  compare the address in it: the second address is given the identity of the first.
* kepler: a body shorter than its declared length is returned, though `client.rs:161` says it is
  "read exactly"; Gopher+ returns a short counted body likewise (`plus.rs:30`: "exactly this many bytes"). Both return the
  header with it, and `ResponseFaithful` says that the length it declares is then not that of the body.
* the limits of client and server differ. Only gemini's client knows its server's limit. It does not know that its server
  refuses a fragment. kepler's limits the URI, its server the whole line. Those of spartan, scorpion, nex,
  finger and gopher check no length, and their servers refuse a longer line or upload. `OwnRequestAccepted` says for
  each protocol which requests are let through.
* scorpion: a partial body (21), or one of unknown size, that is longer than `max_body` comes back cut, without an
  error (`client.rs:187-191`, 216; the comment at 223 says "refusing to buffer more than `cap` bytes").
* fsp: `get_file` and `list` go on for as long as full or non-empty blocks come; only the single request has a limit.
* dict: `quote` protects white space and quotation marks. An apostrophe or a backslash in a parameter without
  those goes out bare (`client.rs:269-275`), and a server that reads by RFC 2229 takes it for the beginning of a quoted text or
  for an escape: `don't` is not read as it was meant. A call dropped inside `write_all` leaves part of its line in the stream,
  and the next command is read together with it.
* gopher: `client.rs:4` says the selector is sent verbatim. A selector of a menu with a space, a `?`, a `#` or a segment of dots
  goes through `Url::parse` (91) and is sent percent-encoded, as a query, cut, or resolved.
* nex: the first line of a listing is the selector as it was sent (`server.rs:167`), and `listing.rs:19` reads a selector like
  `=> x/` as a link to something that is no entry. Guppy and nex serve a directory without a redirect, so relative links
  of an index or a listing asked for without the slash lead elsewhere.
* text, kepler, scorpion and Gopher+ clients take the end of a plain stream for the end of a header line; the nex, finger, gopher
  and scorpion servers do so with the request line and hand the part to the handler
  (`AskedAsMeant` and `ResponseFaithful` name these cases).
* nex, finger, gopher: an over-long selector is answered by closing, which the client returns as an empty
  success.
* scorpion: `Truncated` always reports `received: 0`; `Reply::Status` with a 4x puts its message where a
  client parses the retry delay.
* gopher: a body that is only `.` keeps its period.
* gemmail: rendering loses one trailing blank line; an empty recipients line is not rendered and lets a later one
  through.
* nex: an entry with white space in its name is listed as a URL and a label; `file/` gives an empty
  listing.
* dict: a word with a line break would be two commands; words are assumed to have none.

`BodyExact` carries a premise: the server built one session for the socket. If a
session is dropped while its client is waiting and a delayed duplicate of the request
builds another under other sequence numbers, the client mixes the chunks of both. With
the default settings (30 s for the fetch and for the session) the fetch has ended by then;
it takes a fetch timeout longer than `session_timeout`, or a server restart.

## Proofs

`GuppyProofs` proves, for every set of sockets and documents, all body lengths, chunk
sizes, windows and sequence ranges: `TypeOK`, `WindowRespected`, `BodyExact`,
`DoneMeansDelivered`, `SessionStable`, `SessionCap`, `BufferBounded`. None of the interesting ones is inductive. `IndInv` adds

* `PacketsSourced`: every packet in flight is a packet of a session built for its
  socket (without it a chunk could come from nowhere);
* `BuiltInRange`, `SessionsSound`: first sequence numbers leave room for the whole
  response; `unacked` lies between `base` and `next`;
* `ClientPhases`, `ClientsSound`: a reassembly whose socket has one session holds
  chunks of that session, each in its place, all of them up to `end` and none just after, and
  has succeeded exactly when it is complete;
* `AcksTruthful`: an acknowledgement in flight is of a packet the client has, and a
  packet that was sent is unacknowledged or the client has it. This is the link between the
  two sides that makes `done` mean delivered.

Arithmetic about chunks (only the end of file is empty; chunks tile the body) is in
the lemmas `CeilingDivision`, `OnlyEofIsEmpty`, `DataOfType`. Assumptions are those
named in the modules: constants have their types, a body's packets may or may not fit
(if no first sequence number exists, no session is built, where the code would panic on an
underflow).

`SessionCap` needs that the table is finite (`TableBounded`) and that only an admitted request adds to
it, one socket at a time (`LiveGrowsByAdmission`). `BufferBounded` needs what the loop of
`transact` checks before it receives again: a fetch that waits is within `max_body`
(`BufferChecked`); a packet adds at most one chunk to that.

`RefinesFetch` is `RefinesTransaction`: every step of `Guppy` is a step of `GuppyFetch`, or leaves
what `GuppyFetch` sees as it was. Its hypothesis is `DeadlinesRace = FALSE`, the setting of the run:
a session is dropped only when its fetch is over (the deadlines of the code are minutes, a
transfer takes less). With a race the promise is false, since a second session may be built with
another answer while packets of the first are on their way. `RefInv` adds to `IndInv`

* `AnswersSourced`: a request in flight comes from a fetch, a special from the handler;
* `OneSession`: a fetch that goes on has at most one session, and the server still has it.

`Shown` says what a client's record stands for in `GuppyFetch`; `ClientSimulates` and `ServerSimulates`
are the two halves of the simulation.

`MisfinProofs` proves, for every set of connections, addresses and certificates and
every setting of the switches, all seven properties of `misfin_delivery`. `IndInv` adds
to `TypeOK` and `IndexExact`

* `TaskSound`: a task past the early returns has no refusal; one past the identity
  check is `Trusted`, that is pinned or released since; one past the second transaction has
  its fingerprint in `senders`;
* `AnswerSound`: an answer 20 has its message delivered exactly once, and as long as the
  status is not 20 the connection has brought none;
* `MailSound`: what the tasks established, carried over to the stored mail.

`TofuProofs` proves, for every number of calls, hosts, certificates and stores, the four
properties of `tofu_pins`. `Inv` adds to `TypeOK` and `PinProvenance`

* `Phases`: what a call knows in each phase (a changed certificate differs from a real pin,
  a shaken call has seen one);
* `FoundWasTrusted`: a pin found at a lookup had been trusted by another fetch, which
  turns provenance of pins into provenance of alarms;
* `StaysPinned`: a host that a call found or left pinned stays pinned, so that a call
  that starts later cannot be a first contact;
* `OverlapsRecorded`: `FirstContactOnce` from the lookup on.

`FspProofs` proves `TypeOK`, `KeyCurrent`, `FileExact` and `ListExact` for every modulus, lifetime below
it, number of attempts, payload size, set of files and directory. `Inv` adds `InFlight` (a datagram
belongs to one of the last `Lifetime` requests and bears its number; one of the last request
asks what the session asks; a reply carries what was asked for) and `Prefix` (the body so
far is the file up to the offset). `MatchIsAnswer` is the heart: numbers less than the
modulus apart have different remainders (`Remainders`), so that the reply that matches
answers the request that waits. `BlockExtends` is the step of `get_file`.
For `list`, `ListInv` says that a listing under way has the entries of the first blocks and asks for the next
one (`ListSoFar`), and that a reply carries the block at its position; blocks start where those before them
end (`StartsIncrease`), so that a position names one block.

`MisfinProofs` also proves, for every set of processes and addresses and any number of keys, the
three properties of `identity_files`. `IInv` adds to `IdentityTypeOK` and `IdentityKept`

* `AddressKnown`: a process in a call has an address, and so a file;
* `RemovesToReplace`: only rotate and forget are ever about to remove;
* `Unanswered`: a call under way has returned nothing, so that a result is that of the last step;
* `Alone`: whoever creates, rotates or forgets at a calm file is the only one there, and calls that
  share one find it whole;
* `CreatesFresh`: the creator of a calm file finds nothing there to truncate, and then its own torn file;
* `RotatesFresh`: a rotate has removed the old identity before it mints, and what it reads back for
  its report is what it wrote.

`DictProofs` proves, for every set of commands, every answer of a server and every length of a session,
the three properties of `dict_session`, and `QuotingIsUndone`: what `quote` wrote is read back, by `split_params`
for all texts, by a server for those that `Survives` names (quoted ones, and those without an apostrophe or a backslash). `CommandsAssumption` says that a parameter has no line end in it; `AnswersAssumption` says
what a server may answer: anything in the grammar of RFC 2229, or a response that is out of it in its first line or at its
first definition. The argument has three parts; the first is made once for both grammars (`Grammars`).

* What is written is read. The loop of the splitter is a fold over characters (`SplitStep`); a
  quoted parameter takes it from between two parameters to between two parameters with one more (`Reads`),
  and so do any number of them (`Spaced`). The words of commands differ (`WordsDiffer`), so the server
  finds the right one; a line behind a torn one it may read as anything (`AnyLineRead`), and `CommandAsMeant` speaks of the
  others, which a dropped call does not disturb (`DropSendQueue`). Stuffing is undone line by line (`Unstuffed`), and a
  stuffed line is never the terminator.
* An answer has a course (`Course`, `AnswerCourse`): from the command on, each line of it takes the call to a next
  place, and the last one concludes it with what the answer means, or it strays where the answer is out
  of the grammar. A line that is cut short concludes nothing (`CutConcludesNothing`): the
  prefix of a status, of a header or of the terminator is never taken for a whole one that ends
  the call with a value.
* The session has a place (`Steady`): as long as no call was lost (after that only `Queue` is left), it waits for the banner, rests between calls with nothing
  under way, has one command under way, is somewhere along the course of the answer to its
  own command with the rest of that answer in `down` and `pending`, or faces the end of the stream. `Queue`
  matches the commands made with those read and those still on their way.

Neither `AnswersOwn` nor `BetweenResponses` is inductive without the place: they speak of
calls that have returned, and a call returns rightly because of where each earlier line left it.

`ExchangeProofs` proves `CapsHonoured` for every set of calls and replies, every limit and every window.
`CallsAssumption` and `RepliesAssumption` say that what is written is a sequence of tokens and that the ends of a range
are numbers; the runs evaluate both. Raw requests, the ones no client of the repository would write, are among the
calls, so the server's caps do not rest on a well-behaved peer, and the client's side (`ReceiveCap`) holds of any bytes.
`CapsInvariant` adds

* `Flow`: the connection holds a beginning of the request and the server has read a beginning of that, so that
  what the server read is a beginning of the request itself, whichever way it was cut into writes and reads;
* `HasRoom`: a server that goes on reading has room for one byte more. `CapsHonoured` alone is not
  inductive, since it says nothing of why a server stopped at its limit. For one-line requests `Room` is the length of
  the line (`LineCap`, one case per protocol). For spartan it depends on where the first CRLF is: before it the limit of the line
  counts, after it what `max_upload` leaves (`SpartanCap`), and one byte more moves the CRLF nowhere or is its line
  feed (`HeaderGrows`).

`SpartanLine` needs that a content-length that parses is a number (`NumberTyped`) and that a line splits into texts
(`SplitTexts`); `ReceiveCap` is the client's side, for scorpion over the three ways a body is measured (`ScorpionKeeps`).

`DocumentsProofs` proves `ServedFromRoot`: for every tree, every request path put together from any pieces, every
order in which the directory is read and each of the three handlers. The hypothesis is `PlainTree`, which says what a tree has
to be for the handlers to serve it as they say; `MCDocuments` assumes it of its own tree, so TLC evaluates it. Three of
its conditions came out of the proof. `EntryOrder` lists the whole tree. A name has no white space in it (a listing
writes the name as it is, and the reader of the link ends the URL at the first white space). And no directory below the root has the
name of an index: spartan redirects a request for it to itself, and guppy looks in it for a file that is not one.
The argument goes through the definitions from the inside out.

* `Followed` is what a path means: the names it goes through and whether it left the root on the way. The handlers do not
  follow a path, they drop and refuse segments; `FollowsPushed` shows that where nothing is refused, dropping yields the same
  names, and `RefusedServes` that what would leave the root is refused.
* A redirect adds a slash, so `SegmentsTyped` says that a slash behind a path adds one empty segment (`SplitMore`: a
  separator behind a text splits off an empty piece and leaves the others alone; `Decoded`: decoding works token by token),
  `PushedMore` that the names stay, and `AcceptedServes` that the second request ends at the index and not at another redirect.
* A listing is written as text and read back as links. A line of `=>`, a space and one word is a link to that word (`LinkRead`,
  with `TrimsNothing` and `WordStays`), and the lines below the heading are those of the entries, none left out and none
  added (`OrderRange`, `PickedFrom`, `ListingLines`, `PickedAgain`). The heading is a link only when the path begins like one
  (`AboveTheLinks`).
* A file that is named is served: where nothing is refused, the names of a path without a slash at its end are what the handler
  looks for (`NamesAFile`).

`LineProofs` is what the proofs about `Dict`, `Fsp`, `Exchange` and `Documents` share. The induction theorems of the library have an
operator as parameter; here what is to be shown is a set of numbers (`CountUp`, from the least number outside the set), and
a recursive function is its steps (`Iterates`). Loops over sequences are therefore written as functions on
positions (`parse_directory`, `SplitRun`, `ParseEntries`, `InOrder`, `Number`), and the first or last position of a
kind as a choice from a set (`FirstOf`, `LastOf`). `OrderWalk` shows that `InOrder` is such a walk; what is split or filtered
(`Split`, `Picked`) is then known by its positions: in order (`OrderSorted`), all there and no others (`OrderRange`),
step by step (`OrderStep`), and so for the pieces between them (`PieceBetween`, `SplitTexts`). Filters are `Picked` and not
`SelectSeq`, which the provers cannot unfold. The provers do not know that a string literal is in `STRING`,
so `Chars` names the characters that the definitions of `Dict` write, and `Plain` those that decoding does.

Left to TLC: `AskedAsMeant`, `OwnRequestAccepted` and `ResponseFaithful` of `Exchange`, `RoundTrips` and `OnlyExtends` of
`Documents` (nine protocols and seven formats, each a parser of
its own; a proof goes parser by parser, as `DictProofs` does for one), and liveness (`FetchServed`, `RequestEnds`, `CallReturns`,
`ClientReturnsAtLast`, `ServerEndsAtLast`), which is out of the prover's reach. The inductive invariants of
`GuppyProofs`, `MisfinProofs` and `TofuProofs` can be evaluated on a small instance; `Steady` cannot, since it
asks for a course among all calls there could be.

## Not modelled

* webfinger (a JSON document and a URL), MIME tables, `UdcClass`, misfin's status table,
  `Block::url`, `reply_recipients`, the typed accessors of scorpion headers: tables and
  formats without state, whose models would restate them.
* X.509 parsing, certificate generation, the deterministic identity, TLS set-up: the libraries'.
  What the models use of TLS is that the end of a stream is authenticated.
* The command lines.
* Scorpion's upload phase and interactive mode: not in the code.
* URL parsing, but for what it does to a gopher selector, and the byte layouts of guppy and fsp; a URL is what the crates take from it.
* The part of a line that `read_line` of a dropped dict call has taken from the stream: `Drop` comes between two lines.
* Symbolic links below a served root, and the trees that `PlainTree` leaves out: those in which an index is itself a directory
  (spartan redirects to it without end, guppy finds no index in it) or a name has white space (the link of a listing ends at it).
* Clock values (only what may expire when); an empty MIME type in guppy, which makes a first packet that parses
  as a continuation; reuse of a guppy socket by a second fetch while the server still has the first one's
  session; misfin timestamps; the per-byte read timeout of misfin's server.

## Plan

1. Proofs: `OwnRequestAccepted` and then `AskedAsMeant`, protocol by protocol, on `Flow`, starting with nex and gemini,
   whose requests are one field.
2. `Misfin` with its reading loop byte by byte, in the manner of `Exchange`.
