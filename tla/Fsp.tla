---------------------------------- MODULE Fsp ----------------------------------
(***************************************************************************)
(* An FSP session (crates/fsp-protocol): client.rs over a network that     *)
(* loses, repeats, delays and reorders datagrams, with a server that is    *)
(* not part of the repository. A request is known by its ordinal, which    *)
(* only the model sees; on the wire it has a sequence number that wraps.   *)
(***************************************************************************)
EXTENDS Integers, Sequences, FiniteSets

CONSTANTS
    SeqMod,         \* 2^16: sequence numbers wrap
    Attempts,       \* Session::attempts
    Wait,           \* Session::timeout, in ticks of the clock
    MaxPayload,     \* MAX_PAYLOAD
    Paths,
    Content,        \* [Paths -> Seq of bytes]: the files
    Missing,        \* the paths that the server refuses
    Endless,        \* the paths whose file and whose listing never end
    Directory,      \* Seq of directory blocks; a block is a Seq of DirEntry
    Lifetime,       \* a datagram is gone once so many more requests are made
    MaxRequests     \* bound: no operation starts after so many requests, and no endless
                    \* one goes on

ASSUME NumbersAssumption ==
    /\ SeqMod \in Nat \ {0} /\ Attempts \in Nat \ {0} /\ MaxPayload \in Nat \ {0}
    /\ Wait \in Nat \ {0}
    /\ Lifetime \in 1..(SeqMod - 1) /\ MaxRequests \in Nat

DirEntry == [kind : {"file", "dir", "other", "skip", "end"}, name : Int]

ASSUME ContentAssumption ==
    /\ Paths # {} /\ Missing \subseteq Paths /\ Endless \subseteq Paths
    /\ \A p \in Paths : Content[p] \in Seq(Int)
    /\ Directory \in Seq(Seq(DirEntry))

VARIABLES
    session,        \* the Session, and the call that is under way on it
    net,            \* datagrams in flight, both ways
    remaining,      \* the time that is left of await_reply's wait
    sent,           \* history: ordinal of the last request
    answered        \* history: ordinal of the last request that was answered

vars == <<session, net, remaining, sent, answered>>

Ops == {"version", "get_file", "list", "bye"}

Empty == <<>>

\* The requests of an operation, and the replies to them.
Query(ord, seq, key, op, path, pos) ==
    [ to |-> "server", ord |-> ord, seq |-> seq, key |-> key,
      op |-> op, path |-> path, pos |-> pos, err |-> FALSE, data |-> Empty ]

----------------------------------------------------------------------------
(* Directory blocks.                                                       *)

\* The entries up to the end or the padding, without the kinds that are not known.
parse_directory(block) ==
    LET Reached(i) == \A j \in 1..i : block[j].kind \notin {"skip", "end"}
        entries[i \in 0..Len(block)] ==
            IF i = 0 THEN Empty
            ELSE IF Reached(i) /\ block[i].kind \in {"file", "dir"}
            THEN Append(entries[i - 1], block[i])
            ELSE entries[i - 1]
    IN  entries[Len(block)]

\* The offset of a directory block, which is never split across packets.
BlockStart[k \in 1..Len(Directory)] ==
    IF k = 1 THEN 0 ELSE BlockStart[k - 1] + Len(Directory[k - 1])

----------------------------------------------------------------------------
(* The server, as the client relies on it: it echoes the sequence, grants  *)
(* a new key, and answers with the data at the position, or with CC_ERR.   *)

\* The block of a file at a position: full, short at the end, and then empty.
FileBlock(path, pos) ==
    LET left == Len(Content[path]) - pos
    IN  SubSeq(Content[path], pos + 1, pos + (IF left < MaxPayload THEN left ELSE MaxPayload))

\* What a server that never comes to an end answers: a full block, a block with an entry.
EndlessBlock(op) ==
    IF op = "list" THEN << [kind |-> "file", name |-> 0] >> ELSE [i \in 1..MaxPayload |-> 0]

\* The data of an answer.
Answer(q) ==
    CASE q.op \in {"get_file", "list"} /\ q.path \in Endless -> EndlessBlock(q.op)
      [] q.op = "get_file" /\ q.path \notin Endless -> FileBlock(q.path, q.pos)
      [] q.op = "list" /\ q.path \notin Endless ->
           LET here == {k \in DOMAIN Directory : BlockStart[k] = q.pos}
           IN  IF here = {} THEN Empty ELSE Directory[CHOOSE k \in here : TRUE]
      [] OTHER -> Empty

\* A request reaches the server, and may reach it again.
Serve(q) ==
    /\ q \in net /\ q.to = "server"
    /\ \E rest \in {net, net \ {q}} :
         net' = rest \cup {[q EXCEPT !.to = "client", !.key = q.ord,
                                     !.err = q.path \in Missing /\ q.op \in {"get_file", "list"},
                                     !.data = IF q.path \in Missing THEN Empty ELSE Answer(q)]}
    /\ UNCHANGED <<session, remaining, sent, answered>>

\* A datagram is lost, or is damaged and fails decode.
Lose(d) ==
    /\ d \in net
    /\ net' = net \ {d}
    /\ UNCHANGED <<session, remaining, sent, answered>>

----------------------------------------------------------------------------
(* The client.                                                             *)

\* Mutant: every request under the first one's number.
NextSequenceStuck(sequence) == sequence

\* Mutant: the number outgrows its sixteen bits.
NextSequenceUnwrapped(sequence) == sequence + 1

\* Session::request: sequence.wrapping_add(1).
NextSequence(sequence) == (sequence + 1) % SeqMod

\* The head of Session::request: s asks at a position, and await_reply sets its deadline.
\* Datagrams past their lifetime are gone by now.
Request(s, pos, rest) ==
    LET ord == sent + 1
        seq == NextSequence(s.sequence)
    IN  /\ session' = [s EXCEPT !.sequence = seq, !.attempt = 1, !.offset = pos]
        /\ sent' = ord /\ remaining' = Wait
        /\ net' = {d \in rest : d.ord + Lifetime > ord}
                     \cup {Query(ord, seq, s.key, s.op, s.path, pos)}

\* version, get_file, list and bye begin with a request at position 0.
Start(op, path) ==
    /\ session.phase = "idle" /\ sent < MaxRequests
    /\ Request([session EXCEPT !.phase = "waiting", !.op = op, !.path = path,
                               !.body = Empty, !.result = "none"], 0, net)
    /\ UNCHANGED answered

\* The call returns; bye has consumed the session.
Ends(s, result) ==
    [s EXCEPT !.phase = IF s.op = "bye" THEN "closed" ELSE "idle", !.result = result]

\* get_file: an empty or a short block is the last.
Last(block) == block = Empty \/ Len(block) < MaxPayload

\* Mutant: list advances by what it has parsed.
NextOffsetByEntries(s, data) == Len(s.body)

\* get_file asks on at the length of its body, list after the block.
NextOffset(s, data) == IF s.op = "list" THEN s.offset + Len(data) ELSE Len(s.body)

\* What the call makes of the data of its reply: it ends, or asks on.
Continue(s, data, rest) ==
    LET entries == parse_directory(data)
        got == [s EXCEPT !.body = s.body \o (IF s.op = "list" THEN entries ELSE data)]
        ends == CASE s.op = "get_file" -> Last(data)
                  [] s.op = "list" -> entries = Empty
                  [] OTHER -> TRUE
    IN  \/ ends /\ session' = Ends(got, "ok") /\ net' = rest /\ UNCHANGED <<remaining, sent>>
        \/ /\ ~ends /\ (s.path \in Endless => sent < MaxRequests)
           /\ Request(got, NextOffset(got, data), rest)

\* Mutant: any reply will do.
MatchesAny(d) == TRUE

\* await_reply: the reply echoes the sequence.
Matches(d) == d.seq = session.sequence

\* Mutant: every datagram that arrives restarts the wait.
StrayRestarts == remaining' = Wait

\* A reply that does not match is dropped; the deadline was set before the loop.
Stray == UNCHANGED remaining

\* await_reply accepts a reply before its deadline, request adopts the key, and the call
\* goes on.
Receive(d) ==
    /\ session.phase = "waiting" /\ remaining > 0
    /\ d \in net /\ d.to = "client"
    /\ \E rest \in {net, net \ {d}} :
         LET s == [session EXCEPT !.key = d.key] IN
         \/ /\ Matches(d) /\ ~d.err
            /\ Continue(s, d.data, rest)
            /\ answered' = sent
         \/ /\ Matches(d) /\ d.err
            /\ session' = Ends(s, "refused")
            /\ net' = rest /\ answered' = sent /\ UNCHANGED <<remaining, sent>>
         \/ /\ ~Matches(d)
            /\ net' = rest /\ Stray
            /\ UNCHANGED <<session, sent, answered>>

\* Time passes.
Tick ==
    /\ session.phase = "waiting" /\ remaining > 0
    /\ remaining' = remaining - 1
    /\ UNCHANGED <<session, net, sent, answered>>

\* Mutant: attempts are not counted.
TimeoutUncounted ==
    /\ session.phase = "waiting" /\ remaining = 0
    /\ remaining' = Wait
    /\ net' = net \cup {Query(sent, session.sequence, session.key, session.op,
                              session.path, session.offset)}
    /\ UNCHANGED <<session, sent, answered>>

\* The deadline of await_reply is over: the same bytes are sent again, with a new
\* deadline, or request gives up.
Timeout ==
    /\ session.phase = "waiting" /\ remaining = 0
    /\ \/ /\ session.attempt < Attempts
          /\ session' = [session EXCEPT !.attempt = @ + 1]
          /\ remaining' = Wait
          /\ net' = net \cup {Query(sent, session.sequence, session.key, session.op,
                                    session.path, session.offset)}
       \/ /\ session.attempt = Attempts
          /\ session' = Ends(session, "timeout")
          /\ UNCHANGED <<net, remaining>>
    /\ UNCHANGED <<sent, answered>>

\* The socket fails, in send or in recv.
IoError ==
    /\ session.phase = "waiting"
    /\ session' = Ends(session, "io")
    /\ UNCHANGED <<net, remaining, sent, answered>>

Init ==
    /\ session = [ phase |-> "idle", op |-> "version", path |-> CHOOSE p \in Paths : TRUE,
                   sequence |-> 1 % SeqMod, key |-> 0, attempt |-> 0, offset |-> 0,
                   body |-> Empty, result |-> "none" ]
    /\ net = {} /\ remaining = 0 /\ sent = 0 /\ answered = 0

Next ==
    \/ \E op \in Ops, path \in Paths : Start(op, path)
    \/ \E d \in net : Receive(d) \/ Serve(d) \/ Lose(d)
    \/ Tick
    \/ Timeout
    \/ IoError

Spec == Init /\ [][Next]_vars

\* Time passes, and a task whose deadline is over is scheduled.
LiveSpec == Spec /\ WF_vars(Tick) /\ WF_vars(Timeout)

----------------------------------------------------------------------------

\* The session is well formed, and a request is sent at most Attempts times.
TypeOK ==
    /\ session.phase \in {"idle", "waiting", "closed"} /\ session.op \in Ops
    /\ session.path \in Paths /\ session.sequence \in 0..(SeqMod - 1)
    /\ session.attempt \in 0..Attempts /\ session.offset \in Nat
    /\ session.result \in {"none", "ok", "refused", "timeout", "io"}
    /\ remaining \in 0..Wait /\ sent \in Nat /\ answered \in 0..sent
    /\ \A d \in net : d.to \in {"server", "client"} /\ d.ord \in 1..sent

\* The key that the next request echoes is the one granted for the last request that
\* was answered: no stale reply replaces it (request, await_reply).
KeyCurrent == session.key = answered

\* A get_file that returns a file that ends returns that file, in order and whole, although
\* replies to other requests, of this call and of earlier ones, arrive in between.
FileExact ==
    session.op = "get_file" /\ session.result = "ok" /\ session.path \notin Endless
        => session.body = Content[session.path] /\ session.path \notin Missing

\* All the entries of the directory that have a kind the client knows.
Listing[k \in 0..Len(Directory)] ==
    IF k = 0 THEN Empty ELSE Listing[k - 1] \o parse_directory(Directory[k])

\* A listing that is returned has every entry once, in order, if each block but the
\* last has an entry of a known kind: list stops at a block that has none.
ListExact ==
    ( /\ session.op = "list" /\ session.result = "ok" /\ session.path \notin Endless
      /\ \A k \in 1..(Len(Directory) - 1) : parse_directory(Directory[k]) # Empty )
    => session.body = Listing[Len(Directory)]

\* The wait for the reply to one request ends, whatever the network and the server do:
\* replies that do not match, however many, do not extend it (await_reply's deadline,
\* request's attempts).
RequestEnds ==
    \A seq \in 0..(SeqMod - 1) :
        (session.phase = "waiting" /\ session.sequence = seq)
            ~> (session.phase # "waiting" \/ session.sequence # seq)

\* A call returns, unless the server never ends its file or its listing: get_file and list
\* ask on for as long as a full or a non-empty block comes, and nothing limits them.
CallReturns ==
    (session.phase = "waiting" /\ (session.path \in Endless => session.op \in {"version", "bye"}))
        ~> session.phase # "waiting"

===============================================================================
