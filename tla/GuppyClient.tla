----------------------------- MODULE GuppyClient -----------------------------
(***************************************************************************)
(* The guppy client (crates/guppy-protocol/src/client.rs): fetch binds one *)
(* socket, sends the request and runs transact, which reassembles the      *)
(* response until it is complete, too large, or the deadline passes.       *)
(*                                                                         *)
(* A port runs one fetch: fetch binds a fresh socket each time.            *)
(***************************************************************************)
EXTENDS GuppyWire

CONSTANTS
    MaxBody,        \* FetchOptions::max_body
    NoData          \* a sequence number with no chunk in the reassembly

VARIABLE client     \* [Ports -> Client]

\* "failed" is ClientError::Timeout or ClientError::Io.
Failures == {"failed", "too large"}

Outcomes == {"success"} \cup Specials \cup Failures

\* state is None as long as first is NoSeq; chunks, end, buffered and eof are the
\* Reassembly's fields, result is what fetch returned ("pending" until then).
Client ==
    [ phase : {"idle", "waiting", "ended"},
      first : Seqs \cup {NoSeq},
      chunks : [Seqs -> Data \cup {NoData}],
      end : Seqs \cup {NoSeq},
      buffered : Nat,
      eof : Seqs \cup {NoSeq},
      result : Outcomes \cup {"pending"} ]

ASSUME ClientAssumption ==
    /\ MaxBody \in Nat
    /\ NoData \notin Data
    /\ Specials \cap (Failures \cup {"success", "pending"}) = {}

IdleClient ==
    [ phase |-> "idle", first |-> NoSeq, chunks |-> [s \in Seqs |-> NoData],
      end |-> NoSeq, buffered |-> 0, eof |-> NoSeq, result |-> "pending" ]

Started(c) == c.first # NoSeq

HasChunk(c, s) == s \in Seqs /\ c.chunks[s] # NoData

\* Mutant: the end-of-file packet alone completes the response.
CompleteOnEof(c) == c.eof # NoSeq

\* Reassembly::complete.
Complete(c) == c.eof = c.end + 1

\* end is contiguous_end: the while loop of Reassembly::insert stopped at e.
ContiguousTo(c, e) ==
    /\ \A s \in c.end + 1 .. e : HasChunk(c, s)
    /\ ~ HasChunk(c, e + 1)

\* Reassembly::insert, before contiguous_end is moved: a chunk that is already
\* there is kept, and its size is counted all the same.
Insert(c, s, data) ==
    [c EXCEPT !.buffered = @ + Size(data),
              !.chunks[s] = IF HasChunk(c, s) THEN @ ELSE data]

End(c, result) == [c EXCEPT !.phase = "ended", !.result = result]

\* Mutant: the buffer is not limited.
CheckedWithoutLimit(c) ==
    IF Started(c) /\ Complete(c) THEN End(c, "success") ELSE c

\* The head of transact's loop: completion first, the size limit second.
Checked(c) ==
    IF Started(c) /\ Complete(c) THEN End(c, "success")
    ELSE IF Started(c) /\ c.buffered > MaxBody THEN End(c, "too large")
    ELSE c

----------------------------------------------------------------------------

\* fetch: send the request, wait for an answer.
Fetch(p) ==
    /\ client[p].phase = "idle"
    /\ client' = [client EXCEPT ![p].phase = "waiting"]
    /\ net' = net \cup {Request(p)}

\* recv timed out: repeat the request, or acknowledge the stall point again.
Stall(p) ==
    /\ client[p].phase = "waiting"
    /\ \/ /\ ~ Started(client[p])
          /\ net' = net \cup {Request(p)}
       \/ /\ Started(client[p])
          /\ net' = net \cup {Ack(p, s) : s \in {client[p].end, client[p].eof} \ {NoSeq}}
    /\ UNCHANGED client

\* A special packet is the whole answer, unless a success has started.
ReceiveSpecial(m) ==
    /\ m \in net /\ m.kind = "special"
    /\ client[m.port].phase = "waiting"
    /\ net' \in Received(m)
    /\ \/ /\ ~ Started(client[m.port])
          /\ client' = [client EXCEPT ![m.port] = End(@, m.answer)]
       \/ /\ Started(client[m.port])
          /\ UNCHANGED client

\* The first packet is always acknowledged and starts the reassembly once.
ReceiveFirst(m) ==
    /\ m \in net /\ m.kind = "first"
    /\ client[m.port].phase = "waiting"
    /\ \E rest \in Received(m) : net' = rest \cup {Ack(m.port, m.seq)}
    /\ LET c == client[m.port]
       IN  \/ /\ ~ Started(c)
              /\ client' = [client EXCEPT ![m.port] =
                     Checked([c EXCEPT !.first = m.seq,
                                       !.end = m.seq,
                                       !.buffered = Size(m.data),
                                       !.chunks[m.seq] = m.data])]
           \/ /\ Started(c)
              /\ UNCHANGED client

\* Mutant: a continuation that is ignored is acknowledged all the same.
IgnoreContinuationWithAck(m) ==
    /\ m \in net /\ m.kind = "continuation"
    /\ client[m.port].phase = "waiting"
    /\ ~ Started(client[m.port]) \/ m.seq <= client[m.port].first
    /\ \E rest \in Received(m) : net' = rest \cup {Ack(m.port, m.seq)}
    /\ UNCHANGED client

\* A continuation that cannot be anchored is ignored and not acknowledged.
IgnoreContinuation(m) ==
    /\ m \in net /\ m.kind = "continuation"
    /\ client[m.port].phase = "waiting"
    /\ ~ Started(client[m.port]) \/ m.seq <= client[m.port].first
    /\ net' \in Received(m)
    /\ UNCHANGED client

\* The empty continuation: the end of file.
ReceiveEof(m) ==
    /\ m \in net /\ m.kind = "continuation"
    /\ LET c == client[m.port]
       IN  /\ c.phase = "waiting"
           /\ Started(c) /\ m.seq > c.first
           /\ IsEmpty(m.data)
           /\ client' = [client EXCEPT ![m.port] = Checked([c EXCEPT !.eof = m.seq])]
    /\ \E rest \in Received(m) : net' = rest \cup {Ack(m.port, m.seq)}

\* Any other continuation: acknowledge, insert, advance contiguous_end.
ReceiveData(m) ==
    /\ m \in net /\ m.kind = "continuation"
    /\ LET c == client[m.port]
           inserted == Insert(c, m.seq, m.data)
       IN  /\ c.phase = "waiting"
           /\ Started(c) /\ m.seq > c.first
           /\ ~ IsEmpty(m.data)
           /\ \E e \in c.end .. MaxSeq :
                /\ ContiguousTo(inserted, e)
                /\ client' = [client EXCEPT ![m.port] = Checked([inserted EXCEPT !.end = e])]
    /\ \E rest \in Received(m) : net' = rest \cup {Ack(m.port, m.seq)}

\* The overall deadline passes, or a send or receive on the socket fails.
GiveUp(p) ==
    /\ client[p].phase = "waiting"
    /\ client' = [client EXCEPT ![p] = End(@, "failed")]
    /\ UNCHANGED net

ClientInit == client = [p \in Ports |-> IdleClient]

============================================================================
