------------------------------ MODULE GuppyWire ------------------------------
(***************************************************************************)
(* The datagrams of crates/guppy-protocol and the network that carries     *)
(* them (src/packet.rs, and the chunking half of src/server.rs).           *)
(*                                                                         *)
(* A body is known by its document and its length in bytes; a chunk of it  *)
(* by the interval of offsets it holds, so that a chunk out of place, a    *)
(* chunk twice, or a chunk of another body can be told apart.              *)
(***************************************************************************)
EXTENDS Integers, FiniteSets

CONSTANTS
    Ports,          \* client socket addresses: the server's session keys
    Docs,           \* the bodies a handler can answer with
    BodyLen,        \* [Docs -> Nat]: their lengths in bytes
    Specials,       \* the answers that fit one packet: prompt, redirect, error
    ChunkSize,      \* ServerConfig::chunk_size
    MinSeq, MaxSeq  \* the range of sequence numbers (lib.rs: 6 .. 2^31-1)

VARIABLE net        \* the datagrams in flight

\* Docs and Specials name different answers. A build_session call needs a
\* positive span in random_seq, so every body must fit the sequence space.
ASSUME WireAssumption ==
    /\ BodyLen \in [Docs -> Nat]
    /\ ChunkSize \in Nat
    /\ MinSeq \in Nat \ {0} /\ MaxSeq \in Nat
    /\ Docs \cap Specials = {}

Seqs == MinSeq .. MaxSeq

\* Zero stands for Option::None where the code holds an optional sequence number.
NoSeq == 0

----------------------------------------------------------------------------
(* build_session: how a body becomes a sequence of packets.                *)

\* let chunk_size = chunk_size.max(1);
EffectiveChunk == IF ChunkSize > 1 THEN ChunkSize ELSE 1

ContinuationCount(d) ==
    IF BodyLen[d] > EffectiveChunk
    THEN ((BodyLen[d] + EffectiveChunk - 1) \div EffectiveChunk) - 1
    ELSE 0

TotalPackets(d) == 1 + ContinuationCount(d) + 1

\* The index of the end-of-file packet; the data packets are 0 .. EofIndex - 1.
EofIndex(d) == ContinuationCount(d) + 1

AtMost(x, y) == IF x < y THEN x ELSE y

\* The bytes that packet number i of the response carries.
DataOf(d, i) ==
    [ doc  |-> d,
      from |-> AtMost(i * EffectiveChunk, BodyLen[d]),
      to   |-> AtMost((i + 1) * EffectiveChunk, BodyLen[d]) ]

Data == [doc : Docs, from : Nat, to : Nat]

Size(data) == data.to - data.from

IsEmpty(data) == data.from = data.to

\* Mutant: random_seq forgets to leave room for the packets after the first.
FirstSeqsForgetTotal(d) == MinSeq .. (MaxSeq - 1)

\* random_seq: MIN_SEQ + hash % span, with span = MAX_SEQ - total - MIN_SEQ.
FirstSeqs(d) == MinSeq .. (MaxSeq - TotalPackets(d) - 1)

----------------------------------------------------------------------------
(* Datagrams. A packet is what encode_first / encode_continuation write    *)
(* and parse_packet reads back: the first one carries the MIME type, which *)
(* is how the client knows it, and the end of file is an empty             *)
(* continuation.                                                           *)

Request(p) == [kind |-> "request", port |-> p]

Ack(p, s) == [kind |-> "ack", port |-> p, seq |-> s]

Special(p, a) == [kind |-> "special", port |-> p, answer |-> a]

Packet(p, d, base, i) ==
    [ kind |-> IF i = 0 THEN "first" ELSE "continuation",
      port |-> p,
      seq  |-> base + i,
      data |-> DataOf(d, i) ]

RequestMsgs == [kind : {"request"}, port : Ports]
AckMsgs     == [kind : {"ack"}, port : Ports, seq : Seqs]
SpecialMsgs == [kind : {"special"}, port : Ports, answer : Specials]
PacketMsgs  == [kind : {"first", "continuation"}, port : Ports, seq : Seqs, data : Data]

Datagrams == RequestMsgs \cup AckMsgs \cup SpecialMsgs \cup PacketMsgs

----------------------------------------------------------------------------
(* The network may lose, duplicate, delay and reorder. A receive removes   *)
(* the datagram, or leaves it to arrive once more.                         *)

Received(m) == {net, net \ {m}}

Lose(m) ==
    /\ m \in net
    /\ net' = net \ {m}

============================================================================
