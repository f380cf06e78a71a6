----------------------------- MODULE GuppyProofs -----------------------------
(***************************************************************************)
(* Proofs about Guppy for every set of ports and documents, every body     *)
(* length, chunk size, window and sequence range.                          *)
(***************************************************************************)
EXTENDS Guppy, FiniteSetTheorems, TLAPS

----------------------------------------------------------------------------
(* The inductive invariant.                                                *)

\* Every packet on its way to p is a packet of a session built for p.
PacketsSourced ==
    \A m \in net : m.kind \in {"first", "continuation"} =>
        \E x \in Built(m.port) : \E i \in 0 .. EofIndex(x[1]) :
            m = Packet(m.port, x[1], x[2], i)

\* Sessions were drawn by random_seq and so fit the sequence space.
BuiltInRange ==
    \A p \in Ports : \A x \in Built(p) : x[2] \in FirstSeqs(x[1])

SessionSound(p) ==
    LET s == sessions[p] IN
    /\ <<s.doc, s.base>> \in Built(p)
    /\ s.next \in 0 .. TotalPackets(s.doc)
    /\ s.unacked \subseteq s.base .. s.base + s.next - 1
    /\ Cardinality(s.unacked) <= Window
    /\ s.done => s.next = TotalPackets(s.doc) /\ s.unacked = {}

SessionsSound == \A p \in Live : SessionSound(p)

\* The client's record agrees with its phase, whoever it talks to.
ClientPhases ==
    \A p \in Ports : LET c == client[p] IN
        /\ c.phase = "ended" <=> c.result # "pending"
        /\ c.phase = "idle" => ~ Started(c)
        /\ Started(c) => Built(p) # {} /\ c.end # NoSeq
        /\ c.result \in Specials => ~ Started(c)
        /\ ~ Started(c) =>
              /\ c.chunks = [s \in Seqs |-> NoData] /\ c.eof = NoSeq
              /\ c.result \notin {"success", "too large"}

\* What a reassembly holds when all its packets come from one session.
ReassemblySound(c, d, base) ==
    /\ c.first = base
    /\ c.eof \in {NoSeq, base + EofIndex(d)}
    /\ c.end \in base .. base + EofIndex(d) - 1
    /\ \A s \in Seqs : c.chunks[s] # NoData =>
          /\ s \in base .. base + EofIndex(d) - 1
          /\ c.chunks[s] = DataOf(d, s - base)
    /\ \A s \in base .. c.end : c.chunks[s] # NoData
    /\ ~ HasChunk(c, c.end + 1)
    /\ c.result = "success" <=> Complete(c)

ClientsSound ==
    \A p \in Ports : \A d \in Docs, base \in Seqs :
        (Built(p) = {<<d, base>>} /\ Started(client[p]))
            => ReassemblySound(client[p], d, base)

\* The client has packet s of its response.
Got(c, s) == Started(c) /\ (HasChunk(c, s) \/ c.eof = s)

\* An acknowledgement in flight tells the truth, and so does one taken in.
AcksTruthful ==
    \A p \in Ports :
        /\ \A m \in net : (m.kind = "ack" /\ m.port = p) => Started(client[p])
        /\ \A d \in Docs, base \in Seqs : Built(p) = {<<d, base>>} =>
              /\ \A m \in net : (m.kind = "ack" /\ m.port = p) => Got(client[p], m.seq)
              /\ p \in Live =>
                    \A s \in base .. base + sessions[p].next - 1 :
                        s \in sessions[p].unacked \/ Got(client[p], s)

IndInv ==
    /\ TypeOK
    /\ PacketsSourced
    /\ BuiltInRange
    /\ SessionsSound
    /\ ClientPhases
    /\ ClientsSound
    /\ AcksTruthful

----------------------------------------------------------------------------
(* Chunking arithmetic (build_session).                                    *)

\* chunk_size.max(1) is a positive number.
LEMMA ChunkPositive == EffectiveChunk \in Nat /\ EffectiveChunk >= 1
  BY WireAssumption DEF EffectiveChunk

\* Division as build_session uses it: n bytes need the quotient q of n + k - 1.
LEMMA CeilingDivision ==
  ASSUME NEW n \in Nat, NEW k \in Nat, k >= 1
  PROVE  LET q == (n + k - 1) \div k IN
         q \in Nat /\ q * k >= n /\ (n > k => q >= 2 /\ (q - 1) * k < n)
  OBVIOUS

\* A response has at least a first packet and an end-of-file packet.
LEMMA EofIndexType ==
  ASSUME NEW d \in Docs
  PROVE  /\ EofIndex(d) \in Nat /\ EofIndex(d) >= 1
         /\ TotalPackets(d) = EofIndex(d) + 1
  <1>1. BodyLen[d] \in Nat
    BY WireAssumption
  <1>2. ContinuationCount(d) \in Nat
    BY <1>1, ChunkPositive, CeilingDivision DEF ContinuationCount
  <1> QED
    BY <1>2 DEF EofIndex, TotalPackets

\* A packet carries at most one chunk.
LEMMA DataOfType ==
  ASSUME NEW d \in Docs, NEW i \in Nat
  PROVE  /\ DataOf(d, i) \in Data
         /\ Size(DataOf(d, i)) \in 0 .. EffectiveChunk
  <1>1. BodyLen[d] \in Nat
    BY WireAssumption
  <1>2. /\ i * EffectiveChunk \in Nat
        /\ (i + 1) * EffectiveChunk = i * EffectiveChunk + EffectiveChunk
    BY ChunkPositive
  <1> QED
    BY <1>1, <1>2, ChunkPositive DEF DataOf, Data, Size, AtMost

\* Only the end-of-file packet is an empty continuation, so the client, who
\* recognises the end of file by its emptiness, is never misled.
LEMMA OnlyEofIsEmpty ==
  ASSUME NEW d \in Docs, NEW i \in 1 .. EofIndex(d)
  PROVE  IsEmpty(DataOf(d, i)) <=> i = EofIndex(d)
  <1> DEFINE k == EffectiveChunk
             n == BodyLen[d]
             q == (n + k - 1) \div k
  <1>1. n \in Nat /\ k \in Nat /\ k >= 1
    BY WireAssumption, ChunkPositive
  <1>2. q \in Nat /\ q * k >= n /\ (n > k => q >= 2 /\ (q - 1) * k < n)
    BY <1>1, CeilingDivision
  <1>3. CASE n <= k
    <2>1. EofIndex(d) = 1
      BY <1>1, <1>3 DEF EofIndex, ContinuationCount
    <2>2. i = 1 /\ i * k = k /\ (i + 1) * k = 2 * k
      BY <2>1, <1>1
    <2> QED
      BY <1>1, <1>3, <2>1, <2>2 DEF IsEmpty, DataOf, AtMost
  <1>4. CASE n > k
    <2>1. EofIndex(d) = q
      BY <1>1, <1>2, <1>4 DEF EofIndex, ContinuationCount
    <2>2. CASE i = q
      <3>1. (i + 1) * k = q * k + k
        BY <1>1, <1>2, <2>2
      <3> QED
        BY <1>1, <1>2, <2>1, <2>2, <3>1 DEF IsEmpty, DataOf, AtMost
    <2>3. CASE i < q
      <3>1. i * k <= (q - 1) * k
        BY <1>1, <1>2, <2>3
      <3>2. i * k < n /\ i * k \in Nat /\ (i + 1) * k = i * k + k
        BY <1>1, <1>2, <1>4, <3>1
      <3> QED
        BY <1>1, <2>1, <2>3, <3>2 DEF IsEmpty, DataOf, AtMost
    <2> QED
      BY <2>1, <2>2, <2>3, <1>2
  <1> QED
    BY <1>1, <1>3, <1>4

----------------------------------------------------------------------------
(* Packets and windows.                                                    *)

\* The packets of a session that random_seq placed are within the sequence space.
LEMMA PacketType ==
  ASSUME NEW p \in Ports, NEW d \in Docs, NEW base \in FirstSeqs(d),
         NEW i \in 0 .. EofIndex(d)
  PROVE  /\ Packet(p, d, base, i) \in PacketMsgs
         /\ base \in Seqs /\ base + i \in Seqs
         /\ base + EofIndex(d) + 1 \in Seqs
  <1>1. EofIndex(d) \in Nat /\ TotalPackets(d) = EofIndex(d) + 1
    BY EofIndexType
  <1>2. base \in Seqs /\ base + i \in Seqs /\ base + EofIndex(d) + 1 \in Seqs
    BY <1>1, WireAssumption DEF FirstSeqs, Seqs
  <1>3. DataOf(d, i) \in Data
    BY <1>1, DataOfType
  <1> QED
    BY <1>2, <1>3 DEF Packet, PacketMsgs

\* The part of SessionSound that open_window relies on and keeps.
WindowSound(s) ==
    /\ s.next \in 0 .. TotalPackets(s.doc)
    /\ s.unacked \subseteq s.base .. s.base + s.next - 1
    /\ Cardinality(s.unacked) <= Window

\* open_window keeps the window within its bound and sends no packet twice as new.
LEMMA OpenWindowSound ==
  ASSUME NEW s \in Session, s.base \in FirstSeqs(s.doc), WindowSound(s),
         NEW n \in 0 .. WindowRoom(s)
  PROVE  LET t == OpenWindow(s, n) IN
         /\ t \in Session
         /\ t.doc = s.doc /\ t.base = s.base /\ t.done = s.done
         /\ t.next = s.next + n
         /\ t.unacked = s.unacked \cup (s.base + s.next .. s.base + s.next + n - 1)
         /\ WindowSound(t)
         /\ s.next + n - 1 <= EofIndex(s.doc)
  <1> DEFINE t == OpenWindow(s, n)
             added == s.base + s.next .. s.base + s.next + n - 1
  <1>1. /\ s.doc \in Docs /\ s.base \in Seqs /\ s.next \in Nat
        /\ s.unacked \in SUBSET Seqs /\ s.done \in BOOLEAN
    BY DEF Session
  <1>2. /\ EofIndex(s.doc) \in Nat /\ TotalPackets(s.doc) = EofIndex(s.doc) + 1
    BY <1>1, EofIndexType
  <1>3. s.base \in Nat
    BY <1>1, WireAssumption DEF Seqs
  <1>4. IsFiniteSet(s.unacked) /\ Cardinality(s.unacked) \in Nat
    <2> DEFINE hi == s.base + s.next - 1
    <2>a. s.base \in Int /\ hi \in Int
      BY <1>1, <1>3
    <2>1. IsFiniteSet(s.base .. hi)
      <3> HIDE DEF hi
      <3> QED BY <2>a, FS_Interval
    <2> QED
      BY <2>1, FS_Subset, FS_CardinalityType DEF WindowSound
  <1>5. /\ n \in Nat /\ s.next + n <= TotalPackets(s.doc)
        /\ n > 0 => Cardinality(s.unacked) + n <= Window
    BY <1>1, <1>2, <1>4, ServerAssumption DEF WindowRoom, AtMost, WindowSound
  <1>6. {s.base + i : i \in s.next .. s.next + n - 1} = added
    <2>1. ASSUME NEW x \in added
          PROVE  x \in {s.base + i : i \in s.next .. s.next + n - 1}
      <3>1. x - s.base \in s.next .. s.next + n - 1 /\ x = s.base + (x - s.base)
        BY <1>1, <1>3, <1>5
      <3> QED
        BY <3>1
    <2> QED
      BY <2>1, <1>1, <1>3, <1>5
  <1>7. /\ t.doc = s.doc /\ t.base = s.base /\ t.done = s.done
        /\ t.next = s.next + n /\ t.unacked = s.unacked \cup added
    BY <1>6 DEF OpenWindow, Session
  <1>8. added \subseteq Seqs
    BY <1>1, <1>2, <1>5, WireAssumption DEF FirstSeqs, Seqs
  <1>9. t \in Session
    <2>1. t = [s EXCEPT !.next = s.next + n, !.unacked = s.unacked \cup added]
      BY <1>6 DEF OpenWindow
    <2>2. s.next + n \in Nat /\ s.unacked \cup added \in SUBSET Seqs
      BY <1>1, <1>5, <1>8
    <2> HIDE DEF added, t
    <2> QED
      BY <2>1, <2>2 DEF Session
  <1>10. t.unacked \subseteq s.base .. s.base + s.next + n - 1
    BY <1>1, <1>3, <1>5, <1>7 DEF WindowSound
  <1>11. Cardinality(t.unacked) <= Window
    <2>1. CASE n = 0
      <3>1. added = {}
        BY <2>1, <1>1, <1>3
      <3>2. t.unacked = s.unacked
        BY <3>1, <1>7
      <3> QED
        BY <3>2 DEF WindowSound
    <2>2. CASE n > 0
      <3> DEFINE lo == s.base + s.next
                 hi == s.base + s.next + n - 1
      <3>a. lo \in Int /\ hi \in Int /\ lo <= hi /\ hi - lo + 1 = n
        BY <2>2, <1>1, <1>3, <1>5
      <3>b. IsFiniteSet(lo .. hi) /\ Cardinality(lo .. hi) = hi - lo + 1
        <4> HIDE DEF lo, hi
        <4> QED BY <3>a, FS_Interval
      <3>1. IsFiniteSet(added) /\ Cardinality(added) = n
        BY <3>a, <3>b
      <3>2. s.unacked \cap added = {}
        BY <1>1, <1>3 DEF WindowSound
      <3>3. Cardinality(s.unacked \cap added) = 0
        BY <3>2, FS_EmptySet
      <3>4. Cardinality(s.unacked \cup added) = Cardinality(s.unacked) + n
        <4>1. Cardinality(s.unacked \cup added)
                = Cardinality(s.unacked) + Cardinality(added) - Cardinality(s.unacked \cap added)
          <5> HIDE DEF added
          <5> QED BY <1>4, <3>1, FS_Union
        <4> QED
          BY <4>1, <1>4, <1>5, <3>1, <3>3
      <3> QED
        BY <2>2, <3>4, <1>5, <1>7
    <2> QED
      BY <2>1, <2>2, <1>5
  <1> QED
    BY <1>1, <1>2, <1>3, <1>5, <1>7, <1>9, <1>10, <1>11 DEF WindowSound

----------------------------------------------------------------------------
(* Facts about every state of the invariant.                               *)

\* What the kind of a datagram says about its fields.
LEMMA MessageTypes ==
  ASSUME NEW m \in Datagrams
  PROVE  /\ m.port \in Ports
         /\ m.kind \in {"request", "ack", "special", "first", "continuation"}
         /\ m.kind = "ack" => m.seq \in Seqs
         /\ m.kind = "special" => m.answer \in Specials
         /\ m.kind \in {"first", "continuation"} => m \in PacketMsgs
  BY DEF Datagrams, RequestMsgs, AckMsgs, SpecialMsgs, PacketMsgs

\* A session that the server built, with its parts.
LEMMA BuiltPair ==
  ASSUME TypeOK, BuiltInRange, NEW p \in Ports, NEW x \in Built(p)
  PROVE  x[1] \in Docs /\ x[2] \in Seqs /\ x[2] \in FirstSeqs(x[1]) /\ x = <<x[1], x[2]>>
  <1>1. x \in (Docs \cup Specials) \X (Seqs \cup {NoSeq}) /\ x[1] \in Docs
    BY DEF TypeOK, Built
  <1>2. x[2] \in FirstSeqs(x[1])
    BY DEF BuiltInRange
  <1>3. 0 \in 0 .. EofIndex(x[1])
    BY <1>1, EofIndexType
  <1> QED
    BY <1>1, <1>2, <1>3, PacketType

\* Losing, ignoring or consuming a datagram cannot break anything.
LEMMA NetShrinks ==
  ASSUME IndInv, net' \subseteq net,
         UNCHANGED <<sessions, sendErrors, answered, client>>
  PROVE  IndInv'
  <1> USE DEF IndInv
  <1>1. TypeOK'
    BY DEF TypeOK
  <1>2. PacketsSourced'
    BY DEF PacketsSourced, Built
  <1>3. BuiltInRange'
    BY DEF BuiltInRange, Built
  <1>4. SessionsSound'
    BY DEF SessionsSound, SessionSound, Live, Built
  <1>5. ClientPhases'
    BY DEF ClientPhases, Built, Started
  <1>6. ClientsSound'
    BY DEF ClientsSound, Built, Started, ReassemblySound, HasChunk, Complete
  <1>7. AcksTruthful'
    BY DEF AcksTruthful, Built, Started, Got, HasChunk, Live
  <1> QED
    BY <1>1, <1>2, <1>3, <1>4, <1>5, <1>6, <1>7

\* The invariant holds before anything is sent.
LEMMA InitEstablishes == Init => IndInv
  <1> SUFFICES ASSUME Init PROVE IndInv
    OBVIOUS
  <1> USE DEF Init, ServerInit, ClientInit
  <1>1. \A p \in Ports : Built(p) = {} /\ client[p] = IdleClient /\ sessions[p] = NoSession
    BY DEF Built
  <1>2. IdleClient \in Client
    BY DEF IdleClient, Client, NoSeq
  <1>3. TypeOK
    BY <1>2, ServerAssumption DEF TypeOK
  <1>4. ClientPhases
    BY <1>1, ClientAssumption DEF ClientPhases, IdleClient, Started
  <1> QED
    BY <1>1, <1>3, <1>4 DEF IndInv, PacketsSourced, BuiltInRange, SessionsSound, Live,
       ClientsSound, AcksTruthful

----------------------------------------------------------------------------
(* The server's steps.                                                     *)

\* A step that replaces the session of q by t, keeps the history and sends only
\* packets of t, provided t accounts for every packet the client lacks.
LEMMA SessionUpdate ==
  ASSUME IndInv, NEW q \in Live, NEW t \in Session, NEW new,
         UNCHANGED <<client, answered>>, sendErrors' \in 0 .. MaxSendErrors,
         sessions' = [sessions EXCEPT ![q] = t],
         net' \subseteq net \cup new,
         \A m \in new : \E i \in 0 .. EofIndex(t.doc) : m = Packet(q, t.doc, t.base, i),
         t.doc = sessions[q].doc, t.base = sessions[q].base, WindowSound(t),
         t.done => t.next = TotalPackets(t.doc) /\ t.unacked = {},
         Built(q) = {<<t.doc, t.base>>} =>
            \A s \in t.base .. t.base + t.next - 1 : s \in t.unacked \/ Got(client[q], s)
  PROVE  IndInv'
  <1> USE DEF IndInv
  <1>0. /\ q \in Ports /\ <<t.doc, t.base>> \in Built(q)
        /\ t.doc \in Docs /\ t.base \in Seqs /\ t.base \in FirstSeqs(t.doc)
    <2>1. q \in Ports /\ <<t.doc, t.base>> \in Built(q)
      BY DEF SessionsSound, SessionSound, Live
    <2> QED
      BY <2>1, BuiltPair
  <1>a. \A p \in Ports : Built(p)' = Built(p)
    BY DEF Built
  <1>b. \A m \in new : /\ m \in PacketMsgs /\ m.port = q
                       /\ m.kind \in {"first", "continuation"}
    <2> TAKE m \in new
    <2>1. PICK i \in 0 .. EofIndex(t.doc) : m = Packet(q, t.doc, t.base, i)
      OBVIOUS
    <2>2. m \in PacketMsgs
      BY <1>0, <2>1, PacketType
    <2> QED
      BY <2>1, <2>2 DEF Packet, PacketMsgs
  <1>c. sessions \in [Ports -> Session \cup {NoSession}]
    BY DEF TypeOK
  <1>d. Live' = Live
    BY <1>0, <1>c, ServerAssumption DEF Live
  <1>1. TypeOK'
    BY <1>b, <1>c DEF TypeOK, Datagrams
  <1>2. PacketsSourced'
    <2> SUFFICES ASSUME NEW m \in net', m.kind \in {"first", "continuation"}
                 PROVE  \E x \in Built(m.port)' : \E i \in 0 .. EofIndex(x[1]) :
                            m = Packet(m.port, x[1], x[2], i)
      BY DEF PacketsSourced
    <2>1. CASE m \in net
      <3>1. m.port \in Ports
        BY <2>1, MessageTypes DEF TypeOK
      <3> QED
        BY <2>1, <3>1, <1>a DEF PacketsSourced
    <2>2. CASE m \in new
      <3>1. PICK i \in 0 .. EofIndex(t.doc) : m = Packet(q, t.doc, t.base, i)
        BY <2>2
      <3> DEFINE x == <<t.doc, t.base>>
      <3>2. m.port = q /\ x \in Built(q)' /\ x[1] = t.doc /\ x[2] = t.base
        BY <1>0, <1>a, <1>b, <2>2
      <3> QED
        BY <3>1, <3>2
    <2> QED
      BY <2>1, <2>2
  <1>3. BuiltInRange'
    BY <1>a DEF BuiltInRange
  <1>4. SessionsSound'
    <2> SUFFICES ASSUME NEW p \in Live PROVE SessionSound(p)'
      BY <1>d DEF SessionsSound
    <2>1. CASE p = q
      BY <2>1, <1>0, <1>a, <1>c DEF SessionSound, WindowSound
    <2>2. CASE p # q
      <3>1. sessions'[p] = sessions[p] /\ p \in Ports
        BY <2>2, <1>c DEF Live
      <3> QED
        BY <3>1, <1>a DEF SessionsSound, SessionSound
    <2> QED
      BY <2>1, <2>2
  <1>5. ClientPhases'
    BY <1>a DEF ClientPhases, Started
  <1>6. ClientsSound'
    BY <1>a DEF ClientsSound, Started, ReassemblySound, HasChunk, Complete
  <1>7. AcksTruthful'
    <2>1. \A m \in net' : m.kind = "ack" => m \in net
      BY <1>b
    <2> SUFFICES ASSUME NEW p \in Ports, NEW d \in Docs, NEW base \in Seqs,
                        Built(p) = {<<d, base>>}, p \in Live,
                        NEW s \in base .. base + sessions'[p].next - 1
                 PROVE  s \in sessions'[p].unacked \/ Got(client[p], s)
      BY <2>1, <1>a, <1>d DEF AcksTruthful, Got, Started, HasChunk
    <2>2. CASE p = q
      <3>1. t.doc = d /\ t.base = base
        BY <2>2, <1>0
      <3> QED
        BY <2>2, <3>1, <1>c
    <2>3. CASE p # q
      BY <2>3, <1>c DEF AcksTruthful
    <2> QED
      BY <2>2, <2>3
  <1> QED
    BY <1>1, <1>2, <1>3, <1>4, <1>5, <1>6, <1>7

\* acknowledge: the packet named by a truthful acknowledgement leaves the window.
LEMMA ReceiveAckPreserves ==
  ASSUME IndInv, NEW m \in net, ReceiveAck(m), UNCHANGED client
  PROVE  IndInv'
  <1> USE DEF IndInv
  <1> DEFINE q == m.port
             s0 == sessions[q]
             s == [s0 EXCEPT !.unacked = @ \ {m.seq}]
  <1>1. m.kind = "ack" /\ q \in Ports /\ m.seq \in Seqs
    BY MessageTypes DEF ReceiveAck, TypeOK
  <1>2. PICK rest \in Received(m) :
         \/ /\ s0 = NoSession
            /\ net' = rest
            /\ UNCHANGED <<sessions, sendErrors>>
         \/ /\ s0 # NoSession
            /\ \/ /\ s.next = TotalPackets(s.doc) /\ s.unacked = {}
                  /\ sessions' = [sessions EXCEPT ![q] = [s EXCEPT !.done = TRUE]]
                  /\ net' = rest
                  /\ UNCHANGED sendErrors
               \/ /\ ~ (s.next = TotalPackets(s.doc) /\ s.unacked = {})
                  /\ \E n \in 0 .. WindowRoom(s) :
                       /\ Sent(s, n)
                       /\ sessions' = [sessions EXCEPT ![q] = OpenWindow(s, n)]
                       /\ net' = rest \cup WindowPackets(q, s, n)
    BY DEF ReceiveAck
  <1>3. rest \subseteq net /\ UNCHANGED answered
    BY <1>2 DEF Received, ReceiveAck
  <1>4. CASE s0 = NoSession
    BY <1>2, <1>3, <1>4, NetShrinks
  <1>5. CASE s0 # NoSession
    <2>1. q \in Live /\ s0 \in Session
      BY <1>1, <1>5 DEF TypeOK, Live
    <2>2. SessionSound(q)
      BY <2>1 DEF SessionsSound
    <2>3. /\ s \in Session /\ s.doc = s0.doc /\ s.base = s0.base /\ s.next = s0.next
          /\ s.done = s0.done /\ s.unacked = s0.unacked \ {m.seq}
      BY <2>1 DEF Session
    <2>4. /\ s.doc \in Docs /\ s.base \in Nat /\ s.next \in Nat
          /\ s.base \in FirstSeqs(s.doc) /\ <<s.doc, s.base>> \in Built(q)
      <3>1. <<s.doc, s.base>> \in Built(q)
        BY <2>2, <2>3 DEF SessionSound
      <3> QED
        BY <3>1, <2>3, <1>1, BuiltPair, WireAssumption DEF Session, Seqs
    <2>5. WindowSound(s)
      <3>1. s.next \in 0 .. TotalPackets(s.doc) /\ s.unacked \subseteq s.base .. s.base + s.next - 1
        BY <2>2, <2>3 DEF SessionSound
      <3>2. IsFiniteSet(s0.unacked)
        <4> DEFINE hi == s.base + s.next - 1
        <4>1. s.base \in Int /\ hi \in Int /\ s0.unacked \subseteq s.base .. hi
          BY <2>2, <2>3, <2>4 DEF SessionSound
        <4> HIDE DEF hi
        <4> QED
          BY <4>1, FS_Interval, FS_Subset
      <3>3. Cardinality(s.unacked) <= Cardinality(s0.unacked)
            /\ Cardinality(s.unacked) \in Nat /\ Cardinality(s0.unacked) \in Nat
        BY <2>3, <3>2, FS_Subset, FS_CardinalityType
      <3> QED
        BY <3>1, <3>3, <2>2, ServerAssumption DEF WindowSound, SessionSound
    <2>6. ASSUME Built(q) = {<<s.doc, s.base>>},
                 NEW x \in s.base .. s.base + s.next - 1
          PROVE  x \in s.unacked \/ Got(client[q], x)
      <3>1. x \in s0.unacked \/ Got(client[q], x)
        BY <1>1, <2>1, <2>3, <2>4, <2>6 DEF AcksTruthful, Session
      <3>2. Got(client[q], m.seq)
        BY <1>1, <2>3, <2>4, <2>6 DEF AcksTruthful, Session
      <3> QED
        BY <3>1, <3>2, <2>3
    <2>7. CASE s.next = TotalPackets(s.doc) /\ s.unacked = {}
      <3> DEFINE t == [s EXCEPT !.done = TRUE]
      <3>1. /\ t \in Session /\ t.doc = s.doc /\ t.base = s.base /\ t.next = s.next
            /\ t.unacked = s.unacked /\ t.done = TRUE
        BY <2>3 DEF Session
      <3>2. WindowSound(t)
        BY <2>5, <3>1 DEF WindowSound
      <3>3. /\ sessions' = [sessions EXCEPT ![q] = t] /\ net' \subseteq net \cup {}
            /\ sendErrors' \in 0 .. MaxSendErrors
        BY <1>2, <1>3, <1>5, <2>7 DEF TypeOK
      <3> HIDE DEF t, s, q
      <3> QED
        BY <1>3, <2>1, <2>3, <2>6, <2>7, <3>1, <3>2, <3>3, SessionUpdate DEF s, q
    <2>8. CASE ~ (s.next = TotalPackets(s.doc) /\ s.unacked = {})
      <3>1. PICK n \in 0 .. WindowRoom(s) :
              /\ Sent(s, n)
              /\ sessions' = [sessions EXCEPT ![q] = OpenWindow(s, n)]
              /\ net' = rest \cup WindowPackets(q, s, n)
        BY <1>2, <1>5, <2>8
      <3> DEFINE t == OpenWindow(s, n)
                 new == WindowPackets(q, s, n)
      <3>2. /\ t \in Session
            /\ t.doc = s.doc /\ t.base = s.base /\ t.done = s.done /\ t.next = s.next + n
            /\ t.unacked = s.unacked \cup (s.base + s.next .. s.base + s.next + n - 1)
            /\ WindowSound(t) /\ s.next + n - 1 <= EofIndex(s.doc)
        BY <2>3, <2>4, <2>5, OpenWindowSound
      <3>3. n \in Nat /\ sendErrors' \in 0 .. MaxSendErrors
        BY <3>1, ServerAssumption DEF Sent, TypeOK
      <3>4. ~ s.done
        BY <2>2, <2>3, <2>8 DEF SessionSound
      <3>5. \A x \in new : \E i \in 0 .. EofIndex(t.doc) : x = Packet(q, t.doc, t.base, i)
        <4>1. s.next .. s.next + n - 1 \subseteq 0 .. EofIndex(s.doc)
          BY <2>4, <3>2, <3>3, EofIndexType
        <4> QED
          BY <3>2, <4>1 DEF WindowPackets
      <3>6. ASSUME Built(q) = {<<t.doc, t.base>>},
                   NEW x \in t.base .. t.base + t.next - 1
            PROVE  x \in t.unacked \/ Got(client[q], x)
        <4> HIDE DEF t, s, q
        <4>1. x \in s.base .. s.base + s.next - 1 \/ x \in s.base + s.next .. s.base + s.next + n - 1
          BY <2>4, <3>2, <3>3
        <4> QED
          BY <4>1, <2>6, <3>2, <3>6
      <3>7. /\ net' \subseteq net \cup new /\ sessions' = [sessions EXCEPT ![q] = t]
            /\ t.doc = sessions[q].doc /\ t.base = sessions[q].base
            /\ ~ t.done
        BY <3>1, <1>3, <2>3, <3>2, <3>4
      <3> HIDE DEF t, new, s, q
      <3> QED
        BY <1>3, <2>1, <3>2, <3>3, <3>5, <3>6, <3>7, SessionUpdate
    <2> QED
      BY <2>7, <2>8
  <1> QED
    BY <1>4, <1>5

\* A request answered with a success: the first session for this socket, or a
\* session whose predecessors are in the history.
LEMMA AnswerSuccessPreserves ==
  ASSUME IndInv, NEW m \in net, AnswerSuccess(m), UNCHANGED client
  PROVE  IndInv'
  <1> USE DEF IndInv
  <1> DEFINE q == m.port
  <1>1. q \in Ports /\ q \notin Live
    BY MessageTypes DEF AnswerSuccess, Admits, TypeOK
  <1>2. PICK rest \in Received(m), d \in Docs : \E base \in FirstSeqs(d) :
         LET s == BuiltSession(d, base)
         IN  \E n \in 0 .. WindowRoom(s) :
               /\ Sent(s, n)
               /\ sessions' = [sessions EXCEPT ![q] = OpenWindow(s, n)]
               /\ net' = rest \cup WindowPackets(q, s, n)
               /\ answered' = [answered EXCEPT ![q] = @ \cup {<<d, base>>}]
    BY DEF AnswerSuccess
  <1>3. PICK base \in FirstSeqs(d) : \E n \in 0 .. WindowRoom(BuiltSession(d, base)) :
               /\ Sent(BuiltSession(d, base), n)
               /\ sessions' = [sessions EXCEPT ![q] = OpenWindow(BuiltSession(d, base), n)]
               /\ net' = rest \cup WindowPackets(q, BuiltSession(d, base), n)
               /\ answered' = [answered EXCEPT ![q] = @ \cup {<<d, base>>}]
    BY <1>2
  <1> DEFINE s == BuiltSession(d, base)
             x == <<d, base>>
  <1>4. PICK n \in 0 .. WindowRoom(s) :
               /\ Sent(s, n)
               /\ sessions' = [sessions EXCEPT ![q] = OpenWindow(s, n)]
               /\ net' = rest \cup WindowPackets(q, s, n)
               /\ answered' = [answered EXCEPT ![q] = @ \cup {x}]
    BY <1>3
  <1> DEFINE t == OpenWindow(s, n)
             new == WindowPackets(q, s, n)
  <1>5. /\ EofIndex(d) \in Nat /\ TotalPackets(d) = EofIndex(d) + 1
        /\ base \in Seqs /\ base \in Nat
    <2>1. EofIndex(d) \in Nat /\ TotalPackets(d) = EofIndex(d) + 1 /\ 0 \in 0 .. EofIndex(d)
      BY EofIndexType
    <2> QED
      BY <1>1, <2>1, PacketType, WireAssumption DEF Seqs
  <1>6. /\ s \in Session /\ s.doc = d /\ s.base = base /\ s.next = 0 /\ s.unacked = {}
        /\ s.done = FALSE
    BY <1>5 DEF BuiltSession, Session
  <1>7. WindowSound(s)
    <2>1. Cardinality({}) = 0
      BY FS_EmptySet
    <2> QED
      BY <1>5, <1>6, <2>1, ServerAssumption DEF WindowSound
  <1>8. /\ t \in Session
        /\ t.doc = d /\ t.base = base /\ t.done = FALSE /\ t.next = n
        /\ t.unacked = base .. base + n - 1
        /\ WindowSound(t) /\ n - 1 <= EofIndex(d) /\ n \in Nat
    <2>1. n \in Nat
      OBVIOUS
    <2>2. /\ t \in Session
          /\ t.doc = s.doc /\ t.base = s.base /\ t.done = s.done /\ t.next = s.next + n
          /\ t.unacked = s.unacked \cup (s.base + s.next .. s.base + s.next + n - 1)
          /\ WindowSound(t) /\ s.next + n - 1 <= EofIndex(s.doc)
      BY <1>6, <1>7, OpenWindowSound
    <2> HIDE DEF t, s
    <2> QED
      BY <2>1, <2>2, <1>5, <1>6
  <1>9. \A y \in new : \E i \in 0 .. EofIndex(d) : y = Packet(q, d, base, i)
    <2>1. 0 .. 0 + n - 1 \subseteq 0 .. EofIndex(d)
      BY <1>5, <1>8
    <2> QED
      BY <1>6, <2>1 DEF WindowPackets
  <1>10. \A y \in new : /\ y \in PacketMsgs /\ y.port = q /\ y.kind \in {"first", "continuation"}
    <2> TAKE y \in new
    <2>1. PICK i \in 0 .. EofIndex(d) : y = Packet(q, d, base, i)
      BY <1>9
    <2>2. y \in PacketMsgs
      BY <1>1, <2>1, PacketType
    <2> QED
      BY <2>1, <2>2 DEF Packet, PacketMsgs
  <1>11. rest \subseteq net /\ sendErrors' \in 0 .. MaxSendErrors
    BY <1>4, ServerAssumption DEF Received, Sent, TypeOK
  <1>12. /\ sessions \in [Ports -> Session \cup {NoSession}]
         /\ sessions' = [sessions EXCEPT ![q] = t]
         /\ net' = rest \cup new
         /\ answered' = [answered EXCEPT ![q] = @ \cup {x}]
         /\ answered \in [Ports -> SUBSET ((Docs \cup Specials) \X (Seqs \cup {NoSeq}))]
    BY <1>4 DEF TypeOK
  <1> HIDE DEF s, t, new, q
  <1>13. Live' = Live \cup {q}
    BY <1>1, <1>8, <1>12, ServerAssumption DEF Live
  <1>14. /\ \A p \in Ports : Built(p) \subseteq Built(p)'
         /\ \A p \in Ports : p # q => Built(p)' = Built(p)
         /\ Built(q)' = Built(q) \cup {x}
    <2>1. x[1] \in Docs
      OBVIOUS
    <2> QED
      BY <1>1, <1>12, <2>1 DEF Built
  <1>15. ASSUME NEW e \in Docs, NEW b \in Seqs, NEW p \in Ports, Built(p)' = {<<e, b>>}
         PROVE  Built(p) = {<<e, b>>} \/ Built(p) = {}
    BY <1>14, <1>15
  <1>16. TypeOK'
    <2>1. x \in (Docs \cup Specials) \X (Seqs \cup {NoSeq})
      BY <1>5
    <2>2. net' \subseteq Datagrams
      BY <1>10, <1>11, <1>12 DEF TypeOK, Datagrams
    <2>3. answered' \in [Ports -> SUBSET ((Docs \cup Specials) \X (Seqs \cup {NoSeq}))]
      <3> HIDE DEF x
      <3> QED
        BY <1>1, <1>12, <2>1
    <2>4. sessions' \in [Ports -> Session \cup {NoSession}]
      BY <1>8, <1>12
    <2> QED
      BY <1>11, <2>2, <2>3, <2>4 DEF TypeOK
  <1>17. PacketsSourced'
    <2> SUFFICES ASSUME NEW y \in net', y.kind \in {"first", "continuation"}
                 PROVE  \E z \in Built(y.port)' : \E i \in 0 .. EofIndex(z[1]) :
                            y = Packet(y.port, z[1], z[2], i)
      BY DEF PacketsSourced
    <2>1. CASE y \in net
      <3>1. y.port \in Ports
        BY <2>1, MessageTypes DEF TypeOK
      <3> QED
        BY <2>1, <3>1, <1>14 DEF PacketsSourced
    <2>2. CASE y \in new
      <3>1. PICK i \in 0 .. EofIndex(d) : y = Packet(q, d, base, i)
        BY <2>2, <1>9
      <3>2. y.port = q /\ x \in Built(q)' /\ x[1] = d /\ x[2] = base
        BY <1>10, <1>14, <2>2
      <3> QED
        BY <3>1, <3>2
    <2> QED
      BY <1>11, <1>12, <2>1, <2>2
  <1>18. BuiltInRange'
    <2>1. x[2] \in FirstSeqs(x[1])
      OBVIOUS
    <2> HIDE DEF x
    <2> QED
      BY <2>1, <1>14 DEF BuiltInRange
  <1>19. SessionsSound'
    <2> SUFFICES ASSUME NEW p \in Live' PROVE SessionSound(p)'
      BY DEF SessionsSound
    <2>1. CASE p = q
      BY <2>1, <1>1, <1>8, <1>12, <1>14 DEF SessionSound, WindowSound
    <2>2. CASE p # q
      <3>1. sessions'[p] = sessions[p] /\ p \in Ports /\ p \in Live
        BY <2>2, <1>12, <1>13 DEF Live
      <3> QED
        BY <2>2, <3>1, <1>14 DEF SessionsSound, SessionSound
    <2> QED
      BY <2>1, <2>2
  <1>20. ClientPhases'
    BY <1>14 DEF ClientPhases, Started
  <1>21. ClientsSound'
    <2> SUFFICES ASSUME NEW p \in Ports, NEW e \in Docs, NEW b \in Seqs,
                        Built(p)' = {<<e, b>>}, Started(client[p])
                 PROVE  ReassemblySound(client[p], e, b)
      BY DEF ClientsSound, Started, ReassemblySound, HasChunk, Complete
    <2>1. Built(p) = {<<e, b>>}
      BY <1>15 DEF ClientPhases
    <2> QED
      BY <2>1 DEF ClientsSound
  <1>22. AcksTruthful'
    <2>1. \A y \in net' : y.kind = "ack" => y \in net
      BY <1>10, <1>11, <1>12
    <2>2. \A p \in Ports : \A y \in net' : (y.kind = "ack" /\ y.port = p) => Started(client[p])
      BY <2>1 DEF AcksTruthful
    <2> SUFFICES ASSUME NEW p \in Ports, NEW e \in Docs, NEW b \in Seqs, Built(p)' = {<<e, b>>}
                 PROVE  /\ \A y \in net' : (y.kind = "ack" /\ y.port = p) => Got(client[p], y.seq)
                        /\ p \in Live' => \A z \in b .. b + sessions'[p].next - 1 :
                              z \in sessions'[p].unacked \/ Got(client[p], z)
      BY <2>2 DEF AcksTruthful, Got, Started, HasChunk
    <2>3. ASSUME NEW y \in net', y.kind = "ack", y.port = p
          PROVE  Got(client[p], y.seq)
      <3>1. Built(p) # {}
        BY <2>1, <2>2, <2>3 DEF ClientPhases
      <3> QED
        BY <3>1, <1>15, <2>1, <2>3 DEF AcksTruthful
    <2>4. ASSUME p \in Live', NEW z \in b .. b + sessions'[p].next - 1
          PROVE  z \in sessions'[p].unacked \/ Got(client[p], z)
      <3>1. CASE p = q
        <4>0. x \in {<<e, b>>}
          BY <3>1, <1>14 DEF Built
        <4>1. b = base
          BY <4>0
        <4> QED
          BY <2>4, <3>1, <4>1, <1>1, <1>8, <1>12
      <3>2. CASE p # q
        BY <2>4, <3>2, <1>12, <1>13, <1>14 DEF AcksTruthful
      <3> QED
        BY <3>1, <3>2
    <2> QED
      BY <2>3, <2>4
  <1> QED
    BY <1>16, <1>17, <1>18, <1>19, <1>20, <1>21, <1>22

\* A step that changes the network only: requests, special packets and truthful
\* acknowledgements may be added.
LEMMA NetGrows ==
  ASSUME IndInv, NEW new \in SUBSET Datagrams, net' \subseteq net \cup new,
         UNCHANGED <<sessions, sendErrors, client>>,
         answered' \in [Ports -> SUBSET ((Docs \cup Specials) \X (Seqs \cup {NoSeq}))],
         \A p \in Ports : Built(p)' = Built(p),
         \A m \in new :
            /\ m.kind \in {"request", "special", "ack"}
            /\ m.kind = "ack" =>
                  /\ Started(client[m.port])
                  /\ \A d \in Docs, base \in Seqs :
                        Built(m.port) = {<<d, base>>} => Got(client[m.port], m.seq)
  PROVE  IndInv'
  <1> USE DEF IndInv
  <1>1. TypeOK'
    BY DEF TypeOK
  <1>2. PacketsSourced'
    <2>1. \A m \in net' : m.kind \in {"first", "continuation"} => m \in net /\ m.port \in Ports
      BY MessageTypes DEF TypeOK
    <2> QED
      BY <2>1 DEF PacketsSourced
  <1>3. BuiltInRange'
    BY DEF BuiltInRange
  <1>4. SessionsSound'
    BY DEF SessionsSound, SessionSound, Live
  <1>5. ClientPhases'
    BY DEF ClientPhases, Started
  <1>6. ClientsSound'
    BY DEF ClientsSound, Started, ReassemblySound, HasChunk, Complete
  <1>7. AcksTruthful'
    <2>1. \A p \in Ports : \A m \in net' : (m.kind = "ack" /\ m.port = p) =>
             /\ Started(client[p])
             /\ \A d \in Docs, base \in Seqs :
                   Built(p) = {<<d, base>>} => Got(client[p], m.seq)
      BY DEF AcksTruthful
    <2>2. \A p \in Ports : \A d \in Docs, base \in Seqs : Built(p) = {<<d, base>>} =>
              (p \in Live => \A s \in base .. base + sessions[p].next - 1 :
                                s \in sessions[p].unacked \/ Got(client[p], s))
      BY DEF AcksTruthful
    <2> QED
      BY <2>1, <2>2 DEF AcksTruthful, Got, Started, HasChunk, Live
  <1> QED
    BY <1>1, <1>2, <1>3, <1>4, <1>5, <1>6, <1>7

\* A prompt, redirect or error adds an answer, and no session.
LEMMA AnswerSpecialPreserves ==
  ASSUME IndInv, NEW m \in net, AnswerSpecial(m), UNCHANGED client
  PROVE  IndInv'
  <1>1. m.port \in Ports
    BY MessageTypes DEF IndInv, TypeOK
  <1>2. PICK rest \in Received(m), a \in Specials :
          /\ net' = rest \cup {Special(m.port, a)}
          /\ answered' = [answered EXCEPT ![m.port] = @ \cup {<<a, NoSeq>>}]
    BY DEF AnswerSpecial
  <1> DEFINE new == {Special(m.port, a)}
  <1>3. new \in SUBSET Datagrams /\ \A y \in new : y.kind = "special"
    BY <1>1 DEF Special, Datagrams, SpecialMsgs
  <1>4. net' \subseteq net \cup new
    BY <1>2 DEF Received
  <1>5. answered \in [Ports -> SUBSET ((Docs \cup Specials) \X (Seqs \cup {NoSeq}))]
    BY DEF IndInv, TypeOK
  <1>6. answered' \in [Ports -> SUBSET ((Docs \cup Specials) \X (Seqs \cup {NoSeq}))]
    BY <1>1, <1>2, <1>5
  <1>7. \A p \in Ports : Built(p)' = Built(p)
    BY <1>1, <1>2, <1>5, WireAssumption DEF Built
  <1>8. UNCHANGED <<sessions, sendErrors>>
    BY DEF AnswerSpecial
  <1> HIDE DEF new
  <1> QED
    BY <1>3, <1>4, <1>6, <1>7, <1>8, NetGrows

\* tick: dropped sessions stay in the history, retransmissions repeat packets.
LEMMA TickPreserves ==
  ASSUME IndInv, NEW dropped, NEW due, Tick(dropped, due), UNCHANGED client
  PROVE  IndInv'
  <1> USE DEF IndInv
  <1> DEFINE new == UNION {Retransmission(p) : p \in due}
  <1>1. /\ sessions' = [p \in Ports |-> IF p \in dropped THEN NoSession ELSE sessions[p]]
        /\ net' = net \cup new /\ UNCHANGED <<sendErrors, answered>>
        /\ due \subseteq Live
    BY DEF Tick
  <1>2. \A p \in Ports : Built(p)' = Built(p)
    BY <1>1 DEF Built
  <1>3. ASSUME NEW m \in new
        PROVE  /\ m \in PacketMsgs /\ m.kind \in {"first", "continuation"} /\ m.port \in Ports
               /\ \E x \in Built(m.port) : \E i \in 0 .. EofIndex(x[1]) :
                      m = Packet(m.port, x[1], x[2], i)
    <2>1. PICK p \in due : m \in Retransmission(p)
      OBVIOUS
    <2>2. PICK s \in sessions[p].unacked :
            m = Packet(p, sessions[p].doc, sessions[p].base, s - sessions[p].base)
      BY <2>1 DEF Retransmission
    <2> DEFINE d == sessions[p].doc
               base == sessions[p].base
               x == <<d, base>>
               i == s - base
    <2>3. p \in Ports /\ p \in Live /\ SessionSound(p)
      BY <1>1 DEF Live, SessionsSound
    <2>4. x \in Built(p) /\ d \in Docs /\ base \in Seqs /\ base \in FirstSeqs(d)
      <3>1. x \in Built(p)
        BY <2>3 DEF SessionSound
      <3> QED
        BY <3>1, <2>3, BuiltPair
    <2>5. i \in 0 .. EofIndex(d)
      <3>1. EofIndex(d) \in Nat /\ TotalPackets(d) = EofIndex(d) + 1 /\ base \in Nat
        BY <2>4, EofIndexType, WireAssumption DEF Seqs
      <3>2. s \in base .. base + sessions[p].next - 1 /\ sessions[p].next \in 0 .. TotalPackets(d)
        BY <2>2, <2>3 DEF SessionSound
      <3> QED
        BY <3>1, <3>2
    <2>6. m = Packet(p, d, base, i) /\ m \in PacketMsgs
      BY <2>2, <2>3, <2>4, <2>5, PacketType
    <2>7. m.port = p /\ m.kind \in {"first", "continuation"}
      BY <2>6 DEF Packet, PacketMsgs
    <2>8. x[1] = d /\ x[2] = base
      OBVIOUS
    <2> HIDE DEF x, d, base, i
    <2> QED
      BY <2>3, <2>4, <2>5, <2>6, <2>7, <2>8
  <1>4. \A p \in Live' : p \in Live /\ p \in Ports /\ sessions'[p] = sessions[p]
    BY <1>1 DEF Live
  <1>5. TypeOK'
    <2>1. net' \subseteq Datagrams
      BY <1>1, <1>3 DEF TypeOK, Datagrams
    <2> QED
      BY <1>1, <2>1 DEF TypeOK
  <1>6. PacketsSourced'
    <2> SUFFICES ASSUME NEW m \in net', m.kind \in {"first", "continuation"}
                 PROVE  \E x \in Built(m.port)' : \E i \in 0 .. EofIndex(x[1]) :
                            m = Packet(m.port, x[1], x[2], i)
      BY DEF PacketsSourced
    <2>1. CASE m \in net
      <3>1. m.port \in Ports
        BY <2>1, MessageTypes DEF TypeOK
      <3> QED
        BY <2>1, <3>1, <1>2 DEF PacketsSourced
    <2>2. CASE m \in new
      BY <2>2, <1>2, <1>3
    <2> QED
      BY <1>1, <2>1, <2>2
  <1>7. BuiltInRange'
    BY <1>2 DEF BuiltInRange
  <1>8. SessionsSound'
    BY <1>2, <1>4 DEF SessionsSound, SessionSound
  <1>9. ClientPhases'
    BY <1>2 DEF ClientPhases, Started
  <1>10. ClientsSound'
    BY <1>2 DEF ClientsSound, Started, ReassemblySound, HasChunk, Complete
  <1>11. AcksTruthful'
    <2>1. \A m \in net' : m.kind = "ack" => m \in net
      BY <1>1, <1>3
    <2> HIDE DEF new
    <2> QED
      BY <2>1, <1>2, <1>4 DEF AcksTruthful, Got, Started, HasChunk
  <1> QED
    BY <1>5, <1>6, <1>7, <1>8, <1>9, <1>10, <1>11

----------------------------------------------------------------------------
(* The client's steps.                                                     *)

\* The loop head decides about the result and touches nothing else.
LEMMA CheckedParts ==
  ASSUME NEW c \in Client, c.phase = "waiting", c.result = "pending"
  PROVE  LET r == Checked(c) IN
         /\ r \in Client
         /\ r.first = c.first /\ r.chunks = c.chunks /\ r.end = c.end
         /\ r.buffered = c.buffered /\ r.eof = c.eof
         /\ r.result \in {"success", "too large", "pending"}
         /\ r.result = "success" <=> (Started(c) /\ Complete(c))
         /\ r.phase = "ended" <=> r.result # "pending"
         /\ r.phase # "idle"
  BY DEF Checked, End, Client, Outcomes, Failures

\* A receive step of q, whose reassembly becomes c, and which sends one acknowledgement.
LEMMA ClientUpdate ==
  ASSUME IndInv, NEW q \in Ports, NEW c \in Client, NEW seq \in Seqs,
         client' = [client EXCEPT ![q] = c], net' \subseteq net \cup {Ack(q, seq)},
         UNCHANGED <<sessions, sendErrors, answered>>,
         Started(c), Built(q) # {}, c.end # NoSeq,
         c.phase = "ended" <=> c.result # "pending", c.phase # "idle", c.result \notin Specials,
         \A d \in Docs, base \in Seqs : Built(q) = {<<d, base>>} =>
            /\ ReassemblySound(c, d, base)
            /\ \A s \in Seqs : Got(client[q], s) => Got(c, s)
            /\ Got(c, seq)
  PROVE  IndInv'
  <1> USE DEF IndInv
  <1>1. client \in [Ports -> Client] /\ client'[q] = c
        /\ \A p \in Ports : p # q => client'[p] = client[p]
    BY DEF TypeOK
  <1>2. \A p \in Ports : Built(p)' = Built(p)
    BY DEF Built
  <1>3. /\ Ack(q, seq) \in Datagrams /\ Ack(q, seq).kind = "ack"
        /\ Ack(q, seq).port = q /\ Ack(q, seq).seq = seq
    BY DEF Ack, Datagrams, AckMsgs
  <1>4. TypeOK'
    BY <1>1, <1>3 DEF TypeOK
  <1>5. PacketsSourced'
    <2>1. \A m \in net' : m.kind \in {"first", "continuation"} => m \in net /\ m.port \in Ports
      BY <1>3, MessageTypes DEF TypeOK
    <2> QED
      BY <1>2, <2>1 DEF PacketsSourced
  <1>6. BuiltInRange'
    BY <1>2 DEF BuiltInRange
  <1>7. SessionsSound'
    BY <1>2 DEF SessionsSound, SessionSound, Live
  <1>8. ClientPhases'
    <2> SUFFICES ASSUME NEW p \in Ports
                 PROVE  LET b == client'[p] IN
                        /\ b.phase = "ended" <=> b.result # "pending"
                        /\ b.phase = "idle" => ~ Started(b)
                        /\ Started(b) => Built(p) # {} /\ b.end # NoSeq
                        /\ b.result \in Specials => ~ Started(b)
                        /\ ~ Started(b) =>
                              /\ b.chunks = [s \in Seqs |-> NoData] /\ b.eof = NoSeq
                              /\ b.result \notin {"success", "too large"}
      BY <1>2 DEF ClientPhases, Started
    <2>1. CASE p = q
      BY <2>1, <1>1
    <2>2. CASE p # q
      BY <2>2, <1>1 DEF ClientPhases
    <2> QED
      BY <2>1, <2>2
  <1>9. ClientsSound'
    <2> SUFFICES ASSUME NEW p \in Ports, NEW d \in Docs, NEW base \in Seqs,
                        Built(p) = {<<d, base>>}, Started(client'[p])
                 PROVE  ReassemblySound(client'[p], d, base)
      BY <1>2 DEF ClientsSound, Started, ReassemblySound, HasChunk, Complete
    <2>1. CASE p = q
      BY <2>1, <1>1
    <2>2. CASE p # q
      BY <2>2, <1>1 DEF ClientsSound
    <2> QED
      BY <2>1, <2>2
  <1>10. AcksTruthful'
    <2>1. ASSUME NEW p \in Ports, NEW m \in net', m.kind = "ack", m.port = p
          PROVE  /\ Started(client'[p])
                 /\ \A d \in Docs, base \in Seqs :
                       Built(p) = {<<d, base>>} => Got(client'[p], m.seq)
      <3>1. CASE m \in net /\ p = q
        <4>1. m.seq \in Seqs
          BY <2>1, <3>1, MessageTypes DEF TypeOK
        <4> QED
          BY <2>1, <3>1, <4>1, <1>1 DEF AcksTruthful
      <3>2. CASE m \in net /\ p # q
        BY <2>1, <3>2, <1>1 DEF AcksTruthful
      <3>3. CASE m = Ack(q, seq)
        BY <2>1, <3>3, <1>1, <1>3
      <3> QED
        BY <3>1, <3>2, <3>3
    <2>2. ASSUME NEW p \in Ports, NEW d \in Docs, NEW base \in Seqs,
                 Built(p) = {<<d, base>>}, p \in Live,
                 NEW s \in base .. base + sessions[p].next - 1
          PROVE  s \in sessions[p].unacked \/ Got(client'[p], s)
      <3>1. s \in sessions[p].unacked \/ Got(client[p], s)
        BY <2>2 DEF AcksTruthful
      <3>2. CASE p = q
        <4>1. Got(client[p], s) => s \in Seqs
          <5>1. s # NoSeq
            BY WireAssumption DEF Seqs, NoSeq
          <5>2. client[p].eof \in Seqs \cup {NoSeq}
            BY <1>1 DEF Client
          <5> QED
            BY <5>1, <5>2 DEF Got, HasChunk
        <4> QED
          BY <2>2, <3>1, <3>2, <4>1, <1>1
      <3>3. CASE p # q
        BY <3>1, <3>3, <1>1
      <3> QED
        BY <3>2, <3>3
    <2> QED
      BY <2>1, <2>2, <1>2 DEF AcksTruthful, Got, Started, HasChunk, Live
  <1> QED
    BY <1>4, <1>5, <1>6, <1>7, <1>8, <1>9, <1>10

\* fetch sends the request and changes nothing else than the phase.
LEMMA FetchPreserves ==
  ASSUME IndInv, NEW p \in Ports, Fetch(p), UNCHANGED serverVars
  PROVE  IndInv'
  <1> USE DEF IndInv
  <1> DEFINE c == client[p]
             b == [c EXCEPT !.phase = "waiting"]
  <1>1. /\ client \in [Ports -> Client] /\ client' = [client EXCEPT ![p] = b]
        /\ net' = net \cup {Request(p)} /\ UNCHANGED <<sessions, sendErrors, answered>>
        /\ c.phase = "idle"
    BY DEF TypeOK, Fetch, serverVars
  <1>2. /\ b \in Client /\ b.phase = "waiting" /\ b.first = c.first /\ b.chunks = c.chunks
        /\ b.end = c.end /\ b.buffered = c.buffered /\ b.eof = c.eof /\ b.result = c.result
    BY <1>1 DEF Client
  <1>3. ~ Started(c) /\ c.result = "pending"
    BY <1>1 DEF ClientPhases
  <1>4. /\ client'[p] = b /\ \A r \in Ports : r # p => client'[r] = client[r]
        /\ \A r \in Ports : Built(r)' = Built(r)
        /\ \A m \in net' : m.kind # "request" => m \in net
    BY <1>1 DEF Built, Request
  <1> HIDE DEF b
  <1>5. TypeOK'
    <2>1. Request(p) \in Datagrams
      BY DEF Request, Datagrams, RequestMsgs
    <2> QED
      BY <1>1, <1>2, <2>1 DEF TypeOK
  <1>6. PacketsSourced'
    <2>1. \A m \in net' : m.kind \in {"first", "continuation"} => m \in net /\ m.port \in Ports
      BY <1>4, MessageTypes DEF TypeOK
    <2> QED
      BY <1>4, <2>1 DEF PacketsSourced
  <1>7. BuiltInRange'
    BY <1>4 DEF BuiltInRange
  <1>8. SessionsSound'
    BY <1>1, <1>4 DEF SessionsSound, SessionSound, Live
  <1>9. ClientPhases'
    <2> SUFFICES ASSUME NEW r \in Ports
                 PROVE  LET e == client'[r] IN
                        /\ e.phase = "ended" <=> e.result # "pending"
                        /\ e.phase = "idle" => ~ Started(e)
                        /\ Started(e) => Built(r) # {} /\ e.end # NoSeq
                        /\ e.result \in Specials => ~ Started(e)
                        /\ ~ Started(e) =>
                              /\ e.chunks = [s \in Seqs |-> NoData] /\ e.eof = NoSeq
                              /\ e.result \notin {"success", "too large"}
      BY <1>4 DEF ClientPhases, Started
    <2>1. CASE r = p
      BY <2>1, <1>2, <1>3, <1>4 DEF ClientPhases, Started
    <2>2. CASE r # p
      BY <2>2, <1>4 DEF ClientPhases
    <2> QED
      BY <2>1, <2>2
  <1>10. \A r \in Ports :
            /\ Started(client'[r]) => client'[r] = client[r]
            /\ Started(client[r]) => client'[r] = client[r]
    BY <1>2, <1>3, <1>4 DEF Started
  <1>11. ClientsSound'
    <2> SUFFICES ASSUME NEW r \in Ports, NEW d \in Docs, NEW base \in Seqs,
                        Built(r) = {<<d, base>>}, Started(client'[r])
                 PROVE  ReassemblySound(client'[r], d, base)
      BY <1>4 DEF ClientsSound, Started, ReassemblySound, HasChunk, Complete
    <2>1. client'[r] = client[r]
      BY <1>10 DEF Started
    <2> QED
      BY <2>1 DEF ClientsSound
  <1>12. AcksTruthful'
    <2>1. ASSUME NEW r \in Ports, NEW s, Got(client[r], s)
          PROVE  Got(client'[r], s)
      <3>1. client'[r] = client[r]
        BY <1>10, <2>1 DEF Got, Started
      <3> QED
        BY <2>1, <3>1
    <2>2. \A m \in net' : m.kind = "ack" => m \in net
      BY <1>4
    <2>3. \A r \in Ports : Started(client[r]) => Started(client'[r])
      BY <1>10
    <2> QED
      BY <2>1, <2>2, <2>3, <1>1, <1>4 DEF AcksTruthful, Got, Started, HasChunk, Live
  <1> QED
    BY <1>5, <1>6, <1>7, <1>8, <1>9, <1>11, <1>12

\* The stall point and the end of file, if seen, are packets the client has.
LEMMA StallPreserves ==
  ASSUME IndInv, NEW p \in Ports, Stall(p), UNCHANGED serverVars
  PROVE  IndInv'
  <1>1. UNCHANGED <<sessions, sendErrors, answered, client>>
    BY DEF Stall, serverVars
  <1>2. answered' \in [Ports -> SUBSET ((Docs \cup Specials) \X (Seqs \cup {NoSeq}))]
        /\ \A r \in Ports : Built(r)' = Built(r)
    BY <1>1 DEF IndInv, TypeOK, Built
  <1>3. CASE ~ Started(client[p])
    <2>1. net' = net \cup {Request(p)}
      BY <1>3 DEF Stall
    <2>2. Request(p) \in Datagrams /\ Request(p).kind = "request"
      BY DEF Request, Datagrams, RequestMsgs
    <2> DEFINE new == {Request(p)}
    <2>3. /\ new \in SUBSET Datagrams /\ net' \subseteq net \cup new
          /\ \A m \in new : m.kind = "request"
      BY <2>1, <2>2
    <2> HIDE DEF new
    <2> QED
      BY <1>1, <1>2, <2>3, NetGrows
  <1>4. CASE Started(client[p])
    <2> DEFINE new == {Ack(p, s) : s \in {client[p].end, client[p].eof} \ {NoSeq}}
    <2>1. net' = net \cup new
      BY <1>4 DEF Stall
    <2>2. client[p] \in Client
      BY DEF IndInv, TypeOK
    <2>3. ASSUME NEW m \in new
          PROVE  /\ m \in Datagrams /\ m.kind = "ack" /\ m.port = p
                 /\ Started(client[m.port])
                 /\ \A d \in Docs, base \in Seqs :
                       Built(m.port) = {<<d, base>>} => Got(client[m.port], m.seq)
      <3>1. PICK s \in {client[p].end, client[p].eof} \ {NoSeq} : m = Ack(p, s)
        OBVIOUS
      <3>2. s \in Seqs
        BY <2>2, <3>1 DEF Client
      <3>3. m \in Datagrams /\ m.kind = "ack" /\ m.port = p /\ m.seq = s
        BY <3>1, <3>2 DEF Ack, Datagrams, AckMsgs
      <3>4. ASSUME NEW d \in Docs, NEW base \in Seqs, Built(p) = {<<d, base>>}
            PROVE  Got(client[p], s)
        <4>1. ReassemblySound(client[p], d, base)
          BY <1>4, <3>4 DEF IndInv, ClientsSound
        <4>2. base \in Nat /\ client[p].end \in base .. client[p].end
          BY <4>1, WireAssumption DEF ReassemblySound, Seqs
        <4> QED
          BY <1>4, <3>1, <3>2, <4>1, <4>2 DEF ReassemblySound, Got, HasChunk
      <3> QED
        BY <1>4, <3>3, <3>4
    <2> HIDE DEF new
    <2> QED
      BY <1>1, <1>2, <2>1, <2>3, NetGrows
  <1> QED
    BY <1>3, <1>4

\* A fetch that ends without a success: by a deadline, or by an answer of one packet.
LEMMA EndPreserves ==
  ASSUME IndInv, NEW q \in Ports, client[q].phase = "waiting",
         NEW r \in Specials \cup {"failed"}, r \in Specials => ~ Started(client[q]),
         client' = [client EXCEPT ![q] = End(client[q], r)],
         net' \subseteq net, UNCHANGED <<sessions, sendErrors, answered>>
  PROVE  IndInv'
  <1> USE DEF IndInv
  <1> DEFINE c == client[q]
             b == End(c, r)
  <1>1. c \in Client /\ client \in [Ports -> Client]
    BY DEF TypeOK
  <1>2. /\ b \in Client /\ b.phase = "ended" /\ b.result = r
        /\ b.first = c.first /\ b.chunks = c.chunks /\ b.end = c.end /\ b.eof = c.eof
    BY <1>1 DEF End, Client, Outcomes, Failures
  <1>3. r \notin {"success", "too large", "pending"} /\ c.result = "pending"
    BY ClientAssumption DEF ClientPhases, Failures
  <1>4. /\ client' = [client EXCEPT ![q] = b]
        /\ client'[q] = b /\ \A p \in Ports : p # q => client'[p] = client[p]
        /\ \A p \in Ports : Built(p)' = Built(p)
    BY <1>1 DEF Built
  <1> HIDE DEF b
  <1>5. \A p \in Ports : /\ Started(client'[p]) <=> Started(client[p])
                         /\ \A s : Got(client'[p], s) <=> Got(client[p], s)
    BY <1>2, <1>4 DEF Started, Got, HasChunk
  <1>6. TypeOK'
    BY <1>1, <1>2, <1>4 DEF TypeOK
  <1>7. PacketsSourced'
    BY DEF PacketsSourced, Built
  <1>8. BuiltInRange'
    BY <1>4 DEF BuiltInRange
  <1>9. SessionsSound'
    BY <1>4 DEF SessionsSound, SessionSound, Live
  <1>10. ClientPhases'
    <2> SUFFICES ASSUME NEW p \in Ports
                 PROVE  LET e == client'[p] IN
                        /\ e.phase = "ended" <=> e.result # "pending"
                        /\ e.phase = "idle" => ~ Started(e)
                        /\ Started(e) => Built(p) # {} /\ e.end # NoSeq
                        /\ e.result \in Specials => ~ Started(e)
                        /\ ~ Started(e) =>
                              /\ e.chunks = [s \in Seqs |-> NoData] /\ e.eof = NoSeq
                              /\ e.result \notin {"success", "too large"}
      BY <1>4 DEF ClientPhases, Started
    <2>1. CASE p = q
      <3>1. /\ Started(c) => Built(q) # {} /\ c.end # NoSeq
            /\ ~ Started(c) => c.chunks = [s \in Seqs |-> NoData] /\ c.eof = NoSeq
        BY DEF ClientPhases
      <3>2. Started(b) <=> Started(c)
        BY <1>2 DEF Started
      <3> QED
        BY <2>1, <1>2, <1>3, <1>4, <3>1, <3>2
    <2>2. CASE p # q
      BY <2>2, <1>4 DEF ClientPhases
    <2> QED
      BY <2>1, <2>2
  <1>11. ClientsSound'
    <2> SUFFICES ASSUME NEW p \in Ports, NEW d \in Docs, NEW base \in Seqs,
                        Built(p) = {<<d, base>>}, Started(client'[p])
                 PROVE  ReassemblySound(client'[p], d, base)
      BY <1>4 DEF ClientsSound, Started, ReassemblySound, HasChunk, Complete
    <2>1. ReassemblySound(client[p], d, base)
      BY <1>5 DEF ClientsSound
    <2>2. CASE p = q
      <3>1. ReassemblySound(c, d, base) /\ ~ Complete(c)
        BY <2>1, <2>2, <1>3 DEF ReassemblySound
      <3>2. ~ Complete(b) /\ b.result # "success"
        BY <3>1, <1>2, <1>3 DEF Complete
      <3>3. ReassemblySound(b, d, base)
        BY <3>1, <3>2, <1>2 DEF ReassemblySound, HasChunk
      <3> QED
        BY <2>2, <3>3, <1>4
    <2>3. CASE p # q
      BY <2>1, <2>3, <1>4
    <2> QED
      BY <2>2, <2>3
  <1>12. AcksTruthful'
    BY <1>4, <1>5 DEF AcksTruthful, Got, Started, HasChunk, Live
  <1> QED
    BY <1>6, <1>7, <1>8, <1>9, <1>10, <1>11, <1>12

\* The deadline of transact.
LEMMA GiveUpPreserves ==
  ASSUME IndInv, NEW p \in Ports, GiveUp(p), UNCHANGED serverVars
  PROVE  IndInv'
  <1>1. /\ client[p].phase = "waiting" /\ client' = [client EXCEPT ![p] = End(client[p], "failed")]
        /\ net' \subseteq net /\ UNCHANGED <<sessions, sendErrors, answered>>
    BY DEF GiveUp, serverVars
  <1>2. "failed" \in Specials \cup {"failed"} /\ "failed" \notin Specials
    BY ClientAssumption DEF Failures
  <1> QED
    BY <1>1, <1>2, EndPreserves

\* A special packet ends a fetch that has not started to receive a success.
LEMMA ReceiveSpecialPreserves ==
  ASSUME IndInv, NEW m \in net, ReceiveSpecial(m), UNCHANGED serverVars
  PROVE  IndInv'
  <1>1. m.port \in Ports /\ m.answer \in Specials
    BY MessageTypes DEF ReceiveSpecial, IndInv, TypeOK
  <1>2. net' \subseteq net /\ UNCHANGED <<sessions, sendErrors, answered>>
    BY DEF ReceiveSpecial, Received, serverVars
  <1>3. CASE Started(client[m.port])
    BY <1>2, <1>3, NetShrinks DEF ReceiveSpecial
  <1>4. CASE ~ Started(client[m.port])
    <2>1. /\ client[m.port].phase = "waiting"
          /\ client' = [client EXCEPT ![m.port] = End(client[m.port], m.answer)]
      BY <1>4 DEF ReceiveSpecial
    <2> QED
      BY <1>1, <1>2, <1>4, <2>1, EndPreserves
  <1> QED
    BY <1>3, <1>4

\* A packet that reaches the client belongs to the one session it can come from.
LEMMA ArrivedPacket ==
  ASSUME IndInv, NEW m \in net, m.kind \in {"first", "continuation"}
  PROVE  /\ m.port \in Ports /\ m.seq \in Seqs /\ m.data \in Data /\ Built(m.port) # {}
         /\ Size(m.data) \in 0 .. EffectiveChunk
         /\ \A d \in Docs, base \in Seqs : Built(m.port) = {<<d, base>>} =>
               /\ base \in FirstSeqs(d)
               /\ \E i \in 0 .. EofIndex(d) :
                     /\ m.seq = base + i /\ m.data = DataOf(d, i)
                     /\ m.kind = "first" <=> i = 0
  <1> USE DEF IndInv
  <1>1. m.port \in Ports /\ m.seq \in Seqs /\ m.data \in Data
    BY MessageTypes DEF TypeOK, PacketMsgs
  <1>2. PICK x \in Built(m.port) : \E i \in 0 .. EofIndex(x[1]) :
            m = Packet(m.port, x[1], x[2], i)
    BY DEF PacketsSourced
  <1>3. PICK i \in 0 .. EofIndex(x[1]) : m = Packet(m.port, x[1], x[2], i)
    BY <1>2
  <1>4. /\ m.seq = x[2] + i /\ m.data = DataOf(x[1], i)
        /\ m.kind = "first" <=> i = 0
    BY <1>3 DEF Packet
  <1>5. x[1] \in Docs /\ x[2] \in FirstSeqs(x[1])
    BY <1>1, BuiltPair
  <1>6. Size(m.data) \in 0 .. EffectiveChunk
    <2>1. i \in Nat
      BY <1>5, EofIndexType
    <2> QED
      BY <2>1, <1>4, <1>5, DataOfType
  <1>7. ASSUME NEW d \in Docs, NEW base \in Seqs, Built(m.port) = {<<d, base>>}
        PROVE  x[1] = d /\ x[2] = base
    BY <1>2, <1>7
  <1> QED
    BY <1>1, <1>2, <1>4, <1>5, <1>6, <1>7

\* The first packet anchors the reassembly, or is acknowledged once more.
LEMMA ReceiveFirstPreserves ==
  ASSUME IndInv, NEW m \in net, ReceiveFirst(m), UNCHANGED serverVars
  PROVE  IndInv'
  <1> USE DEF IndInv
  <1> DEFINE q == m.port
             c == client[q]
             b == [c EXCEPT !.first = m.seq, !.end = m.seq, !.buffered = Size(m.data),
                            !.chunks[m.seq] = m.data]
             r == Checked(b)
  <1>1. /\ q \in Ports /\ m.seq \in Seqs /\ m.data \in Data /\ Built(q) # {}
        /\ m.kind = "first" /\ Size(m.data) \in Nat /\ m.seq # NoSeq /\ m.data # NoData
    <2>1. Size(m.data) \in Nat
      BY ArrivedPacket, ChunkPositive DEF ReceiveFirst
    <2> QED
      BY <2>1, ArrivedPacket, WireAssumption, ClientAssumption DEF ReceiveFirst, Seqs, NoSeq
  <1>2. /\ net' \subseteq net \cup {Ack(q, m.seq)} /\ c.phase = "waiting"
        /\ UNCHANGED <<sessions, sendErrors, answered>>
    BY DEF ReceiveFirst, Received, serverVars
  <1>3. c \in Client /\ c.result = "pending"
    BY <1>1, <1>2 DEF TypeOK, ClientPhases
  <1>4. ASSUME NEW d \in Docs, NEW base \in Seqs, Built(q) = {<<d, base>>}
        PROVE  /\ base \in FirstSeqs(d) /\ m.seq = base /\ m.data = DataOf(d, 0)
               /\ EofIndex(d) \in Nat /\ EofIndex(d) >= 1
               /\ base \in Nat /\ base + EofIndex(d) \in Seqs
    <2>1. PICK i \in 0 .. EofIndex(d) : m.seq = base + i /\ m.data = DataOf(d, i) /\ i = 0
      BY <1>1, <1>4, ArrivedPacket
    <2>2. base \in FirstSeqs(d)
      BY <1>1, <1>4, ArrivedPacket
    <2>3. EofIndex(d) \in Nat /\ EofIndex(d) >= 1 /\ EofIndex(d) \in 0 .. EofIndex(d)
      BY EofIndexType
    <2>4. base + EofIndex(d) \in Seqs
      BY <1>1, <2>2, <2>3, PacketType
    <2> QED
      BY <2>1, <2>2, <2>3, <2>4, WireAssumption DEF Seqs
  <1>5. CASE ~ Started(c)
    <2>1. client' = [client EXCEPT ![q] = r]
      BY <1>5 DEF ReceiveFirst
    <2>2. /\ b \in Client /\ b.phase = "waiting" /\ b.result = "pending"
          /\ b.first = m.seq /\ b.end = m.seq /\ b.eof = c.eof
          /\ b.chunks = [c.chunks EXCEPT ![m.seq] = m.data]
      BY <1>1, <1>2, <1>3 DEF Client
    <2>3. c.chunks = [s \in Seqs |-> NoData] /\ c.eof = NoSeq
      BY <1>1, <1>5 DEF ClientPhases
    <2> HIDE DEF b
    <2>4. /\ r \in Client
          /\ r.first = m.seq /\ r.end = m.seq /\ r.eof = NoSeq
          /\ r.chunks = [c.chunks EXCEPT ![m.seq] = m.data]
          /\ r.result \in {"success", "too large", "pending"}
          /\ r.result = "success" <=> (Started(b) /\ Complete(b))
          /\ r.phase = "ended" <=> r.result # "pending"
          /\ r.phase # "idle"
      BY <2>2, <2>3, CheckedParts
    <2>5. Started(r) /\ r.end # NoSeq /\ r.result \notin Specials
      BY <1>1, <2>4, ClientAssumption DEF Started, Failures
    <2> HIDE DEF r
    <2>6. ASSUME NEW d \in Docs, NEW base \in Seqs, Built(q) = {<<d, base>>}
          PROVE  /\ ReassemblySound(r, d, base)
                 /\ \A s \in Seqs : Got(client[q], s) => Got(r, s)
                 /\ Got(r, m.seq)
      <3>0. /\ m.seq = base /\ m.data = DataOf(d, 0) /\ base \in Nat
            /\ EofIndex(d) \in Nat /\ EofIndex(d) >= 1
        BY <1>4, <2>6
      <3>a. r.chunks = [s \in Seqs |-> IF s = base THEN DataOf(d, 0) ELSE NoData]
        BY <2>3, <2>4, <3>0
      <3>b. r.first = base /\ r.end = base /\ r.eof = NoSeq
        BY <2>4, <3>0
      <3>c. DataOf(d, 0) # NoData
        BY <1>1, <3>0
      <3>1. ~ Complete(b) /\ ~ Complete(r)
        BY <2>2, <2>3, <3>0, <3>b DEF Complete, NoSeq
      <3>2. ~ HasChunk(r, r.end + 1)
        BY <3>0, <3>a, <3>b DEF HasChunk
      <3>3. ASSUME NEW s \in Seqs, r.chunks[s] # NoData
            PROVE  s \in base .. base + EofIndex(d) - 1 /\ r.chunks[s] = DataOf(d, s - base)
        <4>1. s = base /\ r.chunks[s] = DataOf(d, 0)
          BY <3>3, <3>a
        <4> QED
          BY <4>1, <3>0
      <3>4. \A s \in base .. r.end : r.chunks[s] # NoData
        BY <3>0, <3>a, <3>b, <3>c
      <3>5. ReassemblySound(r, d, base)
        <4>1. r.end \in base .. base + EofIndex(d) - 1
          BY <3>0, <3>b
        <4>2. ~ (r.result = "success")
          BY <2>4, <3>1
        <4> QED
          BY <4>1, <4>2, <3>b, <3>1, <3>2, <3>3, <3>4 DEF ReassemblySound
      <3>6. Got(r, m.seq)
        BY <1>1, <2>5, <3>0, <3>a, <3>c DEF Got, HasChunk
      <3> QED
        BY <1>5, <3>5, <3>6 DEF Got
    <2> QED
      BY <1>1, <1>2, <2>1, <2>4, <2>5, <2>6, ClientUpdate
  <1>6. CASE Started(c)
    <2>1. UNCHANGED client
      BY <1>6 DEF ReceiveFirst
    <2>2. Ack(q, m.seq) \in Datagrams /\ Ack(q, m.seq).port = q /\ Ack(q, m.seq).seq = m.seq
          /\ Ack(q, m.seq).kind = "ack"
      BY <1>1 DEF Ack, Datagrams, AckMsgs
    <2>3. ASSUME NEW d \in Docs, NEW base \in Seqs, Built(q) = {<<d, base>>}
          PROVE  Got(c, m.seq)
      <3>1. ReassemblySound(c, d, base) /\ m.seq = base /\ base \in base .. c.end
        <4>1. ReassemblySound(c, d, base)
          BY <1>1, <1>6, <2>3 DEF ClientsSound
        <4> QED
          BY <4>1, <1>4, <2>3 DEF ReassemblySound
      <3> QED
        BY <1>6, <3>1 DEF ReassemblySound, Got, HasChunk
    <2> DEFINE new == {Ack(q, m.seq)}
    <2>4. /\ new \in SUBSET Datagrams /\ net' \subseteq net \cup new
          /\ \A y \in new :
                /\ y.kind = "ack"
                /\ Started(client[y.port])
                /\ \A d \in Docs, base \in Seqs :
                      Built(y.port) = {<<d, base>>} => Got(client[y.port], y.seq)
      BY <1>2, <1>6, <2>2, <2>3
    <2>5. answered' \in [Ports -> SUBSET ((Docs \cup Specials) \X (Seqs \cup {NoSeq}))]
          /\ \A p \in Ports : Built(p)' = Built(p)
      BY <1>2 DEF TypeOK, Built
    <2> HIDE DEF new
    <2> QED
      BY <1>2, <2>1, <2>4, <2>5, NetGrows
  <1> QED
    BY <1>5, <1>6

\* An anchored continuation, for the two steps that take one in.
LEMMA AnchoredContinuation ==
  ASSUME IndInv, NEW m \in net, m.kind = "continuation",
         client[m.port].phase = "waiting", Started(client[m.port]),
         NEW d \in Docs, NEW base \in Seqs, Built(m.port) = {<<d, base>>}
  PROVE  /\ ReassemblySound(client[m.port], d, base) /\ ~ Complete(client[m.port])
         /\ base \in Nat /\ EofIndex(d) \in Nat /\ base + EofIndex(d) + 1 \in Seqs
         /\ m.seq - base \in 1 .. EofIndex(d) /\ m.data = DataOf(d, m.seq - base)
         /\ IsEmpty(m.data) <=> m.seq = base + EofIndex(d)
  <1>1. m.port \in Ports /\ ReassemblySound(client[m.port], d, base)
    BY ArrivedPacket DEF IndInv, ClientsSound
  <1>2. client[m.port].result = "pending"
    BY <1>1 DEF IndInv, ClientPhases
  <1>3. base \in FirstSeqs(d)
    BY ArrivedPacket
  <1>4. PICK i \in 0 .. EofIndex(d) : m.seq = base + i /\ m.data = DataOf(d, i) /\ i # 0
    BY ArrivedPacket
  <1>5. EofIndex(d) \in Nat
    BY EofIndexType
  <1>6. base \in Nat /\ base + EofIndex(d) + 1 \in Seqs
    BY <1>1, <1>3, <1>4, PacketType, WireAssumption DEF Seqs
  <1>7. i \in 1 .. EofIndex(d) /\ m.seq - base = i
    BY <1>4, <1>5, <1>6
  <1>8. IsEmpty(m.data) <=> i = EofIndex(d)
    BY <1>4, <1>7, OnlyEofIsEmpty
  <1> QED
    BY <1>1, <1>2, <1>4, <1>5, <1>6, <1>7, <1>8 DEF ReassemblySound

\* The end-of-file packet is recorded, and completes the response when all else is there.
LEMMA ReceiveEofPreserves ==
  ASSUME IndInv, NEW m \in net, ReceiveEof(m), UNCHANGED serverVars
  PROVE  IndInv'
  <1> USE DEF IndInv
  <1> DEFINE q == m.port
             c == client[q]
             b == [c EXCEPT !.eof = m.seq]
             r == Checked(b)
  <1>1. /\ q \in Ports /\ m.seq \in Seqs /\ Built(q) # {} /\ m.seq # NoSeq
        /\ m.kind = "continuation"
    BY ArrivedPacket, WireAssumption DEF ReceiveEof, Seqs, NoSeq
  <1>2. /\ net' \subseteq net \cup {Ack(q, m.seq)} /\ c.phase = "waiting"
        /\ Started(c) /\ IsEmpty(m.data) /\ client' = [client EXCEPT ![q] = r]
        /\ UNCHANGED <<sessions, sendErrors, answered>>
    BY DEF ReceiveEof, Received, serverVars
  <1>3. c \in Client /\ c.result = "pending" /\ c.end # NoSeq
    BY <1>1, <1>2 DEF TypeOK, ClientPhases
  <1>4. /\ b \in Client /\ b.phase = "waiting" /\ b.result = "pending"
        /\ b.first = c.first /\ b.end = c.end /\ b.eof = m.seq /\ b.chunks = c.chunks
    BY <1>1, <1>2, <1>3 DEF Client
  <1> HIDE DEF b
  <1>5. /\ r \in Client
        /\ r.first = c.first /\ r.end = c.end /\ r.eof = m.seq /\ r.chunks = c.chunks
        /\ r.result \in {"success", "too large", "pending"}
        /\ r.result = "success" <=> (Started(b) /\ Complete(b))
        /\ r.phase = "ended" <=> r.result # "pending"
        /\ r.phase # "idle"
    BY <1>4, CheckedParts
  <1>6. /\ Started(r) /\ Started(b) /\ r.end # NoSeq /\ r.result \notin Specials
        /\ Complete(b) <=> Complete(r)
    BY <1>2, <1>3, <1>4, <1>5, ClientAssumption DEF Started, Failures, Complete
  <1> HIDE DEF r
  <1>7. ASSUME NEW d \in Docs, NEW base \in Seqs, Built(q) = {<<d, base>>}
        PROVE  /\ ReassemblySound(r, d, base)
               /\ \A s \in Seqs : Got(client[q], s) => Got(r, s)
               /\ Got(r, m.seq)
    <2>1. /\ ReassemblySound(c, d, base)
          /\ base \in Nat /\ EofIndex(d) \in Nat /\ m.seq = base + EofIndex(d)
      BY <1>1, <1>2, <1>7, AnchoredContinuation
    <2>2. ReassemblySound(r, d, base)
      BY <2>1, <1>5, <1>6 DEF ReassemblySound, HasChunk
    <2>3. \A s \in Seqs : Got(c, s) => Got(r, s)
      <3>1. \A s \in Seqs : s # NoSeq
        BY WireAssumption DEF Seqs, NoSeq
      <3>2. c.eof \in {NoSeq, r.eof}
        BY <2>1, <1>5 DEF ReassemblySound
      <3> QED
        BY <3>1, <3>2, <1>5, <1>6 DEF Got, HasChunk
    <2>4. Got(r, m.seq)
      BY <1>5, <1>6 DEF Got
    <2> QED
      BY <2>2, <2>3, <2>4
  <1> QED
    BY <1>1, <1>2, <1>5, <1>6, <1>7, ClientUpdate

\* A chunk is inserted in its place, and contiguous_end moves over what is there.
LEMMA ReceiveDataPreserves ==
  ASSUME IndInv, NEW m \in net, ReceiveData(m), UNCHANGED serverVars
  PROVE  IndInv'
  <1> USE DEF IndInv
  <1> DEFINE q == m.port
             c == client[q]
             inserted == Insert(c, m.seq, m.data)
  <1>1. /\ q \in Ports /\ m.seq \in Seqs /\ m.data \in Data /\ Built(q) # {}
        /\ m.kind = "continuation" /\ Size(m.data) \in Nat /\ m.data # NoData
    <2>1. Size(m.data) \in Nat
      BY ArrivedPacket, ChunkPositive DEF ReceiveData
    <2> QED
      BY <2>1, ArrivedPacket, ClientAssumption DEF ReceiveData
  <1>2. /\ net' \subseteq net \cup {Ack(q, m.seq)} /\ c.phase = "waiting"
        /\ Started(c) /\ ~ IsEmpty(m.data)
        /\ UNCHANGED <<sessions, sendErrors, answered>>
    BY DEF ReceiveData, Received, serverVars
  <1>3. PICK e \in c.end .. MaxSeq :
            /\ ContiguousTo(inserted, e)
            /\ client' = [client EXCEPT ![q] = Checked([inserted EXCEPT !.end = e])]
    BY DEF ReceiveData
  <1> DEFINE b == [inserted EXCEPT !.end = e]
             r == Checked(b)
  <1>4. c \in Client /\ c.result = "pending" /\ c.end \in Seqs
    BY <1>1, <1>2 DEF TypeOK, ClientPhases, Client
  <1>5. e \in Seqs /\ e # NoSeq /\ e \in Nat /\ c.end \in Nat /\ c.end <= e
    BY <1>3, <1>4, WireAssumption DEF Seqs, NoSeq
  <1>6. /\ inserted \in Client /\ inserted.phase = "waiting" /\ inserted.result = "pending"
        /\ inserted.first = c.first /\ inserted.eof = c.eof /\ inserted.end = c.end
        /\ inserted.chunks = [c.chunks EXCEPT ![m.seq] = IF HasChunk(c, m.seq) THEN @ ELSE m.data]
    <2> DEFINE f == [c.chunks EXCEPT ![m.seq] = IF HasChunk(c, m.seq) THEN @ ELSE m.data]
               n == c.buffered + Size(m.data)
    <2>1. f \in [Seqs -> Data \cup {NoData}] /\ n \in Nat
      BY <1>1, <1>4 DEF Client
    <2>2. inserted = [c EXCEPT !.buffered = n, !.chunks = f]
      BY DEF Insert
    <2> HIDE DEF f, n, inserted
    <2>3. /\ inserted \in Client /\ inserted.phase = "waiting" /\ inserted.result = "pending"
          /\ inserted.first = c.first /\ inserted.eof = c.eof /\ inserted.end = c.end
          /\ inserted.chunks = f
      BY <1>2, <1>4, <2>1, <2>2 DEF Client
    <2> QED
      BY <2>3 DEF f
  <1>7. /\ b \in Client /\ b.phase = "waiting" /\ b.result = "pending"
        /\ b.first = c.first /\ b.end = e /\ b.eof = c.eof /\ b.chunks = inserted.chunks
    <2> HIDE DEF inserted
    <2> QED
      BY <1>5, <1>6 DEF Client
  <1>8. client' = [client EXCEPT ![q] = r]
    BY <1>3
  <1>9. \A s \in Seqs :
            inserted.chunks[s] = IF s = m.seq /\ c.chunks[s] = NoData THEN m.data ELSE c.chunks[s]
    BY <1>1, <1>4, <1>6 DEF Client, HasChunk
  <1>10. /\ \A s \in c.end + 1 .. e : HasChunk(inserted, s)
         /\ ~ HasChunk(inserted, e + 1)
    BY <1>3, <1>6 DEF ContiguousTo
  <1> HIDE DEF b, inserted
  <1>11. /\ r \in Client
         /\ r.first = c.first /\ r.end = e /\ r.eof = c.eof /\ r.chunks = inserted.chunks
         /\ r.result \in {"success", "too large", "pending"}
         /\ r.result = "success" <=> (Started(b) /\ Complete(b))
         /\ r.phase = "ended" <=> r.result # "pending"
         /\ r.phase # "idle"
    BY <1>7, CheckedParts
  <1>12. /\ Started(r) /\ Started(b) /\ r.end # NoSeq /\ r.result \notin Specials
         /\ Complete(b) <=> Complete(r)
    BY <1>2, <1>5, <1>7, <1>11, ClientAssumption DEF Started, Failures, Complete
  <1> HIDE DEF r
  <1>13. ASSUME NEW d \in Docs, NEW base \in Seqs, Built(q) = {<<d, base>>}
         PROVE  /\ ReassemblySound(r, d, base)
                /\ \A s \in Seqs : Got(client[q], s) => Got(r, s)
                /\ Got(r, m.seq)
    <2>1. /\ ReassemblySound(c, d, base)
          /\ base \in Nat /\ EofIndex(d) \in Nat
          /\ m.seq - base \in 1 .. EofIndex(d) /\ m.data = DataOf(d, m.seq - base)
          /\ m.seq # base + EofIndex(d)
      BY <1>1, <1>2, <1>13, AnchoredContinuation
    <2>2. m.seq \in base .. base + EofIndex(d) - 1
      BY <1>1, <2>1, WireAssumption DEF Seqs
    <2>3. ASSUME NEW s \in Seqs, inserted.chunks[s] # NoData
          PROVE  /\ s \in base .. base + EofIndex(d) - 1
                 /\ inserted.chunks[s] = DataOf(d, s - base)
      <3>1. CASE c.chunks[s] # NoData
        BY <3>1, <2>1, <1>9 DEF ReassemblySound
      <3>2. CASE c.chunks[s] = NoData
        BY <3>2, <2>1, <2>2, <2>3, <1>9
      <3> QED
        BY <3>1, <3>2
    <2>4. e \in base .. base + EofIndex(d) - 1
      <3>1. c.end \in base .. base + EofIndex(d) - 1
        BY <2>1 DEF ReassemblySound
      <3>2. CASE e = c.end
        BY <3>1, <3>2
      <3>3. CASE e > c.end
        <4>1. HasChunk(inserted, e)
          BY <3>3, <1>5, <1>10
        <4> QED
          BY <4>1, <2>3 DEF HasChunk
      <3> QED
        BY <3>2, <3>3, <1>5
    <2>5. ASSUME NEW s \in base .. e PROVE r.chunks[s] # NoData
      <3>1. CASE s <= c.end
        <4>1. s \in base .. c.end /\ s \in Seqs
          BY <3>1, <1>4, <1>5, <2>1, <2>5, WireAssumption DEF Seqs
        <4>2. c.chunks[s] # NoData
          BY <4>1, <2>1 DEF ReassemblySound
        <4> QED
          BY <4>1, <4>2, <1>9, <1>11
      <3>2. CASE s > c.end
        <4>1. s \in c.end + 1 .. e
          BY <3>2, <1>5, <2>1
        <4> QED
          BY <4>1, <1>10, <1>11 DEF HasChunk
      <3> QED
        BY <3>1, <3>2, <1>5, <2>1
    <2>6. ReassemblySound(r, d, base)
      <3>1. r.first = base /\ r.eof \in {NoSeq, base + EofIndex(d)}
        BY <2>1, <1>11 DEF ReassemblySound
      <3>2. ~ HasChunk(r, r.end + 1)
        BY <1>10, <1>11 DEF HasChunk
      <3> QED
        BY <3>1, <3>2, <2>3, <2>4, <2>5, <1>11, <1>12 DEF ReassemblySound
    <2>7. \A s \in Seqs : Got(c, s) => Got(r, s)
      BY <1>9, <1>11, <1>12, <1>1 DEF Got, HasChunk
    <2>8. Got(r, m.seq)
      BY <1>1, <1>9, <1>11, <1>12 DEF Got, HasChunk
    <2> QED
      BY <2>6, <2>7, <2>8
  <1> QED
    BY <1>1, <1>2, <1>8, <1>11, <1>12, <1>13, ClientUpdate

----------------------------------------------------------------------------
(* The invariant is inductive, and it implies what the runs check.         *)

\* Every step of the server, of a client and of the network keeps the invariant.
LEMMA NextPreserves == IndInv /\ [Next]_vars => IndInv'
  <1> SUFFICES ASSUME IndInv, [Next]_vars PROVE IndInv'
    OBVIOUS
  <1>1. CASE ServerNext /\ UNCHANGED client
    <2>1. ASSUME NEW m \in net, IgnoreRequest(m) PROVE IndInv'
      BY <1>1, <2>1, NetShrinks DEF IgnoreRequest, Received, serverVars
    <2> QED
      BY <1>1, <2>1, ReceiveAckPreserves, AnswerSuccessPreserves, AnswerSpecialPreserves,
         TickPreserves DEF ServerNext
  <1>2. CASE ClientNext /\ UNCHANGED serverVars
    <2>1. ASSUME NEW m \in net, IgnoreContinuation(m) PROVE IndInv'
      BY <1>2, <2>1, NetShrinks DEF IgnoreContinuation, Received, serverVars
    <2> QED
      BY <1>2, <2>1, FetchPreserves, StallPreserves, GiveUpPreserves, ReceiveSpecialPreserves,
         ReceiveFirstPreserves, ReceiveEofPreserves, ReceiveDataPreserves DEF ClientNext
  <1>3. CASE \E m \in net : Lose(m) /\ UNCHANGED <<serverVars, client>>
    BY <1>3, NetShrinks DEF Lose, serverVars
  <1>4. CASE UNCHANGED vars
    BY <1>4, NetShrinks DEF vars
  <1> QED
    BY <1>1, <1>2, <1>3, <1>4 DEF Next

\* The invariant holds in every state of every behaviour.
THEOREM Invariance == Spec => []IndInv
  BY InitEstablishes, NextPreserves, PTL DEF Spec

\* Datagrams, sessions and reassemblies are well formed: no sequence number that
\* random_seq and build_session produce leaves the range of the protocol.
THEOREM TypeCorrect == Spec => []TypeOK
  <1>1. IndInv => TypeOK
    BY DEF IndInv
  <1> QED
    BY <1>1, Invariance, PTL

\* At most Window packets are unacknowledged, all of them sent (open_window).
THEOREM WindowIsRespected == Spec => []WindowRespected
  <1>1. IndInv => WindowRespected
    BY DEF IndInv, SessionsSound, SessionSound, WindowRespected
  <1> QED
    BY <1>1, Invariance, PTL

\* A success is the served body, byte for byte (transact, into_response).
THEOREM BodyIsExact == Spec => []BodyExact
  <1>1. ASSUME IndInv PROVE BodyExact
    <2> SUFFICES ASSUME NEW p \in Ports, NEW d \in Docs, NEW base \in Seqs,
                        Built(p) = {<<d, base>>}, client[p].result = "success",
                        NEW s \in Seqs
                 PROVE  client[p].chunks[s] = IF s \in base .. base + EofIndex(d) - 1
                                              THEN DataOf(d, s - base) ELSE NoData
      BY DEF BodyExact, HoldsWhole
    <2> DEFINE c == client[p]
    <2>1. Started(c)
      BY <1>1 DEF IndInv, ClientPhases
    <2>2. ReassemblySound(c, d, base) /\ Complete(c)
      BY <1>1, <2>1 DEF IndInv, ClientsSound, ReassemblySound
    <2>3. base \in Nat /\ EofIndex(d) \in Nat /\ c.end \in Nat
      BY <2>2, EofIndexType, WireAssumption DEF Seqs, ReassemblySound
    <2>4. c.end = base + EofIndex(d) - 1
      BY <2>2, <2>3 DEF ReassemblySound, Complete, NoSeq
    <2> QED
      BY <2>2, <2>3, <2>4 DEF ReassemblySound
  <1> QED
    BY <1>1, Invariance, PTL

\* done_at is set only once the fetch has its whole answer (acknowledge).
THEOREM DoneIsDelivered == Spec => []DoneMeansDelivered
  <1>1. ASSUME IndInv PROVE DoneMeansDelivered
    <2> SUFFICES ASSUME NEW p \in Ports, p \in Live, sessions[p].done,
                        Built(p) = {<<sessions[p].doc, sessions[p].base>>}
                 PROVE  client[p].result = "success"
      BY DEF DoneMeansDelivered
    <2> DEFINE c == client[p]
               d == sessions[p].doc
               base == sessions[p].base
    <2>1. /\ <<d, base>> \in Built(p) /\ sessions[p].next = TotalPackets(d)
          /\ sessions[p].unacked = {}
      BY <1>1 DEF IndInv, SessionsSound, SessionSound
    <2>2. d \in Docs /\ base \in Seqs /\ base \in Nat /\ base # NoSeq
      <3> DEFINE x == <<d, base>>
      <3>1. x \in Built(p) /\ x[1] = d /\ x[2] = base
        BY <2>1
      <3> HIDE DEF x, d, base
      <3>2. d \in Docs /\ base \in Seqs
        BY <1>1, <3>1, BuiltPair DEF IndInv
      <3> QED
        BY <3>2, WireAssumption DEF Seqs, NoSeq
    <2>3. Built(p) = {<<d, base>>}
      OBVIOUS
    <2>4. EofIndex(d) \in Nat /\ TotalPackets(d) = EofIndex(d) + 1 /\ EofIndex(d) >= 1
      BY <2>2, EofIndexType
    <2>5. \A s \in base .. base + EofIndex(d) : Got(c, s)
      BY <1>1, <2>1, <2>2, <2>3, <2>4 DEF IndInv, AcksTruthful
    <2>6. Started(c) /\ ReassemblySound(c, d, base)
      BY <1>1, <2>2, <2>3, <2>4, <2>5 DEF Got, IndInv, ClientsSound
    <2>7. c.eof = base + EofIndex(d)
      <3>1. Got(c, base + EofIndex(d)) /\ ~ HasChunk(c, base + EofIndex(d))
        BY <2>2, <2>4, <2>5, <2>6 DEF ReassemblySound, HasChunk
      <3> QED
        BY <3>1 DEF Got
    <2>8. c.end = base + EofIndex(d) - 1
      <3>1. c.end \in base .. base + EofIndex(d) - 1 /\ ~ HasChunk(c, c.end + 1)
        BY <2>6 DEF ReassemblySound
      <3>2. CASE c.end + 1 <= base + EofIndex(d) - 1
        <4>1. Got(c, c.end + 1)
          BY <3>1, <3>2, <2>2, <2>4, <2>5
        <4> QED
          BY <4>1, <3>1, <3>2, <2>2, <2>4, <2>7 DEF Got
      <3> QED
        BY <3>1, <3>2, <2>2, <2>4
    <2> QED
      BY <2>2, <2>4, <2>6, <2>7, <2>8 DEF ReassemblySound, Complete
  <1> QED
    BY <1>1, Invariance, PTL

\* A session never restarts, goes back or leaves done: retransmission and late or
\* repeated datagrams only move it forward (acknowledge, the Request arm of serve).
THEOREM SessionsAreStable == Spec => SessionStable
  <1> DEFINE Stable(p) ==
               (sessions[p] # NoSession /\ sessions'[p] # NoSession) =>
                  /\ sessions'[p].doc = sessions[p].doc
                  /\ sessions'[p].base = sessions[p].base
                  /\ sessions'[p].next >= sessions[p].next
                  /\ sessions[p].done => sessions'[p] = sessions[p]
  <1>1. ASSUME IndInv, [Next]_vars, NEW p \in Ports PROVE Stable(p)
    <2>1. /\ sessions \in [Ports -> Session \cup {NoSession}]
          /\ sessions[p] # NoSession => sessions[p] \in Session /\ SessionSound(p)
      BY <1>1 DEF IndInv, TypeOK, SessionsSound, Live
    <2>2. CASE sessions'[p] = sessions[p]
      BY <2>1, <2>2 DEF Session
    <2>3. ASSUME NEW m \in net, ReceiveAck(m), m.port = p, sessions[p] # NoSession
          PROVE  Stable(p)
      <3> DEFINE s0 == sessions[p]
                 s == [s0 EXCEPT !.unacked = @ \ {m.seq}]
      <3>1. \/ /\ s.next = TotalPackets(s.doc) /\ s.unacked = {}
               /\ sessions' = [sessions EXCEPT ![p] = [s EXCEPT !.done = TRUE]]
            \/ /\ ~ (s.next = TotalPackets(s.doc) /\ s.unacked = {})
               /\ \E n \in 0 .. WindowRoom(s) : sessions' = [sessions EXCEPT ![p] = OpenWindow(s, n)]
        BY <2>3 DEF ReceiveAck
      <3>2. s0 \in Session /\ SessionSound(p)
        BY <2>1, <2>3
      <3>3. /\ s.doc = s0.doc /\ s.base = s0.base /\ s.next = s0.next
            /\ s.unacked = s0.unacked \ {m.seq} /\ s \in Session
        BY <3>2 DEF Session
      <3>4. s0.done => s = s0 /\ s.next = TotalPackets(s.doc) /\ s.unacked = {}
        <4> SUFFICES ASSUME s0.done PROVE s = s0 /\ s0.next = TotalPackets(s0.doc) /\ s.unacked = {}
          BY <3>3
        <4>1. s0.next = TotalPackets(s0.doc) /\ s0.unacked = {}
          BY <3>2 DEF SessionSound
        <4>2. s0.unacked \ {m.seq} = s0.unacked
          BY <4>1
        <4> QED
          BY <3>2, <4>1, <4>2 DEF Session
      <3>5. CASE sessions' = [sessions EXCEPT ![p] = [s EXCEPT !.done = TRUE]]
        <4>1. sessions'[p] = [s EXCEPT !.done = TRUE]
          BY <2>1, <3>5
        <4>2. s0.done => [s EXCEPT !.done = TRUE] = s0
          BY <3>2, <3>4 DEF Session
        <4> HIDE DEF s
        <4> QED
          BY <3>2, <3>3, <4>1, <4>2 DEF Session
      <3>6. ASSUME NEW n \in 0 .. WindowRoom(s), ~ s0.done,
                   sessions' = [sessions EXCEPT ![p] = OpenWindow(s, n)]
            PROVE  Stable(p)
        <4>1. sessions'[p] = OpenWindow(s, n) /\ n >= 0 /\ n \in Int
          BY <2>1, <3>6
        <4> HIDE DEF s
        <4>2. /\ OpenWindow(s, n).doc = s.doc /\ OpenWindow(s, n).base = s.base
              /\ OpenWindow(s, n).next = s.next + n
          BY <3>3 DEF OpenWindow, Session
        <4>3. s.next \in Nat
          BY <3>3 DEF Session
        <4> QED
          BY <3>3, <3>6, <4>1, <4>2, <4>3
      <3> HIDE DEF s
      <3> QED
        BY <3>1, <3>4, <3>5, <3>6
    <2>4. ASSUME NEW m \in net,
                 ReceiveAck(m) \/ IgnoreRequest(m) \/ AnswerSuccess(m) \/ AnswerSpecial(m),
                 ~ (ReceiveAck(m) /\ m.port = p /\ sessions[p] # NoSession)
          PROVE  sessions'[p] = sessions[p] \/ sessions[p] = NoSession
      <3>1. CASE ReceiveAck(m)
        BY <2>1, <2>4, <3>1 DEF ReceiveAck
      <3>2. CASE AnswerSuccess(m)
        BY <2>1, <3>2 DEF AnswerSuccess, Admits, Live
      <3> QED
        BY <2>4, <3>1, <3>2 DEF IgnoreRequest, AnswerSpecial, serverVars
    <2>5. ASSUME NEW dropped, NEW due, Tick(dropped, due)
          PROVE  sessions'[p] = sessions[p] \/ sessions'[p] = NoSession
      BY <2>5 DEF Tick
    <2>6. CASE ServerNext
      BY <2>2, <2>3, <2>4, <2>5, <2>6 DEF ServerNext
    <2>7. CASE ~ ServerNext
      BY <1>1, <2>2, <2>7 DEF Next, vars, serverVars
    <2> QED
      BY <2>6, <2>7
  <1>2. IndInv /\ [Next]_vars => [\A p \in Ports : Stable(p)]_vars
    BY <1>1
  <1> QED
    BY <1>2, Invariance, PTL DEF Spec, SessionStable
----------------------------------------------------------------------------
(* The session table and the reassembly buffer are bounded.                *)

\* What SessionCap needs to be inductive: the table is finite.
TableBounded == IsFiniteSet(Live) /\ Cardinality(Live) <= MaxSessions

\* The only step that adds a peer to the table is an admitted request, one at a time.
LEMMA LiveGrowsByAdmission ==
  ASSUME TypeOK, [Next]_vars
  PROVE  \/ Live' \subseteq Live
         \/ /\ Cardinality(Live) < MaxSessions
            /\ \E q \in Ports : Live' \subseteq Live \cup {q}
  <1> DEFINE Q == \/ Live' \subseteq Live
                  \/ /\ Cardinality(Live) < MaxSessions
                     /\ \E q \in Ports : Live' \subseteq Live \cup {q}
  <1>0. \A m \in net : m.port \in Ports
    BY MessageTypes DEF TypeOK
  <1>1. ASSUME NEW m \in net, NEW t, sessions' = [sessions EXCEPT ![m.port] = t]
        PROVE  Live' \subseteq Live \cup {m.port}
    BY <1>1 DEF Live, TypeOK
  <1>2. ASSUME NEW m \in net, ReceiveAck(m) PROVE Q
    <2>1. CASE sessions[m.port] = NoSession
      BY <1>2, <2>1 DEF ReceiveAck, Live
    <2>2. CASE sessions[m.port] # NoSession
      <3>1. \E t : sessions' = [sessions EXCEPT ![m.port] = t]
        BY <1>2, <2>2 DEF ReceiveAck
      <3>2. m.port \in Live
        BY <1>0, <2>2 DEF Live
      <3> QED
        BY <1>1, <3>1, <3>2
    <2> QED
      BY <2>1, <2>2
  <1>3. ASSUME NEW m \in net, AnswerSuccess(m) PROVE Q
    <2>1. \E t : sessions' = [sessions EXCEPT ![m.port] = t]
      BY <1>3 DEF AnswerSuccess
    <2> QED
      BY <1>0, <1>1, <1>3, <2>1 DEF AnswerSuccess, Admits
  <1>4. ASSUME NEW dropped, NEW due, Tick(dropped, due) PROVE Q
    BY <1>4 DEF Tick, Live
  <1>5. CASE UNCHANGED sessions
    BY <1>5 DEF Live
  <1>6. CASE ServerNext
    BY <1>2, <1>3, <1>4, <1>5, <1>6 DEF ServerNext, IgnoreRequest, AnswerSpecial, serverVars
  <1>7. CASE ~ ServerNext
    BY <1>5, <1>7 DEF Next, vars, serverVars
  <1> QED
    BY <1>6, <1>7

\* The session table never holds more than max_sessions peers (the cap of the Request
\* arm of serve), whatever is acknowledged, expires or asks at the same time.
THEOREM TableIsCapped == Spec => []SessionCap
  <1>1. Init => TableBounded
    <2> SUFFICES ASSUME Init PROVE TableBounded
      OBVIOUS
    <2>1. Live = {}
      BY DEF Init, ServerInit, Live
    <2> QED
      BY <2>1, FS_EmptySet, ServerAssumption DEF TableBounded
  <1>2. ASSUME IndInv, TableBounded, [Next]_vars PROVE TableBounded'
    <2> DEFINE before == Live
               after == Live'
    <2>0. IsFiniteSet(before) /\ Cardinality(before) \in Nat /\ Cardinality(before) <= MaxSessions
      BY <1>2, FS_CardinalityType DEF TableBounded
    <2>1. \/ after \subseteq before
          \/ /\ Cardinality(before) < MaxSessions
             /\ \E q \in Ports : after \subseteq before \cup {q}
      BY <1>2, LiveGrowsByAdmission DEF IndInv
    <2>2. SUFFICES IsFiniteSet(after) /\ Cardinality(after) <= MaxSessions
      BY DEF TableBounded
    <2> HIDE DEF before, after
    <2>3. CASE after \subseteq before
      <3>1. IsFiniteSet(after) /\ Cardinality(after) <= Cardinality(before)
        BY <2>0, <2>3, FS_Subset
      <3> QED
        BY <3>1, <2>0, FS_CardinalityType, ServerAssumption
    <2>4. ASSUME NEW q \in Ports, after \subseteq before \cup {q},
                 Cardinality(before) < MaxSessions
          PROVE  IsFiniteSet(after) /\ Cardinality(after) <= MaxSessions
      <3>1. /\ IsFiniteSet(before \cup {q})
            /\ Cardinality(before \cup {q}) \in {Cardinality(before), Cardinality(before) + 1}
        BY <2>0, FS_AddElement
      <3>2. IsFiniteSet(after) /\ Cardinality(after) <= Cardinality(before \cup {q})
        BY <2>4, <3>1, FS_Subset
      <3>3. Cardinality(after) \in Nat
        BY <3>2, FS_CardinalityType
      <3> QED
        BY <2>0, <2>4, <3>1, <3>2, <3>3, ServerAssumption
    <2> QED
      BY <2>1, <2>3, <2>4
  <1>3. TableBounded => SessionCap
    BY DEF TableBounded, SessionCap
  <1> QED
    BY <1>1, <1>2, <1>3, Invariance, PTL DEF Spec

\* What BufferBounded needs to be inductive: a fetch that still waits has not passed the
\* limit, because transact checks it before it receives again.
BufferChecked ==
    \A p \in Ports :
        /\ client[p].phase # "ended" => client[p].buffered <= MaxBody
        /\ client[p].buffered <= MaxBody + EffectiveChunk

\* The head of transact's loop: a reassembly that goes on is within the limit.
LEMMA CheckedLimits ==
  ASSUME NEW c \in Client, c.phase = "waiting", Started(c)
  PROVE  /\ Checked(c).buffered = c.buffered
         /\ Checked(c).phase # "ended" => c.buffered <= MaxBody
  BY ClientAssumption DEF Checked, End, Client

\* A packet that is not ignored gives its reassembly one chunk at most, and the head of
\* the loop looks at the result.
LEMMA PacketIsChecked ==
  ASSUME IndInv, NEW m \in net, ReceiveFirst(m) \/ ReceiveEof(m) \/ ReceiveData(m)
  PROVE  /\ m.port \in Ports /\ client[m.port].phase = "waiting"
         /\ \/ client' = client
            \/ \E b \in Client, k \in 0 .. EffectiveChunk :
                  /\ b.phase = "waiting" /\ b.result = "pending" /\ Started(b)
                  /\ b.buffered \in {k, client[m.port].buffered + k}
                  /\ client' = [client EXCEPT ![m.port] = Checked(b)]
  <1> DEFINE q == m.port
             c == client[q]
             Q(b) == \E k \in 0 .. EffectiveChunk :
                        /\ b.phase = "waiting" /\ b.result = "pending" /\ Started(b)
                        /\ b.buffered \in {k, c.buffered + k}
                        /\ client' = [client EXCEPT ![q] = Checked(b)]
  <1>1. /\ q \in Ports /\ m.seq \in Seqs /\ m.data \in Data /\ m.seq # NoSeq
        /\ Size(m.data) \in 0 .. EffectiveChunk /\ Size(m.data) \in Nat
    <2>1. m.kind \in {"first", "continuation"}
      BY DEF ReceiveFirst, ReceiveEof, ReceiveData
    <2> QED
      BY <2>1, ArrivedPacket, ChunkPositive, WireAssumption DEF Seqs, NoSeq
  <1>2. c.phase = "waiting"
    BY DEF ReceiveFirst, ReceiveEof, ReceiveData
  <1>3. c \in Client /\ c.result = "pending" /\ c.buffered \in Nat
    BY <1>1, <1>2 DEF IndInv, TypeOK, ClientPhases, Client
  <1>4. CASE ReceiveFirst(m)
    <2> DEFINE b == [c EXCEPT !.first = m.seq, !.end = m.seq, !.buffered = Size(m.data),
                              !.chunks[m.seq] = m.data]
    <2>1. client' = client \/ client' = [client EXCEPT ![q] = Checked(b)]
      BY <1>4 DEF ReceiveFirst
    <2>2. /\ b \in Client /\ b.phase = "waiting" /\ b.result = "pending"
          /\ b.first = m.seq /\ b.buffered = Size(m.data)
      BY <1>1, <1>2, <1>3 DEF Client
    <2> HIDE DEF b
    <2>3. Started(b)
      BY <1>1, <2>2 DEF Started
    <2> QED
      BY <1>1, <1>2, <2>1, <2>2, <2>3
  <1>5. CASE ReceiveEof(m)
    <2> DEFINE b == [c EXCEPT !.eof = m.seq]
    <2>1. Started(c) /\ client' = [client EXCEPT ![q] = Checked(b)]
      BY <1>5 DEF ReceiveEof
    <2>2. /\ b \in Client /\ b.phase = "waiting" /\ b.result = "pending"
          /\ b.first = c.first /\ b.buffered = c.buffered
      BY <1>1, <1>2, <1>3 DEF Client
    <2>3. 0 \in 0 .. EffectiveChunk /\ c.buffered + 0 = c.buffered
      BY <1>3, ChunkPositive
    <2> HIDE DEF b
    <2>4. Started(b)
      BY <2>1, <2>2 DEF Started
    <2>5. Q(b)
      BY <2>1, <2>2, <2>3, <2>4
    <2> QED
      BY <1>1, <1>2, <2>2, <2>5
  <1>6. CASE ReceiveData(m)
    <2> DEFINE i == Insert(c, m.seq, m.data)
    <2>1. /\ Started(c)
          /\ \E e \in c.end .. MaxSeq : client' = [client EXCEPT ![q] = Checked([i EXCEPT !.end = e])]
      BY <1>6 DEF ReceiveData
    <2>2. PICK e \in c.end .. MaxSeq : client' = [client EXCEPT ![q] = Checked([i EXCEPT !.end = e])]
      BY <2>1
    <2>3. /\ i \in Client /\ i.phase = "waiting" /\ i.result = "pending" /\ i.first = c.first
          /\ i.buffered = c.buffered + Size(m.data)
      <3>1. c.buffered + Size(m.data) \in Nat
        BY <1>1, <1>3
      <3>2. [c.chunks EXCEPT ![m.seq] = IF HasChunk(c, m.seq) THEN @ ELSE m.data]
               \in [Seqs -> Data \cup {NoData}]
        BY <1>1, <1>3 DEF Client
      <3> QED
        BY <1>2, <1>3, <3>1, <3>2 DEF Insert, Client
    <2>4. e \in Seqs
      <3>1. c.end \in Seqs
        BY <1>1, <1>3, <2>1 DEF IndInv, ClientPhases, Client
      <3> QED
        BY <3>1, WireAssumption DEF Seqs
    <2> DEFINE b == [i EXCEPT !.end = e]
    <2> HIDE DEF i
    <2>5. /\ b \in Client /\ b.phase = "waiting" /\ b.result = "pending" /\ b.first = c.first
          /\ b.buffered = c.buffered + Size(m.data)
      BY <2>3, <2>4 DEF Client
    <2>6. client' = [client EXCEPT ![q] = Checked(b)]
      BY <2>2
    <2> HIDE DEF b
    <2>7. Started(b)
      BY <2>1, <2>5 DEF Started
    <2> QED
      BY <1>1, <1>2, <2>5, <2>6, <2>7
  <1> QED
    BY <1>4, <1>5, <1>6

\* A step changes at most one reassembly: it starts it, lets it end, or adds a packet to
\* one that waits.
LEMMA BufferGrowsByPacket ==
  ASSUME IndInv, [Next]_vars, NEW p \in Ports
  PROVE  \/ client'[p] = client[p]
         \/ client'[p].buffered = client[p].buffered /\ client[p].phase # "ended"
         \/ /\ client[p].phase # "ended"
            /\ \E k \in 0 .. EffectiveChunk : client'[p].buffered \in {k, client[p].buffered + k}
            /\ client'[p].phase # "ended" => client'[p].buffered <= MaxBody
  <1> DEFINE c == client[p]
             Grows == /\ c.phase # "ended"
                      /\ \E k \in 0 .. EffectiveChunk : client'[p].buffered \in {k, c.buffered + k}
                      /\ client'[p].phase # "ended" => client'[p].buffered <= MaxBody
             Q == \/ client'[p] = c
                  \/ client'[p].buffered = c.buffered /\ c.phase # "ended"
                  \/ Grows
  <1>0. c \in Client /\ client \in [Ports -> Client]
    BY DEF IndInv, TypeOK
  <1>1. ASSUME NEW q \in Ports, Fetch(q) \/ GiveUp(q) PROVE Q
    <2>1. CASE p # q
      BY <1>0, <1>1, <2>1 DEF Fetch, GiveUp
    <2>2. CASE p = q
      BY <1>0, <1>1, <2>2 DEF Fetch, GiveUp, End, Client
    <2> QED
      BY <2>1, <2>2
  <1>2. ASSUME NEW m \in net, ReceiveSpecial(m) PROVE Q
    <2>1. client' = client \/ client' = [client EXCEPT ![m.port] = End(@, m.answer)]
      BY <1>2 DEF ReceiveSpecial
    <2>2. CASE m.port # p
      BY <1>0, <2>1, <2>2
    <2>3. CASE m.port = p
      <3>1. c.phase # "ended" /\ (client'[p] = c \/ client'[p] = End(c, m.answer))
        BY <1>0, <1>2, <2>1, <2>3 DEF ReceiveSpecial
      <3>2. End(c, m.answer).buffered = c.buffered
        BY <1>0 DEF End, Client
      <3> QED
        BY <3>1, <3>2
    <2> QED
      BY <2>2, <2>3
  <1>3. ASSUME NEW m \in net, ReceiveFirst(m) \/ ReceiveEof(m) \/ ReceiveData(m) PROVE Q
    <2>1. client[m.port].phase = "waiting"
      BY <1>3, PacketIsChecked
    <2>2. CASE client' = client
      BY <2>2
    <2>3. ASSUME NEW b \in Client, NEW k \in 0 .. EffectiveChunk,
                 b.phase = "waiting", Started(b), b.buffered \in {k, client[m.port].buffered + k},
                 client' = [client EXCEPT ![m.port] = Checked(b)]
          PROVE  Q
      <3>1. CASE m.port # p
        BY <1>0, <2>3, <3>1
      <3>2. CASE m.port = p
        <4>1. client'[p] = Checked(b)
          BY <1>0, <2>3, <3>2
        <4>2. /\ client'[p].buffered \in {k, c.buffered + k} /\ c.phase # "ended"
              /\ client'[p].phase # "ended" => client'[p].buffered <= MaxBody
          BY <2>1, <2>3, <3>2, <4>1, CheckedLimits
        <4> QED
          BY <4>2
      <3> QED
        BY <3>1, <3>2
    <2> QED
      BY <1>3, <2>2, <2>3, PacketIsChecked
  <1>4. CASE UNCHANGED client
    BY <1>4
  <1>5. CASE ClientNext
    BY <1>1, <1>2, <1>3, <1>4, <1>5 DEF ClientNext, Stall, IgnoreContinuation
  <1>6. CASE ~ ClientNext
    BY <1>4, <1>6 DEF Next, vars
  <1> QED
    BY <1>5, <1>6

\* The reassembly buffer of a fetch outgrows max_body by at most one chunk, whatever
\* arrives twice, late, or from another session (transact, Reassembly::insert).
THEOREM BufferIsBounded == Spec => []BufferBounded
  <1>1. Init => BufferChecked
    BY ClientAssumption, ChunkPositive DEF Init, ClientInit, IdleClient, BufferChecked
  <1>2. ASSUME IndInv, BufferChecked, [Next]_vars PROVE BufferChecked'
    <2> SUFFICES ASSUME NEW p \in Ports
                 PROVE  /\ client'[p].phase # "ended" => client'[p].buffered <= MaxBody
                        /\ client'[p].buffered <= MaxBody + EffectiveChunk
      BY DEF BufferChecked
    <2>1. /\ client[p].buffered \in Nat
          /\ client[p].phase # "ended" => client[p].buffered <= MaxBody
          /\ client[p].buffered <= MaxBody + EffectiveChunk
      BY <1>2 DEF BufferChecked, IndInv, TypeOK, Client
    <2> QED
      BY <1>2, <2>1, BufferGrowsByPacket, ClientAssumption, ChunkPositive
  <1>3. BufferChecked => BufferBounded
    BY DEF BufferChecked, BufferBounded
  <1> QED
    BY <1>1, <1>2, <1>3, Invariance, PTL DEF Spec

----------------------------------------------------------------------------
(* Guppy implements GuppyFetch: with deadlines longer than a fetch, every  *)
(* step of the server, the clients and the network is a step of the        *)
(* one-answer transaction, or invisible in it.                             *)

(* What the refinement needs beside IndInv.                                *)

\* A request or a special in flight comes from the fetch and from the handler.
AnswersSourced ==
    \A m \in net :
        /\ m.kind = "request" => client[m.port].phase # "idle"
        /\ m.kind = "special" => <<m.answer, NoSeq>> \in answered[m.port]

\* A fetch that is still under way has at most one session, and the server has it yet.
OneSession ==
    \A p \in Ports : client[p].phase # "ended" =>
        \/ Built(p) = {}
        \/ p \in Live /\ Built(p) = {<<sessions[p].doc, sessions[p].base>>}

RefInv == AnswersSourced /\ OneSession

----------------------------------------------------------------------------
(* What a step may do to a client and to a session.                        *)

\* The ways a step can change the client of q, and no other.
Began(c, r)    == c.phase = "idle" /\ r = [c EXCEPT !.phase = "waiting"]
GoesOn(c, r)   == c.phase = "waiting" /\ r.phase = "waiting" /\ r.result = "pending"
EndedIn(c, r, results) == c.phase = "waiting" /\ r.phase = "ended" /\ r.result \in results

\* fetch returns: nothing but the phase and the result changes.
LEMMA EndParts ==
  ASSUME NEW c \in Client, NEW result \in Outcomes
  PROVE  End(c, result) \in Client /\ End(c, result).phase = "ended" /\ End(c, result).result = result
  BY DEF End, Client

\* A client step begins one fetch, goes on with it, or ends it: with a special that is
\* on its way, with the body, or without either.
LEMMA ClientSteps ==
  ASSUME IndInv, ClientNext
  PROVE  \/ client' = client
         \/ \E q \in Ports, r \in Client :
               /\ client' = [client EXCEPT ![q] = r]
               /\ \/ Began(client[q], r) \/ GoesOn(client[q], r)
                  \/ EndedIn(client[q], r, {"success"} \cup Failures)
                  \/ \E m \in net : /\ m.kind = "special" /\ m.port = q
                                    /\ EndedIn(client[q], r, {m.answer})
  <1> DEFINE Q == \/ client' = client
                  \/ \E q \in Ports, r \in Client :
                        /\ client' = [client EXCEPT ![q] = r]
                        /\ \/ Began(client[q], r) \/ GoesOn(client[q], r)
                           \/ EndedIn(client[q], r, {"success"} \cup Failures)
                           \/ \E m \in net : /\ m.kind = "special" /\ m.port = q
                                             /\ EndedIn(client[q], r, {m.answer})
  <1>0. /\ client \in [Ports -> Client]
        /\ \A m \in net : m.port \in Ports /\ (m.kind = "special" => m.answer \in Specials)
    BY MessageTypes DEF IndInv, TypeOK
  <1>1. ASSUME NEW q \in Ports, Fetch(q) PROVE Q
    <2> DEFINE r == [client[q] EXCEPT !.phase = "waiting"]
    <2>1. client' = [client EXCEPT ![q] = r] /\ Began(client[q], r)
      BY <1>1, <1>0 DEF Fetch, Began
    <2>2. r \in Client
      BY <1>0 DEF Client
    <2> QED
      BY <2>1, <2>2
  <1>2. ASSUME NEW q \in Ports, GiveUp(q) PROVE Q
    <2> DEFINE r == End(client[q], "failed")
    <2>1. client' = [client EXCEPT ![q] = r] /\ client[q].phase = "waiting"
      BY <1>2 DEF GiveUp
    <2>2. r \in Client /\ r.phase = "ended" /\ r.result = "failed"
      BY <1>0, EndParts DEF Outcomes, Failures
    <2> HIDE DEF r
    <2>3. EndedIn(client[q], r, {"success"} \cup Failures)
      BY <2>1, <2>2 DEF EndedIn, Failures
    <2> QED
      BY <2>1, <2>2, <2>3
  <1>3. ASSUME NEW m \in net, ReceiveSpecial(m) PROVE Q
    <2> DEFINE q == m.port
               r == End(client[q], m.answer)
    <2>1. /\ client[q].phase = "waiting" /\ m.kind = "special"
          /\ client' = client \/ client' = [client EXCEPT ![q] = r]
      BY <1>3 DEF ReceiveSpecial
    <2>2. q \in Ports /\ r \in Client /\ r.phase = "ended" /\ r.result = m.answer
      <3>1. q \in Ports /\ client[q] \in Client /\ m.answer \in Outcomes
        BY <1>0, <2>1 DEF Outcomes
      <3> QED
        BY <3>1, EndParts
    <2> HIDE DEF r
    <2>3. EndedIn(client[q], r, {m.answer})
      BY <2>1, <2>2 DEF EndedIn
    <2> QED
      BY <2>1, <2>2, <2>3
  <1>4. ASSUME NEW m \in net, ReceiveFirst(m) \/ ReceiveEof(m) \/ ReceiveData(m),
               client' # client
        PROVE  Q
    <2> DEFINE q == m.port
    <2>1. q \in Ports /\ client[q].phase = "waiting"
      BY <1>4, PacketIsChecked
    <2>2. PICK b \in Client : /\ b.phase = "waiting" /\ b.result = "pending"
                              /\ client' = [client EXCEPT ![q] = Checked(b)]
      BY <1>4, PacketIsChecked
    <2> DEFINE r == Checked(b)
    <2>3. /\ r \in Client /\ r.result \in {"success", "too large", "pending"}
          /\ r.phase = "ended" <=> r.result # "pending"
          /\ r.phase # "idle"
      BY <2>2, CheckedParts
    <2> HIDE DEF r
    <2>4. r.phase \in {"idle", "waiting", "ended"}
      BY <2>3 DEF Client
    <2>5. GoesOn(client[q], r) \/ EndedIn(client[q], r, {"success"} \cup Failures)
      BY <2>1, <2>3, <2>4 DEF GoesOn, EndedIn, Failures
    <2>6. client' = [client EXCEPT ![q] = r]
      BY <2>2 DEF r
    <2> QED
      BY <2>1, <2>3, <2>5, <2>6
  <1> QED
    BY <1>1, <1>2, <1>3, <1>4 DEF ClientNext, Stall, IgnoreContinuation

----------------------------------------------------------------------------
(* The invariant of the refinement.                                        *)

\* A step of the clients keeps it: a fetch does not come back from its end.
LEMMA ClientKeepsRefInv ==
  ASSUME IndInv, RefInv, ClientNext, UNCHANGED serverVars
  PROVE  RefInv'
  <1>0. client \in [Ports -> Client] /\ \A m \in net : m.port \in Ports
    BY MessageTypes DEF IndInv, TypeOK
  <1>1. \A p \in Ports : /\ client[p].phase # "idle" => client'[p].phase # "idle"
                         /\ client'[p].phase # "ended" => client[p].phase # "ended"
    <2>1. ASSUME NEW q \in Ports, NEW r \in Client, client' = [client EXCEPT ![q] = r],
                 \/ Began(client[q], r) \/ GoesOn(client[q], r)
                 \/ \E results : EndedIn(client[q], r, results)
          PROVE  \A p \in Ports : /\ client[p].phase # "idle" => client'[p].phase # "idle"
                                  /\ client'[p].phase # "ended" => client[p].phase # "ended"
      <3>1. client[q].phase # "idle" => r.phase # "idle"
        BY <2>1 DEF Began, GoesOn, EndedIn
      <3>2. r.phase # "ended" => client[q].phase # "ended"
        BY <2>1 DEF Began, GoesOn, EndedIn
      <3> QED
        BY <1>0, <2>1, <3>1, <3>2
    <2> QED
      BY <2>1, ClientSteps
  <1>2. OneSession'
    BY <1>1 DEF RefInv, OneSession, Built, Live, serverVars
  <1>3. \A m \in net' : \/ m \in net
                        \/ m.kind = "ack"
                        \/ \E p \in Ports : m = Request(p) /\ client'[p].phase # "idle"
    <2>1. ASSUME NEW p \in Ports, Fetch(p)
          PROVE  net' = net \cup {Request(p)} /\ client'[p].phase # "idle"
      BY <1>0, <2>1 DEF Fetch, Client
    <2>2. ASSUME NEW p \in Ports, Stall(p)
          PROVE  \/ net' = net \cup {Request(p)} /\ client'[p].phase # "idle"
                 \/ \A m \in net' : m \in net \/ m.kind = "ack"
      BY <2>2 DEF Stall, Ack
    <2>3. ASSUME NEW m \in net,
                 \/ ReceiveSpecial(m) \/ ReceiveFirst(m) \/ IgnoreContinuation(m)
                 \/ ReceiveEof(m) \/ ReceiveData(m)
          PROVE  \A n \in net' : n \in net \/ n.kind = "ack"
      BY <2>3 DEF ReceiveSpecial, ReceiveFirst, IgnoreContinuation, ReceiveEof, ReceiveData,
         Received, Ack
    <2> QED
      BY <2>1, <2>2, <2>3 DEF ClientNext, GiveUp
  <1>4. AnswersSourced'
    <2> SUFFICES ASSUME NEW m \in net'
                 PROVE  /\ m.kind = "request" => client'[m.port].phase # "idle"
                        /\ m.kind = "special" => <<m.answer, NoSeq>> \in answered'[m.port]
      BY DEF AnswersSourced
    <2>1. CASE m \in net
      BY <1>0, <1>1, <2>1 DEF RefInv, AnswersSourced, serverVars
    <2>2. CASE m.kind = "ack"
      BY <2>2
    <2>3. ASSUME NEW p \in Ports, m = Request(p), client'[p].phase # "idle"
          PROVE  /\ m.kind = "request" => client'[m.port].phase # "idle"
                 /\ m.kind = "special" => <<m.answer, NoSeq>> \in answered'[m.port]
      BY <2>3 DEF Request
    <2> QED
      BY <1>3, <2>1, <2>2, <2>3
  <1> QED
    BY <1>2, <1>4 DEF RefInv

\* An acknowledgement leaves a window that is sound: open_window may go on from it.
LEMMA AckedWindowSound ==
  ASSUME IndInv, NEW q \in Live, NEW seq
  PROVE  LET s == [sessions[q] EXCEPT !.unacked = @ \ {seq}]
         IN WindowSound(s) /\ s.base \in FirstSeqs(s.doc)
  <1> DEFINE s0 == sessions[q]
             s == [s0 EXCEPT !.unacked = @ \ {seq}]
  <1>1. q \in Ports /\ s0 \in Session /\ SessionSound(q)
    BY DEF IndInv, TypeOK, SessionsSound, Live
  <1>2. /\ s.doc = s0.doc /\ s.base = s0.base /\ s.next = s0.next
        /\ s.unacked = s0.unacked \ {seq}
    BY <1>1 DEF Session
  <1>3. s0.base \in FirstSeqs(s0.doc)
    <2> DEFINE x == <<s0.doc, s0.base>>
    <2>1. x \in Built(q) /\ x[1] = s0.doc /\ x[2] = s0.base
      BY <1>1 DEF SessionSound
    <2> HIDE DEF x
    <2> QED
      BY <1>1, <2>1 DEF IndInv, BuiltInRange
  <1>4. Cardinality(s0.unacked \ {seq}) <= Window
    <2>1. s0.base \in Int /\ s0.base + s0.next - 1 \in Int
      BY <1>1, WireAssumption DEF Session, Seqs
    <2>2. IsFiniteSet(s0.base .. s0.base + s0.next - 1)
      <3> DEFINE hi == s0.base + s0.next - 1
      <3>1. hi \in Int
        BY <2>1
      <3> HIDE DEF hi
      <3>2. IsFiniteSet(s0.base .. hi)
        BY <2>1, <3>1, FS_Interval
      <3> QED
        BY <3>2 DEF hi
    <2>3. IsFiniteSet(s0.unacked)
      BY <1>1, <2>2, FS_Subset DEF SessionSound
    <2>4. Cardinality(s0.unacked \ {seq}) <= Cardinality(s0.unacked)
      BY <2>3, FS_Subset
    <2>5. Cardinality(s0.unacked \ {seq}) \in Nat /\ Cardinality(s0.unacked) \in Nat
      BY <2>3, FS_Subset, FS_CardinalityType
    <2> QED
      BY <1>1, <2>4, <2>5, ServerAssumption DEF SessionSound
  <1> QED
    BY <1>1, <1>2, <1>3, <1>4 DEF WindowSound, SessionSound

\* build_session starts with nothing sent.
LEMMA BuiltSessionSound ==
  ASSUME NEW d \in Docs, NEW base \in FirstSeqs(d)
  PROVE  LET s == BuiltSession(d, base)
         IN s \in Session /\ s.doc = d /\ s.base = base /\ WindowSound(s)
  <1>1. base \in Seqs /\ TotalPackets(d) \in Nat
    <2>1. 0 \in 0 .. EofIndex(d) /\ EofIndex(d) \in Nat /\ TotalPackets(d) = EofIndex(d) + 1
      BY EofIndexType
    <2> QED
      BY <2>1, WireAssumption DEF FirstSeqs, Seqs
  <1>2. Cardinality({}) = 0
    BY FS_EmptySet
  <1> QED
    BY <1>1, <1>2, ServerAssumption DEF BuiltSession, Session, WindowSound

\* A step of the server keeps it: a request opens a session only where there is none, and
\* with DeadlinesRace FALSE the tick drops none that a fetch still needs.
LEMMA ServerKeepsRefInv ==
  ASSUME DeadlinesRace = FALSE, IndInv, DoneMeansDelivered, RefInv, ServerNext, UNCHANGED client
  PROVE  RefInv'
  <1>0. /\ sessions \in [Ports -> Session \cup {NoSession}]
        /\ \A m \in net : m.port \in Ports
        /\ answered \in [Ports -> SUBSET ((Docs \cup Specials) \X (Seqs \cup {NoSeq}))]
    BY MessageTypes DEF IndInv, TypeOK
  <1> DEFINE Sourced(m) == /\ m.kind = "request" => client'[m.port].phase # "idle"
                           /\ m.kind = "special" => <<m.answer, NoSeq>> \in answered'[m.port]
  <1>1. ASSUME \A p \in Ports : answered[p] \subseteq answered'[p],
               \A m \in net' : m \in net \/ m.kind \in {"first", "continuation"} \/ Sourced(m)
        PROVE  AnswersSourced'
    <2>1. \A m \in net : Sourced(m)
      BY <1>0, <1>1 DEF RefInv, AnswersSourced
    <2> QED
      BY <1>1, <2>1 DEF AnswersSourced
  <1>2. ASSUME NEW p \in Ports, client[p].phase # "ended", Built(p) # {}
        PROVE  /\ p \in Live /\ Built(p) = {<<sessions[p].doc, sessions[p].base>>}
               /\ ~ sessions[p].done
    <2>1. p \in Live /\ Built(p) = {<<sessions[p].doc, sessions[p].base>>}
      BY <1>2 DEF RefInv, OneSession
    <2>2. client[p].result # "success"
      BY <1>2 DEF IndInv, ClientPhases
    <2> QED
      BY <2>1, <2>2 DEF DoneMeansDelivered
  <1>3. ASSUME NEW m \in net, ReceiveAck(m) PROVE RefInv'
    <2> DEFINE q == m.port
    <2>1. \A n \in net' : n \in net \/ n.kind \in {"first", "continuation"}
      BY <1>3 DEF ReceiveAck, Received, WindowPackets, Packet
    <2>2. ASSUME NEW p \in Ports, p \in Live
          PROVE  p \in Live' /\ sessions'[p].doc = sessions[p].doc /\ sessions'[p].base = sessions[p].base
      <3>1. CASE sessions'[p] = sessions[p]
        BY <2>2, <3>1 DEF Live
      <3>2. CASE p = q /\ sessions[q] # NoSession
        <4> DEFINE s0 == sessions[q]
                   s == [s0 EXCEPT !.unacked = @ \ {m.seq}]
        <4>1. \/ sessions' = [sessions EXCEPT ![q] = [s EXCEPT !.done = TRUE]]
              \/ \E n \in 0 .. WindowRoom(s) : sessions' = [sessions EXCEPT ![q] = OpenWindow(s, n)]
          BY <1>3, <3>2 DEF ReceiveAck
        <4>2. s0 \in Session /\ SessionSound(q)
          BY <1>0, <2>2, <3>2 DEF IndInv, SessionsSound
        <4>3. /\ s.doc = s0.doc /\ s.base = s0.base /\ s.next = s0.next
              /\ s.unacked = s0.unacked \ {m.seq} /\ s \in Session
          BY <4>2 DEF Session
        <4>4. WindowSound(s) /\ s.base \in FirstSeqs(s.doc)
          BY <1>3, <2>2, <3>2, <4>2, <4>3, AckedWindowSound DEF WindowSound
        <4> HIDE DEF s
        <4>5. CASE sessions' = [sessions EXCEPT ![q] = [s EXCEPT !.done = TRUE]]
          <5>1. sessions'[p] = [s EXCEPT !.done = TRUE]
            BY <1>0, <3>2, <4>5
          <5>2. [s EXCEPT !.done = TRUE] \in Session /\ [s EXCEPT !.done = TRUE].doc = s.doc
                /\ [s EXCEPT !.done = TRUE].base = s.base
            BY <4>3 DEF Session
          <5> QED
            BY <2>2, <3>2, <4>3, <5>1, <5>2, ServerAssumption DEF Live
        <4>6. ASSUME NEW n \in 0 .. WindowRoom(s), sessions' = [sessions EXCEPT ![q] = OpenWindow(s, n)]
              PROVE  /\ p \in Live' /\ sessions'[p].doc = sessions[p].doc
                     /\ sessions'[p].base = sessions[p].base
          <5>1. sessions'[p] = OpenWindow(s, n)
            BY <1>0, <3>2, <4>6
          <5>2. OpenWindow(s, n) \in Session /\ OpenWindow(s, n).doc = s.doc
                /\ OpenWindow(s, n).base = s.base
            BY <4>3, <4>4, OpenWindowSound
          <5> QED
            BY <2>2, <3>2, <4>3, <5>1, <5>2, ServerAssumption DEF Live
        <4> QED
          BY <3>2, <4>1, <4>5, <4>6
      <3> QED
        BY <1>0, <1>3, <2>2, <3>1, <3>2 DEF ReceiveAck, Live
    <2>3. OneSession'
      BY <1>2, <1>3, <2>2 DEF RefInv, OneSession, Built, ReceiveAck
    <2> QED
      BY <1>1, <1>3, <2>1, <2>3 DEF RefInv, ReceiveAck
  <1>4. ASSUME NEW m \in net, IgnoreRequest(m) PROVE RefInv'
    BY <1>1, <1>4 DEF IgnoreRequest, Received, serverVars, RefInv, OneSession, Built, Live
  <1>5. ASSUME NEW m \in net, AnswerSuccess(m) PROVE RefInv'
    <2> DEFINE q == m.port
    <2>1. PICK d \in Docs : \E base \in FirstSeqs(d) :
             LET s == BuiltSession(d, base)
             IN  \E n \in 0 .. WindowRoom(s) :
                   /\ sessions' = [sessions EXCEPT ![q] = OpenWindow(s, n)]
                   /\ net' \subseteq net \cup WindowPackets(q, s, n)
                   /\ answered' = [answered EXCEPT ![q] = @ \cup {<<d, base>>}]
      BY <1>5 DEF AnswerSuccess, Received
    <2>2. PICK base \in FirstSeqs(d) :
             LET s == BuiltSession(d, base)
             IN  \E n \in 0 .. WindowRoom(s) :
                   /\ sessions' = [sessions EXCEPT ![q] = OpenWindow(s, n)]
                   /\ net' \subseteq net \cup WindowPackets(q, s, n)
                   /\ answered' = [answered EXCEPT ![q] = @ \cup {<<d, base>>}]
      BY <2>1
    <2> DEFINE s == BuiltSession(d, base)
    <2>3. PICK n \in 0 .. WindowRoom(s) :
                   /\ sessions' = [sessions EXCEPT ![q] = OpenWindow(s, n)]
                   /\ net' \subseteq net \cup WindowPackets(q, s, n)
                   /\ answered' = [answered EXCEPT ![q] = @ \cup {<<d, base>>}]
      BY <2>2
    <2>4. q \in Ports /\ q \notin Live
      BY <1>0, <1>5 DEF AnswerSuccess, Admits
    <2>5. \A k \in net' : k \in net \/ k.kind \in {"first", "continuation"}
      BY <2>3 DEF WindowPackets, Packet
    <2>6. \A p \in Ports : answered[p] \subseteq answered'[p]
      BY <1>0, <2>3
    <2>7. sessions'[q] = OpenWindow(s, n) /\ \A p \in Ports : p # q => sessions'[p] = sessions[p]
      BY <1>0, <2>3
    <2>8. s \in Session /\ s.doc = d /\ s.base = base /\ WindowSound(s)
      BY BuiltSessionSound
    <2> HIDE DEF s
    <2>9. OpenWindow(s, n) \in Session /\ OpenWindow(s, n).doc = d /\ OpenWindow(s, n).base = base
      BY <2>8, OpenWindowSound
    <2>10. q \in Live' /\ sessions'[q].doc = d /\ sessions'[q].base = base
      BY <2>4, <2>7, <2>9, ServerAssumption DEF Live
    <2>11. client[q].phase # "ended" => Built(q)' = {<<d, base>>}
      <3> SUFFICES ASSUME client[q].phase # "ended" PROVE Built(q)' = {<<d, base>>}
        OBVIOUS
      <3>1. Built(q) = {}
        BY <1>2, <2>4
      <3>2. answered'[q] = answered[q] \cup {<<d, base>>} /\ <<d, base>>[1] = d
        BY <1>0, <2>3, <2>4
      <3> QED
        BY <3>1, <3>2 DEF Built
    <2>12. \A p \in Ports : p # q => Built(p)' = Built(p) /\ (p \in Live' <=> p \in Live)
      BY <1>0, <2>3, <2>7 DEF Built, Live
    <2>13. OneSession'
      BY <2>7, <2>10, <2>11, <2>12 DEF RefInv, OneSession
    <2> QED
      BY <1>1, <2>5, <2>6, <2>13 DEF RefInv
  <1>6. ASSUME NEW m \in net, AnswerSpecial(m) PROVE RefInv'
    <2> DEFINE q == m.port
    <2>1. PICK a \in Specials : /\ net' \subseteq net \cup {Special(q, a)}
                                /\ answered' = [answered EXCEPT ![q] = @ \cup {<<a, NoSeq>>}]
      BY <1>6 DEF AnswerSpecial, Received
    <2>2. UNCHANGED sessions /\ q \in Ports
      BY <1>0, <1>6 DEF AnswerSpecial
    <2>3. \A p \in Ports : answered[p] \subseteq answered'[p] /\ Built(p)' = Built(p)
      <3>1. a \notin Docs /\ <<a, NoSeq>>[1] = a
        BY WireAssumption
      <3> QED
        BY <1>0, <2>1, <3>1 DEF Built
    <2>4. Sourced(Special(q, a))
      BY <1>0, <2>1, <2>2 DEF Special
    <2>5. OneSession'
      BY <2>2, <2>3 DEF RefInv, OneSession, Live
    <2> QED
      BY <1>1, <2>1, <2>3, <2>4, <2>5 DEF RefInv
  <1>7. ASSUME NEW dropped \in SUBSET Droppable, NEW due \in SUBSET Live, Tick(dropped, due)
        PROVE  RefInv'
    <2>1. \A n \in net' : n \in net \/ n.kind \in {"first", "continuation"}
      BY <1>7 DEF Tick, Retransmission, Packet
    <2>2. ASSUME NEW p \in Ports, client[p].phase # "ended", Built(p) # {}
          PROVE  p \in Live' /\ sessions'[p] = sessions[p]
      <3>1. p \notin dropped /\ p \in Live
        BY <1>2, <1>7, <2>2 DEF Droppable
      <3> QED
        BY <1>7, <3>1 DEF Tick, Live
    <2>3. OneSession'
      BY <1>2, <1>7, <2>2 DEF OneSession, Built, Tick
    <2> QED
      BY <1>1, <1>7, <2>1, <2>3 DEF RefInv, Tick
  <1> QED
    BY <1>3, <1>4, <1>5, <1>6, <1>7 DEF ServerNext

\* The invariant of the refinement holds as long as no deadline passes during a fetch.
LEMMA RefInvInvariant ==
  ASSUME DeadlinesRace = FALSE
  PROVE  Spec => []RefInv
  <1>1. Init => RefInv
    BY DEF Init, ServerInit, RefInv, AnswersSourced, OneSession, Built
  <1>2. ASSUME IndInv, DoneMeansDelivered, RefInv, [Next]_vars PROVE RefInv'
    <2>1. CASE ServerNext /\ UNCHANGED client
      BY <1>2, <2>1, ServerKeepsRefInv
    <2>2. CASE ClientNext /\ UNCHANGED serverVars
      BY <1>2, <2>2, ClientKeepsRefInv
    <2>3. CASE net' \subseteq net /\ UNCHANGED <<sessions, sendErrors, answered, client>>
      BY <1>2, <2>3 DEF RefInv, AnswersSourced, OneSession, Built, Live
    <2> QED
      BY <1>2, <2>1, <2>2, <2>3 DEF Next, Lose, vars, serverVars
  <1> QED
    BY <1>1, <1>2, Invariance, DoneIsDelivered, PTL DEF Spec

----------------------------------------------------------------------------
(* The step simulation.                                                    *)

\* What the transaction sees.
Asked == {p \in Ports : client[p].phase # "idle"}
Given == [p \in Ports |-> {x[1] : x \in answered[p]}]
Returned == [p \in Ports |-> Outcome(p)]

\* A fetch that has not returned shows as pending.
LEMMA PendingOutcome ==
  ASSUME NEW p \in Ports, client[p].result = "pending"
  PROVE  Outcome(p) = "pending"
  BY DEF Outcome, Failures

\* A failure shows as one, whichever it is.
LEMMA FailedOutcome ==
  ASSUME NEW p \in Ports, client[p].result \in Failures
  PROVE  Outcome(p) = "failed"
  BY DEF Outcome, Failures

\* A special shows as itself.
LEMMA SpecialOutcome ==
  ASSUME NEW p \in Ports, client[p].result \in Specials
  PROVE  Outcome(p) = client[p].result
  BY ClientAssumption DEF Outcome, Failures

\* A success shows as the one document that was served.
LEMMA SuccessOutcome ==
  ASSUME IndInv, BodyExact, NEW p \in Ports, NEW doc \in Docs, NEW start \in Seqs,
         Built(p) = {<<doc, start>>}, client[p].result = "success"
  PROVE  Outcome(p) = doc
  <1> DEFINE c == client[p]
             whole == {d \in Docs : \E base \in Seqs : c.first = base /\ HoldsWhole(c, d, base)}
  <1>1. c.first = start /\ HoldsWhole(c, doc, start)
    <2>1. Started(c)
      BY DEF IndInv, ClientPhases
    <2> QED
      BY <2>1 DEF IndInv, ClientsSound, ReassemblySound, BodyExact
  <1>2. doc \in whole
    BY <1>1
  <1>3. ASSUME NEW e \in whole PROVE e = doc
    <2>1. \A f \in Docs : HoldsWhole(c, f, start) => c.chunks[start] = DataOf(f, 0)
      <3> SUFFICES ASSUME NEW f \in Docs, HoldsWhole(c, f, start)
                   PROVE  c.chunks[start] = DataOf(f, 0)
        OBVIOUS
      <3>1. start \in start .. start + EofIndex(f) - 1 /\ start - start = 0
        BY EofIndexType, WireAssumption DEF Seqs
      <3> QED
        BY <3>1 DEF HoldsWhole
    <2>2. DataOf(e, 0) = DataOf(doc, 0)
      BY <1>1, <1>3, <2>1
    <2> QED
      BY <2>2 DEF DataOf
  <1>4. whole = {doc}
    BY <1>2, <1>3
  <1> DEFINE chosen == CHOOSE d \in whole : TRUE
  <1>5. Outcome(p) = CASE c.result = "success" /\ whole # {} -> chosen
                       [] c.result = "success" /\ whole = {} -> "mangled"
                       [] c.result \in Failures              -> "failed"
                       [] OTHER                              -> c.result
    BY DEF Outcome
  <1>6. chosen = doc
    BY <1>4
  <1>7. whole # {}
    BY <1>2
  <1> HIDE DEF whole, chosen
  <1> QED
    BY <1>5, <1>6, <1>7 DEF Failures

\* What the caller sees of every fetch.
Shown ==
    \A p \in Ports :
        /\ client[p].result = "pending" => Outcome(p) = "pending"
        /\ client[p].result \in Failures => Outcome(p) = "failed"
        /\ client[p].result \in Specials => Outcome(p) = client[p].result
        /\ client[p].result = "success" =>
              \A d \in Docs, base \in Seqs : Built(p) = {<<d, base>>} => Outcome(p) = d

\* The outcome is a function of the client's record.
LEMMA OutcomeKept ==
  ASSUME NEW p \in Ports, client'[p] = client[p]
  PROVE  Outcome(p)' = Outcome(p)
  <1> DEFINE Seen(c) ==
               LET whole == {d \in Docs : \E base \in Seqs : c.first = base /\ HoldsWhole(c, d, base)}
               IN  CASE c.result = "success" /\ whole # {} -> CHOOSE d \in whole : TRUE
                     [] c.result = "success" /\ whole = {} -> "mangled"
                     [] c.result \in Failures              -> "failed"
                     [] OTHER                              -> c.result
  <1>1. Outcome(p) = Seen(client[p])
    BY DEF Outcome
  <1>2. Outcome(p)' = Seen(client'[p])
    BY DEF Outcome
  <1> HIDE DEF Seen
  <1> QED
    BY <1>1, <1>2

\* A step of the clients begins one fetch, returns from one, lets one fail, or shows nothing.
LEMMA ClientSimulates ==
  ASSUME IndInv, IndInv', RefInv, Shown, Shown', ClientNext, UNCHANGED serverVars
  PROVE  Transaction!Next \/ UNCHANGED <<Asked, Given, Returned>>
  <1>0. /\ client \in [Ports -> Client]
        /\ Given' = Given /\ \A p \in Ports : Built(p)' = Built(p)
    BY DEF IndInv, TypeOK, serverVars, Given, Built
  <1>1. CASE client' = client
    <2>1. Asked' = Asked
      BY <1>1 DEF Asked
    <2>2. Returned' = Returned
      BY <1>1, OutcomeKept DEF Returned
    <2> QED
      BY <1>0, <2>1, <2>2
  <1>2. ASSUME NEW q \in Ports, NEW r \in Client, client' = [client EXCEPT ![q] = r]
        PROVE  /\ client'[q] = r
               /\ \A p \in Ports : p # q => client'[p] = client[p]
               /\ Returned' = [Returned EXCEPT ![q] = Outcome(q)']
               /\ Returned[q] = Outcome(q)
    <2>1. client'[q] = r /\ \A p \in Ports : p # q => client'[p] = client[p]
      BY <1>0, <1>2
    <2>2. \A p \in Ports : p # q => Outcome(p)' = Outcome(p)
      BY <2>1, OutcomeKept
    <2> QED
      BY <2>1, <2>2 DEF Returned
  <1>3. ASSUME NEW q \in Ports, client[q].phase # "ended"
        PROVE  client[q].result = "pending" /\ Outcome(q) = "pending"
    BY <1>3 DEF IndInv, ClientPhases, Shown
  <1>4. ASSUME NEW q \in Ports, NEW r \in Client, client' = [client EXCEPT ![q] = r],
               Began(client[q], r)
        PROVE  Transaction!Next
    <2>1. q \notin Asked /\ Asked' = Asked \cup {q}
      <3>1. client[q].phase = "idle" /\ r.phase = "waiting"
        BY <1>0, <1>4 DEF Began, Client
      <3>2. client'[q] = r /\ \A p \in Ports : p # q => client'[p] = client[p]
        BY <1>2, <1>4
      <3>3. \A p \in Ports : client'[p].phase # "idle" <=> (client[p].phase # "idle" \/ p = q)
        BY <3>1, <3>2
      <3> QED
        BY <3>1, <3>3 DEF Asked
    <2>2. Returned' = Returned
      <3>0. client[q].result = "pending" /\ Outcome(q) = "pending"
        BY <1>3, <1>4 DEF Began
      <3>1. r.result = "pending"
        BY <1>0, <1>4, <3>0 DEF Began, Client
      <3>2. Outcome(q)' = Outcome(q)
        BY <1>2, <1>4, <3>0, <3>1 DEF Shown
      <3> QED
        BY <1>2, <1>4, <3>2 DEF Returned
    <2>3. Transaction!Ask(q)
      BY <1>0, <2>1, <2>2 DEF Transaction!Ask, Asked, Given, Returned
    <2> QED
      BY <2>3 DEF Transaction!Next
  <1>5. ASSUME NEW q \in Ports, NEW r \in Client, client' = [client EXCEPT ![q] = r],
               client[q].phase = "waiting", r.phase # "idle"
        PROVE  Asked' = Asked
    BY <1>2, <1>5 DEF Asked
  <1>6. ASSUME NEW q \in Ports, NEW r \in Client, client' = [client EXCEPT ![q] = r],
               GoesOn(client[q], r)
        PROVE  UNCHANGED <<Asked, Given, Returned>>
    <2>1. client[q].phase = "waiting" /\ r.phase = "waiting" /\ r.result = "pending"
      BY <1>6 DEF GoesOn
    <2>2. Outcome(q)' = Outcome(q)
      BY <1>2, <1>3, <1>6, <2>1 DEF Shown
    <2>3. Returned' = Returned
      BY <1>2, <1>6, <2>2 DEF Returned
    <2> QED
      BY <1>0, <1>5, <1>6, <2>1, <2>3
  <1>7. ASSUME NEW q \in Ports, NEW r \in Client, client' = [client EXCEPT ![q] = r],
               client[q].phase = "waiting", r.phase = "ended",
               Outcome(q)' = "failed" \/ Outcome(q)' \in Given[q]
        PROVE  Transaction!Next
    <2>1. /\ Asked' = Asked /\ q \in Asked /\ Returned[q] = "pending"
          /\ Returned' = [Returned EXCEPT ![q] = Outcome(q)']
      BY <1>2, <1>3, <1>5, <1>7 DEF Asked
    <2>2. CASE Outcome(q)' = "failed"
      <3>1. Transaction!Fail(q)
        BY <1>0, <2>1, <2>2 DEF Transaction!Fail, Asked, Given, Returned
      <3> QED
        BY <3>1 DEF Transaction!Next
    <2>3. CASE Outcome(q)' \in Given[q]
      <3>1. Transaction!Return(q)
        BY <1>0, <2>1, <2>3 DEF Transaction!Return, Asked, Given, Returned
      <3> QED
        BY <3>1 DEF Transaction!Next
    <2> QED
      BY <1>7, <2>2, <2>3
  <1>8. ASSUME NEW q \in Ports, NEW r \in Client, client' = [client EXCEPT ![q] = r],
               EndedIn(client[q], r, {"success"} \cup Failures)
        PROVE  Transaction!Next
    <2>1. client[q].phase = "waiting" /\ r.phase = "ended" /\ client'[q] = r
      BY <1>2, <1>8 DEF EndedIn
    <2>2. CASE r.result \in Failures
      BY <1>7, <1>8, <2>1, <2>2 DEF Shown
    <2>3. CASE r.result = "success"
      <3>1. Built(q) # {}
        BY <1>0, <2>1, <2>3 DEF IndInv, ClientPhases
      <3>2. PICK x \in Built(q) : Built(q) = {x}
        BY <2>1, <3>1 DEF RefInv, OneSession
      <3>3. x = <<x[1], x[2]>> /\ x[1] \in Docs /\ x[2] \in Seqs
        BY BuiltPair DEF IndInv
      <3>4. Outcome(q)' = x[1]
        BY <1>0, <2>1, <2>3, <3>2, <3>3 DEF Shown
      <3>5. x[1] \in Given[q]
        BY DEF Built, Given
      <3> QED
        BY <1>7, <1>8, <2>1, <3>4, <3>5
    <2> QED
      BY <1>8, <2>2, <2>3 DEF EndedIn
  <1>9. ASSUME NEW q \in Ports, NEW r \in Client, client' = [client EXCEPT ![q] = r],
               NEW m \in net, m.kind = "special", m.port = q, EndedIn(client[q], r, {m.answer})
        PROVE  Transaction!Next
    <2>1. /\ client[q].phase = "waiting" /\ r.phase = "ended" /\ client'[q] = r
          /\ r.result = m.answer
      BY <1>2, <1>9 DEF EndedIn
    <2>2. m.answer \in Specials /\ <<m.answer, NoSeq>> \in answered[q]
      BY <1>9, MessageTypes DEF IndInv, TypeOK, RefInv, AnswersSourced
    <2>3. Outcome(q)' = m.answer
      BY <2>1, <2>2 DEF Shown
    <2>4. m.answer \in Given[q]
      <3>1. <<m.answer, NoSeq>>[1] = m.answer
        OBVIOUS
      <3> QED
        BY <2>2, <3>1 DEF Given
    <2> QED
      BY <1>7, <1>9, <2>1, <2>3, <2>4
  <1> QED
    BY <1>1, <1>4, <1>6, <1>8, <1>9, ClientSteps

\* A step of the server is an answer to a fetch that was asked, or shows nothing.
LEMMA ServerSimulates ==
  ASSUME IndInv, RefInv, ServerNext, UNCHANGED client
  PROVE  Transaction!Next \/ UNCHANGED <<Asked, Given, Returned>>
  <1>0. /\ Asked' = Asked /\ Returned' = Returned
        /\ answered \in [Ports -> SUBSET ((Docs \cup Specials) \X (Seqs \cup {NoSeq}))]
        /\ \A m \in net : m.port \in Ports
    BY OutcomeKept, MessageTypes DEF Asked, Returned, IndInv, TypeOK
  <1>1. ASSUME NEW m \in net, m.kind = "request", NEW a \in Docs \cup Specials, NEW seq,
               answered' = [answered EXCEPT ![m.port] = @ \cup {<<a, seq>>}]
        PROVE  Transaction!Next
    <2>1. m.port \in Ports /\ m.port \in Asked
      BY <1>0, <1>1 DEF RefInv, AnswersSourced, Asked
    <2>2. Given' = [Given EXCEPT ![m.port] = @ \cup {a}]
      <3>1. \A p \in Ports : p # m.port => answered'[p] = answered[p]
        BY <1>0, <1>1
      <3>2. answered'[m.port] = answered[m.port] \cup {<<a, seq>>}
        BY <1>0, <1>1, <2>1
      <3>3. {x[1] : x \in answered'[m.port]} = {x[1] : x \in answered[m.port]} \cup {a}
        <4>1. <<a, seq>>[1] = a
          OBVIOUS
        <4> QED
          BY <3>2, <4>1
      <3> QED
        BY <2>1, <3>1, <3>3 DEF Given
    <2>3. Transaction!Answer(m.port)
      BY <1>0, <2>1, <2>2 DEF Transaction!Answer, Asked, Given, Returned
    <2> QED
      BY <2>1, <2>3 DEF Transaction!Next
  <1>2. ASSUME NEW m \in net, AnswerSuccess(m) PROVE Transaction!Next
    <2>1. \E d \in Docs : \E base \in FirstSeqs(d) :
             answered' = [answered EXCEPT ![m.port] = @ \cup {<<d, base>>}]
      BY <1>2 DEF AnswerSuccess
    <2> QED
      BY <1>1, <1>2, <2>1 DEF AnswerSuccess
  <1>3. ASSUME NEW m \in net, AnswerSpecial(m) PROVE Transaction!Next
    BY <1>1, <1>3 DEF AnswerSpecial
  <1>4. CASE UNCHANGED answered
    BY <1>0, <1>4 DEF Given
  <1> QED
    BY <1>2, <1>3, <1>4 DEF ServerNext, ReceiveAck, IgnoreRequest, Tick, serverVars

\* With deadlines longer than a fetch, guppy is the transaction of GuppyFetch: a fetch
\* returns one answer that the handler gave to this socket, whole, or fails, and it
\* returns once, whatever is lost, repeated or reordered (fetch, serve).
THEOREM RefinesFetch ==
  ASSUME DeadlinesRace = FALSE
  PROVE  Spec => RefinesTransaction
  <1>1. Init => Transaction!Init
    <2> SUFFICES ASSUME Init PROVE Transaction!Init
      OBVIOUS
    <2>1. \A p \in Ports : /\ client[p].phase = "idle" /\ client[p].result = "pending"
                           /\ answered[p] = {}
      BY DEF Init, ClientInit, ServerInit, IdleClient
    <2>2. \A p \in Ports : Outcome(p) = "pending"
      BY <2>1, PendingOutcome
    <2> QED
      BY <2>1, <2>2 DEF Transaction!Init
  <1>2. IndInv /\ BodyExact => Shown
    BY PendingOutcome, FailedOutcome, SpecialOutcome, SuccessOutcome DEF Shown
  <1>3. ASSUME IndInv, IndInv', RefInv, Shown, Shown', [Next]_vars
        PROVE  [Transaction!Next]_(Transaction!vars)
    <2> SUFFICES Transaction!Next \/ UNCHANGED <<Asked, Given, Returned>>
      BY DEF Transaction!vars, Asked, Given, Returned
    <2>1. CASE ServerNext /\ UNCHANGED client
      BY <1>3, <2>1, ServerSimulates
    <2>2. CASE ClientNext /\ UNCHANGED serverVars
      BY <1>3, <2>2, ClientSimulates
    <2>3. CASE UNCHANGED <<client, answered>>
      BY <2>3, OutcomeKept DEF Asked, Given, Returned
    <2> QED
      BY <1>3, <2>1, <2>2, <2>3 DEF Next, vars, serverVars
  <1> QED
    BY <1>1, <1>2, <1>3, Invariance, BodyIsExact, RefInvInvariant, PTL
       DEF Spec, RefinesTransaction, Transaction!Spec

============================================================================
