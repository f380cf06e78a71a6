------------------------------- MODULE FspProofs -------------------------------
(***************************************************************************)
(* Proofs about Fsp, for every modulus, lifetime, number of attempts,      *)
(* payload size, and set of files.                                         *)
(***************************************************************************)
EXTENDS Fsp, SequenceTheorems, TLAPS

L == INSTANCE LineProofs

\* Numbers less than the modulus apart are told apart by their remainders.
LEMMA Remainders ==
    ASSUME NEW m \in Nat \ {0}, NEW a \in Nat, NEW b \in Nat,
           a <= b, b < a + m, a % m = b % m
    PROVE  a = b
<1> DEFINE p == a \div m
           q == b \div m
           r == a % m
<1>1. p \in Int /\ q \in Int /\ r \in 0..(m - 1)
  OBVIOUS
<1>2. a = m * p + r /\ b = m * q + r
  OBVIOUS
<1> HIDE DEF p, q, r
<1>3. m * (q - p) = b - a
  BY <1>1, <1>2
<1>4. CASE q - p >= 1
  <2>1. m * (q - p) >= m * 1
    BY <1>1, <1>4
  <2> QED BY <1>3, <2>1
<1>5. CASE q - p <= 0
  <2>1. m * (q - p) <= m * 0
    BY <1>1, <1>5
  <2> QED BY <1>3, <2>1
<1> QED BY <1>1, <1>4, <1>5

\* The next remainder.
LEMMA NextRemainder ==
    ASSUME NEW m \in Nat \ {0}, NEW a \in Nat
    PROVE  ((a % m) + 1) % m = (a + 1) % m
<1> DEFINE p == a \div m
           r == a % m
           u == (r + 1) \div m
           v == (r + 1) % m
<1>1. /\ p \in Int /\ u \in Int /\ r \in 0..(m - 1) /\ v \in 0..(m - 1)
      /\ a = m * p + r /\ r + 1 = m * u + v
  OBVIOUS
<1> HIDE DEF p, r, u, v
<1>2. a + 1 = m * (p + u) + v
  BY <1>1
<1>3. (a + 1) % m = v
  BY <1>1, <1>2
<1> QED BY <1>3 DEF v, r

----------------------------------------------------------------------------
(* The inductive invariant.                                                *)

SessionRec(s) ==
    s \in [ phase : {"idle", "waiting", "closed"}, op : Ops, path : Paths,
            sequence : 0..(SeqMod - 1), key : Nat, attempt : 0..Attempts, offset : Nat,
            body : {s.body}, result : {"none", "ok", "refused", "timeout", "io"} ]

Datagram(d) ==
    d \in [ to : {"server", "client"}, ord : Nat, seq : Nat, key : Nat, op : Ops,
            path : Paths, pos : Nat, err : BOOLEAN, data : {d.data} ]

\* A datagram belongs to a request of the last Lifetime ones and bears its number; one
\* of the last request asks what the session asks; a reply carries what was asked for.
InFlight(d) ==
    /\ Datagram(d)
    /\ d.ord \in 1..sent /\ d.ord + Lifetime > sent
    /\ d.seq = (d.ord + 1) % SeqMod
    /\ d.ord = sent => d.op = session.op /\ d.path = session.path /\ d.pos = session.offset
    /\ Len(d.data) \in Nat
    /\ d.to = "client" => d.key = d.ord
    /\ d.to = "client" /\ d.op = "get_file" =>
          /\ d.err <=> d.path \in Missing
          /\ ~d.err => d.data \in Seq(Int)
          /\ ~d.err /\ d.path \notin Endless => d.data = FileBlock(d.path, d.pos)

\* What get_file has of a file that ends is its beginning, up to where it asks.
Beginning(s, pos) ==
    /\ s.body \in Seq(Int)
    /\ s.path \notin Endless => /\ pos \in 0..Len(Content[s.path])
                                /\ s.body = SubSeq(Content[s.path], 1, pos)

Prefix(s) == s.phase = "waiting" /\ s.op = "get_file" => Beginning(s, s.offset)

FileOf(s) ==
    s.op = "get_file" /\ s.result = "ok" /\ s.path \notin Endless =>
        s.body = Content[s.path] /\ s.path \notin Missing

Inv ==
    /\ SessionRec(session)
    /\ sent \in Nat /\ answered \in 0..sent
    /\ session.sequence = (sent + 1) % SeqMod
    /\ session.key = answered
    /\ session.phase = "waiting" => session.result = "none" /\ sent > 0
    /\ \A d \in net : InFlight(d)
    /\ Prefix(session) /\ FileOf(session)

----------------------------------------------------------------------------

\* The reply that matches answers the request that waits.
LEMMA MatchIsAnswer ==
    ASSUME Inv, NEW d \in net, Matches(d)
    PROVE  d.ord = sent
<1>1. /\ d.ord \in 1..sent /\ d.ord + Lifetime > sent /\ d.seq = (d.ord + 1) % SeqMod
  BY DEF Inv, InFlight
<1>2. (d.ord + 1) % SeqMod = (sent + 1) % SeqMod
  BY <1>1 DEF Matches, Inv
<1>3. /\ d.ord + 1 \in Nat /\ sent + 1 \in Nat /\ d.ord + 1 <= sent + 1
      /\ sent + 1 < d.ord + 1 + SeqMod /\ SeqMod \in Nat \ {0}
  BY <1>1, NumbersAssumption DEF Inv
<1>4. d.ord + 1 = sent + 1
  BY <1>2, <1>3, Remainders
<1> QED BY <1>1, <1>4 DEF Inv

\* The initial state.
LEMMA InitInv == Init => Inv
<1> SUFFICES ASSUME Init
    PROVE  Inv
    OBVIOUS
<1>1. 1 % SeqMod \in 0..(SeqMod - 1)
  BY NumbersAssumption
<1>2. (CHOOSE p \in Paths : TRUE) \in Paths
  BY ContentAssumption
<1> QED BY <1>1, <1>2, NumbersAssumption
        DEF Init, Inv, SessionRec, Prefix, FileOf, Ops, Empty

\* Session::request keeps the invariant: the new request is the only one under its
\* ordinal, and what is left of the others is younger than Lifetime.
LEMMA RequestInv ==
    ASSUME Inv, NEW s, NEW pos \in Nat, NEW rest \in SUBSET net, Request(s, pos, rest),
           SessionRec(s), s.phase = "waiting", s.result = "none",
           s.sequence = session.sequence,
           s.key = answered', answered' \in 0..sent,
           s.op = "get_file" => Beginning(s, pos)
    PROVE  Inv'
<1> DEFINE ord == sent + 1
           seq == NextSequence(s.sequence)
<1>1. seq = (ord + 1) % SeqMod
  <2>1. sent + 1 \in Nat /\ SeqMod \in Nat \ {0}
    BY NumbersAssumption DEF Inv
  <2>2. (((sent + 1) % SeqMod) + 1) % SeqMod = (sent + 1 + 1) % SeqMod
    BY <2>1, NextRemainder
  <2> QED BY <2>2 DEF Inv, NextSequence
<1>2. seq \in 0..(SeqMod - 1) /\ seq \in Nat
  BY NumbersAssumption, <1>1 DEF Inv
<1>3. session' = [s EXCEPT !.sequence = seq, !.attempt = 1, !.offset = pos]
  BY DEF Request
<1>4. sent' = ord /\ sent' \in Nat
  BY DEF Request, Inv
<1> HIDE DEF seq
<1>5. SessionRec(session')
  <2>1. 1 \in 0..Attempts
    BY NumbersAssumption
  <2>2. session'.body = s.body
    BY <1>3 DEF SessionRec
  <2> QED BY <1>2, <1>3, <2>1, <2>2 DEF SessionRec
<1>6. /\ session'.sequence = seq /\ session'.offset = pos /\ session'.key = s.key
      /\ session'.phase = "waiting" /\ session'.result = "none" /\ session'.op = s.op
      /\ session'.path = s.path /\ session'.body = s.body
  BY <1>3 DEF SessionRec
<1>7. ASSUME NEW d \in net'
      PROVE  InFlight(d)'
  <2>1. CASE d \in net /\ d.ord + Lifetime > ord
    BY <2>1, <1>4 DEF Inv, InFlight, Datagram
  <2>2. CASE d = Query(ord, seq, s.key, s.op, s.path, pos)
    <3>1. s.op \in Ops /\ s.path \in Paths /\ s.key \in Nat
      BY DEF SessionRec
    <3>2. /\ d.ord = ord /\ d.seq = seq /\ d.to = "server" /\ d.op = s.op
          /\ d.path = s.path /\ d.pos = pos /\ d.data = Empty
      BY <2>2 DEF Query
    <3>3. Datagram(d)
      BY <2>2, <3>1, <1>2, <1>4 DEF Query, Datagram
    <3>4. ord \in 1..sent' /\ ord + Lifetime > sent'
      BY <1>4, NumbersAssumption DEF Inv
    <3> QED BY <3>2, <3>3, <3>4, <1>1, <1>4, <1>6 DEF InFlight, Empty, Datagram
  <2> QED BY <1>7, <2>1, <2>2 DEF Request, seq
<1>8. Prefix(session') /\ FileOf(session')
  BY <1>6 DEF Prefix, FileOf, Beginning
<1> QED BY <1>1, <1>4, <1>5, <1>6, <1>7, <1>8 DEF Inv, Prefix, FileOf, SessionRec, Beginning

\* The first request of a call.
LEMMA StartInv ==
    ASSUME Inv, NEW op \in Ops, NEW path \in Paths, Start(op, path)
    PROVE  Inv'
<1> DEFINE s == [session EXCEPT !.phase = "waiting", !.op = op, !.path = path,
                                !.body = Empty, !.result = "none"]
<1>1. SessionRec(session)
  BY DEF Inv
<1>2. /\ s.body = Empty /\ s.phase = "waiting" /\ s.result = "none" /\ s.path = path
      /\ s.sequence = session.sequence /\ s.key = session.key
  BY <1>1 DEF SessionRec
<1>3. SessionRec(s)
  BY <1>1, <1>2 DEF SessionRec
<1>4. Request(s, 0, net) /\ answered' = answered
  BY DEF Start
<1>5. 0 \in 0..Len(Content[path]) /\ Empty = SubSeq(Content[path], 1, 0)
  BY ContentAssumption DEF Empty
<1>6. answered \in 0..sent /\ session.key = answered /\ 0 \in Nat
  BY DEF Inv
<1>7. Beginning(s, 0)
  BY <1>2, <1>5 DEF Beginning, Empty
<1> HIDE DEF s
<1> QED BY <1>2, <1>3, <1>4, <1>6, <1>7, RequestInv

\* A call that ends, with the key of the last answer and its result.
LEMMA EndInv ==
    ASSUME Inv, NEW s, SessionRec(s), NEW result \in {"ok", "refused", "timeout", "io"},
           session' = Ends(s, result), net' \subseteq net, sent' = sent,
           s.sequence = session.sequence, s.op = session.op, s.path = session.path,
           s.offset = session.offset, s.key = answered', answered' \in 0..sent,
           result = "ok" /\ s.op = "get_file" /\ s.path \notin Endless =>
               s.body = Content[s.path] /\ s.path \notin Missing
    PROVE  Inv'
<1>1. /\ session'.phase \in {"idle", "closed"} /\ session'.result = result
      /\ session'.op = s.op /\ session'.path = s.path /\ session'.offset = s.offset
      /\ session'.key = s.key /\ session'.sequence = s.sequence /\ session'.body = s.body
  BY DEF Ends, SessionRec
<1>2. SessionRec(session')
  BY <1>1 DEF Ends, SessionRec
<1>3. \A d \in net' : InFlight(d)'
  BY <1>1 DEF Inv, InFlight, Datagram
<1>4. Prefix(session') /\ FileOf(session')
  BY <1>1 DEF Prefix, FileOf
<1> QED BY <1>1, <1>2, <1>3, <1>4 DEF Inv, SessionRec, Prefix, FileOf, Beginning

\* One more block of a file: it extends the prefix, and a short one completes it.
LEMMA BlockExtends ==
    ASSUME NEW path \in Paths, NEW pos \in 0..Len(Content[path])
    PROVE  LET block == FileBlock(path, pos)
               body == SubSeq(Content[path], 1, pos) \o block
           IN  /\ Len(block) \in Nat
               /\ Len(body) \in 0..Len(Content[path])
               /\ Len(body) = pos + Len(block)
               /\ body = SubSeq(Content[path], 1, Len(body))
               /\ Last(block) => body = Content[path]
<1> DEFINE c == Content[path]
           left == Len(c) - pos
           n == IF left < MaxPayload THEN left ELSE MaxPayload
           block == SubSeq(c, pos + 1, pos + n)
<1>1. c \in Seq(Int) /\ MaxPayload \in Nat \ {0} /\ Len(c) \in Nat
  BY ContentAssumption, NumbersAssumption
<1> HIDE DEF c
<1>2. pos \in 0..Len(c)
  BY DEF c
<1>3. /\ n \in 0..left /\ left = Len(c) - pos /\ left \in Nat
      /\ n < MaxPayload => n = left
  BY <1>1, <1>2
<1> HIDE DEF n, left
<1>4. 1 \in 1..(Len(c) + 1) /\ pos \in (1 - 1)..Len(c) /\ pos + n \in pos..Len(c)
  BY <1>1, <1>2, <1>3
<1>5. SubSeq(c, 1, pos) \o block = SubSeq(c, 1, pos + n)
  BY <1>1, <1>4, ConcatAdjacentSubSeq
<1>6. Len(block) = n
  BY <1>1, <1>2, <1>3, <1>4
<1>7. Len(SubSeq(c, 1, pos + n)) = pos + n
  BY <1>1, <1>2, <1>3, <1>4
<1> HIDE DEF block
<1>8. Last(block) => n = left
  <2>1. Empty = block => n = 0
    BY <1>6 DEF Empty
  <2> QED BY <1>1, <1>3, <1>6, <2>1 DEF Last
<1>9. SubSeq(c, 1, Len(c)) = c
  BY <1>1, SubSeqFull
<1>10. FileBlock(path, pos) = block
  BY DEF FileBlock, block, n, left, c
<1>11. n = left => pos + n = Len(c)
  BY <1>1, <1>2, <1>3
<1>12. pos + n \in 0..Len(c) /\ n \in Nat
  BY <1>1, <1>2, <1>3
<1> QED BY <1>5, <1>6, <1>7, <1>8, <1>9, <1>10, <1>11, <1>12 DEF c

\* The data of an answer has a length.
LEMMA AnswerHasLength ==
    ASSUME NEW q, q.path \in Paths, q.pos \in Nat
    PROVE  Len(Answer(q)) \in Nat
<1>0. CASE q.op \in {"get_file", "list"} /\ q.path \in Endless
  BY <1>0, NumbersAssumption DEF Answer, EndlessBlock
<1>1. CASE q.op = "get_file" /\ q.path \notin Endless
  <2>1. Content[q.path] \in Seq(Int)
    BY ContentAssumption
  <2> QED BY <1>1, <2>1, NumbersAssumption DEF Answer, FileBlock
<1>2. CASE q.op = "list" /\ q.path \notin Endless
  BY <1>2, ContentAssumption DEF Answer, Empty
<1>3. CASE q.op \notin {"get_file", "list"}
  BY <1>3 DEF Answer, Empty
<1> QED BY <1>0, <1>1, <1>2, <1>3

\* The data of an answer to get_file are bytes.
LEMMA FileAnswered ==
    ASSUME NEW q, q.path \in Paths, q.pos \in Nat, q.op = "get_file"
    PROVE  /\ Answer(q) \in Seq(Int)
           /\ q.path \notin Endless => Answer(q) = FileBlock(q.path, q.pos)
<1>1. CASE q.path \in Endless
  <2>1. [i \in 1..MaxPayload |-> 0] \in Seq(Int)
    BY NumbersAssumption
  <2> QED BY <1>1, <2>1 DEF Answer, EndlessBlock
<1>2. CASE q.path \notin Endless
  <2>1. Answer(q) = FileBlock(q.path, q.pos)
    BY <1>2 DEF Answer
  <2>2. Content[q.path] \in Seq(Int)
    BY ContentAssumption
  <2>3. FileBlock(q.path, q.pos) \in Seq(Int)
    <3> DEFINE c == Content[q.path]
               k == q.pos + (IF Len(c) - q.pos < MaxPayload THEN Len(c) - q.pos ELSE MaxPayload)
    <3>1. q.pos + 1 \in Nat \ {0} /\ k \in Int /\ k <= Len(c)
      BY <2>2, NumbersAssumption
    <3>2. SubSeq(c, q.pos + 1, k) \in Seq(Int)
      <4> HIDE DEF k
      <4> QED BY <2>2, <3>1
    <3> QED BY <3>2 DEF FileBlock
  <2> QED BY <1>2, <2>1, <2>3
<1> QED BY <1>1, <1>2

\* The server's answer is one to the request it got.
LEMMA ServeInv ==
    ASSUME Inv, NEW q \in net, Serve(q)
    PROVE  Inv'
<1> DEFINE bad == q.path \in Missing /\ q.op \in {"get_file", "list"}
           data == IF q.path \in Missing THEN Empty ELSE Answer(q)
           r == [q EXCEPT !.to = "client", !.key = q.ord, !.err = bad, !.data = data]
<1>1. InFlight(q) /\ Datagram(q)
  BY DEF Inv, InFlight
<1>2. Len(data) \in Nat
  BY <1>1, AnswerHasLength DEF Empty, Datagram
<1>3. q.op = "get_file" /\ ~bad => /\ data \in Seq(Int)
                                   /\ q.path \notin Endless => data = FileBlock(q.path, q.pos)
  <2> SUFFICES ASSUME q.op = "get_file", ~bad
      PROVE  data \in Seq(Int) /\ (q.path \notin Endless => data = FileBlock(q.path, q.pos))
      OBVIOUS
  <2>1. q.path \notin Missing
    OBVIOUS
  <2>2. data = Answer(q)
    BY <2>1
  <2>3. q.path \in Paths /\ q.pos \in Nat
    BY <1>1 DEF Datagram
  <2> HIDE DEF data, bad
  <2> QED BY <2>2, <2>3, <1>1, FileAnswered
<1>4. q.op = "get_file" => (bad <=> q.path \in Missing)
  OBVIOUS
<1>5. bad \in BOOLEAN
  OBVIOUS
<1>6. net' \subseteq net \cup {r}
  BY DEF Serve
<1> HIDE DEF bad, data
<1>7. /\ r.to = "client" /\ r.key = q.ord /\ r.err = bad /\ r.data = data /\ r.ord = q.ord
      /\ r.seq = q.seq /\ r.op = q.op /\ r.path = q.path /\ r.pos = q.pos
  BY <1>1 DEF Datagram
<1>8. Datagram(r)
  BY <1>1, <1>5, <1>7 DEF Datagram
<1> HIDE DEF r
<1>9. InFlight(r)
  <2>1. /\ r.ord \in 1..sent /\ r.ord + Lifetime > sent
        /\ r.seq = (r.ord + 1) % SeqMod
        /\ r.ord = sent => /\ r.op = session.op /\ r.path = session.path
                           /\ r.pos = session.offset
    BY <1>1, <1>7 DEF InFlight
  <2>2. Len(r.data) \in Nat /\ r.key = r.ord
    BY <1>2, <1>7
  <2>3. r.op = "get_file" => (r.err <=> r.path \in Missing)
    BY <1>4, <1>5, <1>7
  <2>4. r.op = "get_file" /\ ~r.err =>
          r.data \in Seq(Int) /\ (r.path \notin Endless => r.data = FileBlock(r.path, r.pos))
    <3> SUFFICES ASSUME r.op = "get_file", ~r.err
        PROVE  r.data \in Seq(Int) /\ (r.path \notin Endless => r.data = FileBlock(r.path, r.pos))
        OBVIOUS
    <3>1. q.op = "get_file"
      BY <1>7
    <3>2. ~bad
      BY <1>7
    <3>3. data \in Seq(Int) /\ (q.path \notin Endless => data = FileBlock(q.path, q.pos))
      BY <1>3, <3>1, <3>2
    <3>4. r.data = data /\ r.path = q.path /\ r.pos = q.pos
      BY <1>7
    <3> QED BY ZenonT(30), <3>3, <3>4
  <2>5. r.to = "client" => r.key = r.ord
    BY <2>2
  <2>6. r.op = "get_file" => /\ r.err <=> r.path \in Missing
                             /\ ~r.err => r.data \in Seq(Int)
                             /\ ~r.err /\ r.path \notin Endless => r.data = FileBlock(r.path, r.pos)
    BY ZenonT(30), <2>3, <2>4
  <2> QED BY ZenonT(30), <1>8, <2>1, <2>2, <2>5, <2>6 DEF InFlight
<1>10. \A d \in net' : InFlight(d)
  BY <1>6, <1>9 DEF Inv
<1>11. UNCHANGED <<session, sent, answered>>
  BY DEF Serve
<1> QED BY <1>10, <1>11 DEF Inv, InFlight

\* A reply is accepted, and the call goes on or ends; or it is dropped.
LEMMA ReceiveInv ==
    ASSUME Inv, NEW d \in net, Receive(d)
    PROVE  Inv'
<1>1. PICK rest \in {net, net \ {d}} :
         LET s == [session EXCEPT !.key = d.key] IN
         \/ Matches(d) /\ ~d.err /\ Continue(s, d.data, rest) /\ answered' = sent
         \/ /\ Matches(d) /\ d.err /\ session' = Ends(s, "refused")
            /\ net' = rest /\ answered' = sent /\ UNCHANGED sent
         \/ ~Matches(d) /\ net' = rest /\ UNCHANGED <<session, sent, answered>>
  BY DEF Receive
<1> DEFINE s == [session EXCEPT !.key = d.key]
<1>2. SessionRec(session) /\ InFlight(d) /\ d.to = "client" /\ session.phase = "waiting"
  BY DEF Inv, Receive
<1>3. /\ s.phase = "waiting" /\ s.op = session.op /\ s.path = session.path
      /\ s.offset = session.offset /\ s.sequence = session.sequence /\ s.key = d.key
      /\ s.body = session.body /\ s.result = session.result /\ s.attempt = session.attempt
  BY <1>2 DEF SessionRec
<1>4. SessionRec(s)
  BY <1>2, <1>3 DEF SessionRec, InFlight, Datagram
<1>5. rest \subseteq net
  BY <1>1
<1>6. sent \in Nat /\ session.result = "none" /\ sent \in 0..sent
  BY <1>2 DEF Inv
<1> HIDE DEF s
<1>7. CASE ~Matches(d) /\ net' = rest /\ UNCHANGED <<session, sent, answered>>
  BY <1>5, <1>7 DEF Inv, InFlight
<1>8. ASSUME Matches(d)
      PROVE  /\ d.ord = sent /\ s.key = sent
             /\ d.op = s.op /\ d.path = s.path /\ d.pos = s.offset
  <2>1. d.ord = sent
    BY <1>8, MatchIsAnswer
  <2> QED BY <2>1, <1>2, <1>3 DEF InFlight
<1>9. CASE /\ Matches(d) /\ d.err /\ session' = Ends(s, "refused")
           /\ net' = rest /\ answered' = sent /\ UNCHANGED sent
  BY <1>3, <1>4, <1>5, <1>6, <1>8, <1>9, EndInv
<1>10. CASE Matches(d) /\ ~d.err /\ Continue(s, d.data, rest) /\ answered' = sent
  <2> DEFINE entries == parse_directory(d.data)
             got == [s EXCEPT !.body = s.body \o (IF s.op = "list" THEN entries ELSE d.data)]
             ends == CASE s.op = "get_file" -> Last(d.data)
                       [] s.op = "list" -> entries = Empty
                       [] OTHER -> TRUE
  <2>1. /\ got.phase = "waiting" /\ got.op = s.op /\ got.path = s.path
        /\ got.offset = s.offset /\ got.sequence = s.sequence /\ got.key = s.key
        /\ got.result = "none"
        /\ got.body = s.body \o (IF s.op = "list" THEN entries ELSE d.data)
    BY <1>3, <1>4, <1>6 DEF SessionRec
  <2>2. SessionRec(got)
    BY <1>4, <2>1 DEF SessionRec
  <2>3. \/ ends /\ session' = Ends(got, "ok") /\ net' = rest /\ UNCHANGED sent
        \/ ~ends /\ Request(got, NextOffset(got, d.data), rest)
    BY <1>10 DEF Continue
  <2>t. s.op = "get_file" => got.body \in Seq(Int)
    <3>1. s.op = "get_file" => d.data \in Seq(Int) /\ s.body \in Seq(Int)
      BY <1>2, <1>3, <1>8, <1>10 DEF InFlight, Inv, Prefix, Beginning
    <3> QED BY <2>1, <3>1
  <2>4. s.op = "get_file" /\ s.path \notin Endless =>
           /\ Len(got.body) \in 0..Len(Content[s.path])
           /\ got.body = SubSeq(Content[s.path], 1, Len(got.body))
           /\ Last(d.data) => got.body = Content[s.path] /\ s.path \notin Missing
    <3> SUFFICES ASSUME s.op = "get_file", s.path \notin Endless
        PROVE  /\ Len(got.body) \in 0..Len(Content[s.path])
               /\ got.body = SubSeq(Content[s.path], 1, Len(got.body))
               /\ Last(d.data) => got.body = Content[s.path] /\ s.path \notin Missing
        OBVIOUS
    <3>1. d.data = FileBlock(s.path, s.offset) /\ s.path \notin Missing
      BY <1>2, <1>8, <1>10 DEF InFlight
    <3>2. /\ s.offset \in 0..Len(Content[s.path])
          /\ s.body = SubSeq(Content[s.path], 1, s.offset)
      BY <1>2, <1>3 DEF Inv, Prefix, Beginning
    <3>3. s.path \in Paths
      BY <1>4 DEF SessionRec
    <3>4. got.body = SubSeq(Content[s.path], 1, s.offset) \o FileBlock(s.path, s.offset)
      BY <2>1, <3>1, <3>2
    <3> HIDE DEF got
    <3> QED BY <3>1, <3>2, <3>3, <3>4, BlockExtends
  <2> HIDE DEF got, entries
  <2>5. CASE ends /\ session' = Ends(got, "ok") /\ net' = rest /\ UNCHANGED sent
    <3>1. got.op = "get_file" /\ got.path \notin Endless =>
             got.body = Content[got.path] /\ got.path \notin Missing
      BY <2>1, <2>4, <2>5
    <3> QED BY <1>3, <1>5, <1>6, <1>8, <1>10, <2>1, <2>2, <2>5, <3>1, EndInv
  <2>6. CASE ~ends /\ Request(got, NextOffset(got, d.data), rest)
    <3> DEFINE pos == NextOffset(got, d.data)
    <3>1. s.op = "get_file" => pos = Len(got.body)
      BY <2>1 DEF NextOffset
    <3>2. pos \in Nat
      <4>1. s.op \in {"get_file", "list"}
        BY <2>6
      <4>2. CASE s.op = "get_file"
        BY <2>t, <3>1, <4>2
      <4>3. CASE s.op = "list"
        <5>1. Len(d.data) \in Nat /\ got.offset \in Nat
          BY <1>2, <2>2 DEF InFlight, SessionRec
        <5> QED BY <2>1, <4>3, <5>1 DEF NextOffset
      <4> QED BY <4>1, <4>2, <4>3
    <3>3. got.op = "get_file" => Beginning(got, pos)
      BY <2>1, <2>t, <2>4, <3>1 DEF Beginning
    <3>4. Request(got, pos, rest)
      BY <2>6
    <3> HIDE DEF pos
    <3>5. rest \in SUBSET net /\ got.sequence = session.sequence /\ got.key = answered'
          /\ answered' \in 0..sent
      BY <1>3, <1>5, <1>6, <1>8, <1>10, <2>1
    <3> QED BY <2>1, <2>2, <3>2, <3>3, <3>4, <3>5, RequestInv
  <2> QED BY <2>3, <2>5, <2>6
<1> QED BY <1>1, <1>7, <1>9, <1>10 DEF s

\* A resend repeats the request that waits; the last timeout ends the call.
LEMMA TimeoutInv ==
    ASSUME Inv, Timeout
    PROVE  Inv'
<1>1. SessionRec(session) /\ sent' = sent /\ answered' = answered
  BY DEF Inv, Timeout
<1>2. CASE /\ session.attempt < Attempts
           /\ session' = [session EXCEPT !.attempt = @ + 1]
           /\ net' = net \cup {Query(sent, session.sequence, session.key, session.op,
                                     session.path, session.offset)}
  <2>1. session.attempt + 1 \in 0..Attempts
    BY <1>1, <1>2, NumbersAssumption DEF SessionRec
  <2>2. /\ session'.phase = session.phase /\ session'.op = session.op
        /\ session'.path = session.path /\ session'.offset = session.offset
        /\ session'.sequence = session.sequence /\ session'.key = session.key
        /\ session'.body = session.body /\ session'.result = session.result
    BY <1>1, <1>2 DEF SessionRec
  <2>3. SessionRec(session')
    BY <1>1, <1>2, <2>1, <2>2 DEF SessionRec
  <2> DEFINE q == Query(sent, session.sequence, session.key, session.op,
                        session.path, session.offset)
  <2>4. sent \in 1..sent
    \* the session waits, so that a request was made
    BY DEF Inv, Timeout
  <2>5. InFlight(q)
    <3>1. /\ q.to = "server" /\ q.ord = sent /\ q.seq = session.sequence
          /\ q.op = session.op /\ q.path = session.path /\ q.pos = session.offset
          /\ q.data = Empty
      BY DEF Query
    <3>2. Datagram(q)
      BY <1>1, <2>4, NumbersAssumption DEF Query, Datagram, SessionRec
    <3>3. sent + Lifetime > sent
      BY <2>4, NumbersAssumption
    <3>4. session.sequence = (sent + 1) % SeqMod
      BY DEF Inv
    <3> HIDE DEF q
    <3> QED BY <2>4, <3>1, <3>2, <3>3, <3>4 DEF InFlight, Empty
  <2>6. \A d \in net' : InFlight(d)
    BY <1>2, <2>5 DEF Inv
  <2>7. \A d \in net' : InFlight(d)'
    BY <1>1, <2>2, <2>6 DEF InFlight
  <2>8. Prefix(session') /\ FileOf(session')
    BY <2>2 DEF Inv, Prefix, FileOf, Beginning
  <2> QED BY <1>1, <2>2, <2>3, <2>7, <2>8 DEF Inv, SessionRec, Prefix, FileOf, Beginning
<1>3. CASE session' = Ends(session, "timeout") /\ UNCHANGED net
  BY <1>1, <1>3, EndInv DEF Inv
<1> QED BY <1>2, <1>3 DEF Timeout

\* Every step keeps the invariant.
LEMMA NextInv == Inv /\ [Next]_vars => Inv'
<1> SUFFICES ASSUME Inv, [Next]_vars
    PROVE  Inv'
    OBVIOUS
<1>1. ASSUME NEW op \in Ops, NEW path \in Paths, Start(op, path)
      PROVE  Inv'
  BY <1>1, StartInv
<1>2. ASSUME NEW d \in net, Receive(d)
      PROVE  Inv'
  BY <1>2, ReceiveInv
<1>3. ASSUME NEW d \in net, Serve(d)
      PROVE  Inv'
  BY <1>3, ServeInv
<1>4. ASSUME NEW d \in net, Lose(d)
      PROVE  Inv'
  BY <1>4 DEF Lose, Inv, InFlight
<1>5. CASE Timeout
  BY <1>5, TimeoutInv
<1>6. CASE IoError
  <2>1. /\ session' = Ends(session, "io") /\ net' = net /\ sent' = sent
        /\ answered' = answered /\ SessionRec(session)
    BY <1>6 DEF IoError, Inv
  <2> QED BY <2>1, EndInv DEF Inv
<1>7. CASE UNCHANGED vars
  BY <1>7 DEF vars, Inv, InFlight
<1>8. CASE Tick
  <2>1. UNCHANGED <<session, net, sent, answered>>
    BY <1>8 DEF Tick
  <2> QED BY <2>1 DEF Inv, InFlight
<1> QED BY <1>1, <1>2, <1>3, <1>4, <1>5, <1>6, <1>7, <1>8 DEF Next

\* The time that is left of a wait is never more than the whole of it.
Timer == remaining \in 0..Wait

LEMMA NextTimer == Timer /\ [Next]_vars => Timer'
<1> SUFFICES ASSUME Timer, [Next]_vars
    PROVE  Timer'
    OBVIOUS
<1> DEFINE Timed == \/ remaining' \in {remaining, Wait}
                    \/ remaining > 0 /\ remaining' = remaining - 1
<1>1. ASSUME NEW op \in Ops, NEW path \in Paths, Start(op, path)
      PROVE  Timed
  BY <1>1 DEF Start, Request
<1>2. ASSUME NEW d \in net, Receive(d)
      PROVE  Timed
  BY <1>2 DEF Receive, Continue, Request, Stray
<1>3. ASSUME NEW d \in net, Serve(d)
      PROVE  Timed
  BY <1>3 DEF Serve
<1>4. ASSUME NEW d \in net, Lose(d)
      PROVE  Timed
  BY <1>4 DEF Lose
<1>5. ASSUME Timeout
      PROVE  Timed
  BY <1>5 DEF Timeout
<1>6. ASSUME Tick
      PROVE  Timed
  BY <1>6 DEF Tick
<1>7. ASSUME IoError \/ UNCHANGED vars
      PROVE  Timed
  BY <1>7 DEF IoError, vars
<1>8. Timed => Timer'
  BY NumbersAssumption DEF Timer
<1> HIDE DEF Timed
<1> QED BY <1>1, <1>2, <1>3, <1>4, <1>5, <1>6, <1>7, <1>8 DEF Next

\* Every reachable state satisfies the invariant.
THEOREM Invariance == Spec => []Inv
<1>1. Init => Inv
  BY InitInv
<1>2. Inv /\ [Next]_vars => Inv'
  BY NextInv
<1> QED BY <1>1, <1>2, PTL DEF Spec

\* The session is well formed, its sequence number stays within its width, and no
\* request is sent more often than attempts allows (Session::request).
THEOREM TypeCorrect == Spec => []TypeOK
<1>1. Inv /\ Timer => TypeOK
  BY DEF Inv, Timer, TypeOK, SessionRec, InFlight, Datagram
<1>2. Init => Timer
  BY NumbersAssumption DEF Init, Timer
<1> QED BY <1>1, <1>2, NextTimer, Invariance, PTL DEF Spec

\* The key is the one granted for the last answered request, although sequence numbers
\* wrap and replies are late, repeated and out of order (request, await_reply).
THEOREM KeyIsCurrent == Spec => []KeyCurrent
<1>1. Inv => KeyCurrent
  BY DEF Inv, KeyCurrent
<1> QED BY <1>1, Invariance, PTL

\* get_file returns the file, for every length of file and block (get_file).
THEOREM FileIsExact == Spec => []FileExact
<1>1. Inv => FileExact
  BY DEF Inv, FileOf, FileExact
<1> QED BY <1>1, Invariance, PTL

----------------------------------------------------------------------------
(* Directory blocks. What the recursive definitions compute is shown by    *)
(* counting up (LineProofs).                                               *)

\* parse_directory yields entries, and none from a block without any.
LEMMA ParsedEntries ==
    ASSUME NEW block \in Seq(DirEntry)
    PROVE  /\ parse_directory(block) \in Seq(DirEntry)
           /\ block = Empty => parse_directory(block) = Empty
<1> DEFINE Keeps(i) == /\ \A j \in 1..i : block[j].kind \notin {"skip", "end"}
                       /\ block[i].kind \in {"file", "dir"}
           Walk(g, n) == [i \in 0..n |-> IF i = 0 THEN Empty
                                         ELSE IF Keeps(i) THEN Append(g[i - 1], block[i])
                                         ELSE g[i - 1]]
           N == Len(block)
           step == [i \in 1..N |-> [v \in Seq(DirEntry) |->
                                     IF Keeps(i) THEN Append(v, block[i]) ELSE v]]
<1>1. N \in Nat /\ \A i \in 1..N : block[i] \in DirEntry
  OBVIOUS
<1>2. step \in [1..N -> [Seq(DirEntry) -> Seq(DirEntry)]]
  <2> HIDE DEF Keeps
  <2>1. \A i \in 1..N : \A v \in Seq(DirEntry) : Append(v, block[i]) \in Seq(DirEntry)
    BY <1>1
  <2> QED BY <2>1
<1>3. Empty \in Seq(DirEntry)
  BY DEF Empty
<1>4. \E g : g = Walk(g, N)
  <2>1. PICK g \in [0..N -> Seq(DirEntry)] :
           g[0] = Empty /\ \A i \in 1..N : g[i] = step[i][g[i - 1]]
    <3>1. step \in L!Steps(Seq(DirEntry), N)
      BY <1>2 DEF L!Steps
    <3> HIDE DEF step
    <3>2. \E g : L!Iterated(g, Seq(DirEntry), N, Empty, step)
      BY <1>1, <1>3, <3>1, L!Iterates
    <3> QED BY <3>2 DEF L!Iterated
  <2> HIDE DEF Keeps
  <2>2. ASSUME NEW i \in 0..N
        PROVE  g[i] = Walk(g, N)[i]
    <3>1. CASE i = 0
      BY <2>1, <3>1
    <3>2. CASE i # 0
      <4>1. i \in 1..N /\ i - 1 \in 0..N
        BY <1>1, <3>2
      <4>2. g[i - 1] \in Seq(DirEntry)
        BY <4>1
      <4>3. step[i][g[i - 1]] = IF Keeps(i) THEN Append(g[i - 1], block[i]) ELSE g[i - 1]
        BY <4>1, <4>2
      <4> HIDE DEF step
      <4> QED BY <2>1, <3>2, <4>1, <4>3
    <3> QED BY <3>1, <3>2
  <2>3. g = [i \in 0..N |-> g[i]]
    BY <2>1
  <2>4. [i \in 0..N |-> g[i]] = Walk(g, N)
    BY <2>2
  <2> HIDE DEF Walk
  <2> QED BY <2>3, <2>4
<1> DEFINE walked == CHOOSE entries : entries = Walk(entries, N)
<1>5. walked = Walk(walked, N)
  <2> HIDE DEF Walk
  <2> QED BY <1>4
<1>6. parse_directory(block) = walked[N]
  BY DEF parse_directory
<1> HIDE DEF walked
<1>7. \A n \in 0..N : walked[n] \in Seq(DirEntry)
  <2> DEFINE Holds == {n \in 0..N : walked[n] \in Seq(DirEntry)}
  <2>1. 0 \in Holds
    BY <1>1, <1>5 DEF Empty
  <2>2. ASSUME NEW i \in 1..N, i - 1 \in Holds
        PROVE  i \in Holds
    <3>1. walked[i - 1] \in Seq(DirEntry) /\ block[i] \in DirEntry
      BY <1>1, <2>2
    <3>2. walked[i] \in {Append(walked[i - 1], block[i]), walked[i - 1]}
      <4> HIDE DEF Keeps
      <4>1. i \in 0..N /\ i # 0
        BY <1>1
      <4>2. Walk(walked, N)[i] = IF Keeps(i) THEN Append(walked[i - 1], block[i])
                                            ELSE walked[i - 1]
        BY <4>1
      <4> HIDE DEF Walk
      <4> QED BY <1>5, <4>2
    <3>3. Append(walked[i - 1], block[i]) \in Seq(DirEntry)
      BY <3>1
    <3>4. walked[i] \in Seq(DirEntry)
      BY <3>1, <3>2, <3>3
    <3> QED BY <1>1, <3>4
  <2>3. \A i \in 0..N : i \in Holds
    <3> HIDE DEF Holds
    <3> QED BY <1>1, <2>1, <2>2, L!CountUp
  <2> QED BY <2>3
<1>8. block = Empty => walked[N] = Empty
  <2> SUFFICES ASSUME block = Empty PROVE walked[N] = Empty
    OBVIOUS
  <2>1. N = 0
    BY DEF Empty
  <2> HIDE DEF Keeps
  <2> QED BY <1>5, <2>1
<1> QED BY <1>1, <1>6, <1>7, <1>8

\* BlockStart is what its definition says: the lengths of the blocks before, added up.
LEMMA BlockStarts ==
    /\ Len(Directory) \in Nat
    /\ \A k \in 1..Len(Directory) :
         /\ BlockStart[k] \in Nat
         /\ BlockStart[k] = IF k = 1 THEN 0 ELSE BlockStart[k - 1] + Len(Directory[k - 1])
<1> DEFINE N == Len(Directory)
           Sum(g, n) == [k \in 1..n |-> IF k = 1 THEN 0 ELSE g[k - 1] + Len(Directory[k - 1])]
           Exists(n) == \E g : g = Sum(g, n)
<1>1. N \in Nat /\ \A i \in 1..N : Directory[i] \in Seq(DirEntry) /\ Len(Directory[i]) \in Nat
  BY ContentAssumption
<1>2. Exists(0)
  <2> DEFINE g == [k \in 1..0 |-> 0]
  <2>1. g = Sum(g, 0)
    OBVIOUS
  <2> QED BY <2>1
<1>3. ASSUME NEW n \in 1..N, Exists(n - 1)
      PROVE  Exists(n)
  <2>1. PICK g : g = Sum(g, n - 1)
    BY <1>3
  <2> DEFINE last == IF n = 1 THEN 0 ELSE g[n - 1] + Len(Directory[n - 1])
             h == [k \in 1..n |-> IF k = n THEN last ELSE g[k]]
  <2>2. ASSUME NEW k \in 1..n
        PROVE  h[k] = Sum(h, n)[k]
    <3>1. CASE k = n
      BY <3>1
    <3>2. CASE k < n
      <4>1. k \in 1..(n - 1) /\ h[k] = g[k] /\ (k # 1 => h[k - 1] = g[k - 1])
        BY <3>2
      <4>2. g[k] = Sum(g, n - 1)[k]
        <5> HIDE DEF Sum
        <5> QED BY <2>1
      <4> QED BY <4>1, <4>2
    <3> QED BY <3>1, <3>2
  <2>3. h = Sum(h, n)
    <3> HIDE DEF last
    <3> QED BY <2>2
  <2> QED BY <2>3
<1>4. Exists(N)
  <2> DEFINE Holds == {n \in 0..N : Exists(n)}
  <2> HIDE DEF Exists
  <2>1. 0 \in Holds /\ \A i \in 1..N : i - 1 \in Holds => i \in Holds
    BY <1>1, <1>2, <1>3
  <2>2. \A i \in 0..N : i \in Holds
    <3> HIDE DEF Holds
    <3> QED BY <1>1, <2>1, L!CountUp
  <2> QED BY <1>1, <2>2
<1>5. BlockStart = Sum(BlockStart, N)
  <2>1. \E g : g = Sum(g, N)
    BY <1>4
  <2>2. BlockStart = CHOOSE g : g = Sum(g, N)
    BY DEF BlockStart
  <2> HIDE DEF Sum
  <2> QED BY <2>1, <2>2
<1>6. \A k \in 1..N :
        BlockStart[k] = IF k = 1 THEN 0 ELSE BlockStart[k - 1] + Len(Directory[k - 1])
  <2> SUFFICES ASSUME NEW k \in 1..N
               PROVE  BlockStart[k] = Sum(BlockStart, N)[k]
    OBVIOUS
  <2> HIDE DEF Sum
  <2> QED BY <1>5
<1>7. \A k \in 1..N : BlockStart[k] \in Nat
  <2> DEFINE Holds == {n \in 0..N : n = 0 \/ BlockStart[n] \in Nat}
  <2>1. 0 \in Holds
    BY <1>1
  <2>2. ASSUME NEW i \in 1..N, i - 1 \in Holds
        PROVE  i \in Holds
    <3>1. i # 1 => BlockStart[i - 1] \in Nat /\ Len(Directory[i - 1]) \in Nat
      BY <1>1, <2>2
    <3> QED BY <1>1, <1>6, <3>1
  <2>3. \A i \in 0..N : i \in Holds
    <3> HIDE DEF Holds
    <3> QED BY <1>1, <2>1, <2>2, L!CountUp
  <2> QED BY <2>3
<1> QED BY <1>1, <1>6, <1>7

\* Listing is what its definition says: the entries of the blocks, one after another.
LEMMA Listings ==
    /\ Listing[0] = Empty
    /\ \A k \in 1..Len(Directory) :
         /\ parse_directory(Directory[k]) \in Seq(DirEntry)
         /\ Listing[k - 1] \in Seq(DirEntry)
         /\ Listing[k] = Listing[k - 1] \o parse_directory(Directory[k])
<1> DEFINE N == Len(Directory)
           Plus(list, k) == list \o parse_directory(Directory[k])
           Joined(g, n) == [k \in 0..n |-> IF k = 0 THEN Empty ELSE Plus(g[k - 1], k)]
           Exists(n) == \E g : g = Joined(g, n)
<1>1. /\ N \in Nat
      /\ \A i \in 1..N : Directory[i] \in Seq(DirEntry)
  BY ContentAssumption
<1>2. \A i \in 1..N : parse_directory(Directory[i]) \in Seq(DirEntry)
  BY <1>1, ParsedEntries
<1>3. Exists(0)
  <2> DEFINE g == [k \in 0..0 |-> Empty]
  <2>1. g = Joined(g, 0)
    OBVIOUS
  <2> QED BY <2>1
<1>4. ASSUME NEW n \in 1..N, Exists(n - 1)
      PROVE  Exists(n)
  <2>1. PICK g : g = Joined(g, n - 1)
    BY <1>4
  <2> DEFINE last == Plus(g[n - 1], n)
             h == [k \in 0..n |-> IF k = n THEN last ELSE g[k]]
  <2>2. ASSUME NEW k \in 0..n
        PROVE  h[k] = Joined(h, n)[k]
    <3> HIDE DEF Plus
    <3>1. CASE k = n
      BY <3>1
    <3>2. CASE k < n
      <4>1. k \in 0..(n - 1) /\ h[k] = g[k] /\ (k # 0 => h[k - 1] = g[k - 1])
        BY <3>2
      <4>2. g[k] = Joined(g, n - 1)[k]
        <5> HIDE DEF Joined
        <5> QED BY <2>1
      <4> QED BY <4>1, <4>2
    <3> QED BY <3>1, <3>2
  <2>3. h = Joined(h, n)
    <3> HIDE DEF last
    <3> QED BY <2>2
  <2> QED BY <2>3
<1>5. Exists(N)
  <2> DEFINE Holds == {n \in 0..N : Exists(n)}
  <2> HIDE DEF Exists
  <2>1. 0 \in Holds /\ \A i \in 1..N : i - 1 \in Holds => i \in Holds
    BY <1>1, <1>3, <1>4
  <2>2. \A i \in 0..N : i \in Holds
    <3> HIDE DEF Holds
    <3> QED BY <1>1, <2>1, L!CountUp
  <2> QED BY <1>1, <2>2
<1>6. Listing = Joined(Listing, N)
  <2>1. \E g : g = Joined(g, N)
    BY <1>5
  <2>2. Listing = CHOOSE g : g = Joined(g, N)
    BY DEF Listing
  <2> HIDE DEF Joined
  <2> QED BY <2>1, <2>2
<1>7. \A k \in 0..N : Listing[k] = IF k = 0 THEN Empty ELSE Plus(Listing[k - 1], k)
  <2> SUFFICES ASSUME NEW k \in 0..N
               PROVE  Listing[k] = Joined(Listing, N)[k]
    OBVIOUS
  <2> HIDE DEF Joined
  <2> QED BY <1>6
<1>8. \A k \in 0..N : Listing[k] \in Seq(DirEntry)
  <2> DEFINE Holds == {n \in 0..N : Listing[n] \in Seq(DirEntry)}
  <2>1. 0 \in Holds
    <3> HIDE DEF Plus
    <3>1. Listing[0] = <<>>
      BY <1>1, <1>7 DEF Empty
    <3>2. 0 \in 0..N
      BY <1>1
    <3>3. Listing[0] \in Seq(DirEntry)
      BY <3>1, Zenon, EmptySeq
    <3> QED BY <3>2, <3>3
  <2>2. ASSUME NEW i \in 1..N, i - 1 \in Holds
        PROVE  i \in Holds
    <3>1. Listing[i - 1] \in Seq(DirEntry) /\ parse_directory(Directory[i]) \in Seq(DirEntry)
      BY <1>2, <2>2
    <3>2. Listing[i] = Plus(Listing[i - 1], i)
      <4> HIDE DEF Plus
      <4> QED BY <1>1, <1>7
    <3>3. Listing[i] \in Seq(DirEntry)
      BY <3>1, <3>2
    <3> QED BY <1>1, <3>3
  <2>3. \A i \in 0..N : i \in Holds
    <3> HIDE DEF Holds
    <3> QED BY <1>1, <2>1, <2>2, L!CountUp
  <2> QED BY <2>3
<1>9. /\ Listing[0] = Empty
      /\ \A k \in 1..N : Listing[k - 1] \in Seq(DirEntry) /\ Listing[k] = Plus(Listing[k - 1], k)
  <2> HIDE DEF Plus
  <2> QED BY <1>1, <1>7, <1>8
<1> QED BY <1>2, <1>9

----------------------------------------------------------------------------
(* list.                                                                   *)

\* Each block but the last has an entry of a known kind.
Regular == \A k \in 1..(Len(Directory) - 1) : parse_directory(Directory[k]) # Empty

\* Where the first k - 1 blocks end.
StartOf(k) == IF k = 1 THEN 0 ELSE BlockStart[k - 1] + Len(Directory[k - 1])

\* In such a directory no two blocks start at the same position.
LEMMA StartsIncrease ==
    ASSUME Regular
    PROVE  \A k \in 1..Len(Directory) : \A j \in 1..(k - 1) : BlockStart[j] < BlockStart[k]
<1> DEFINE N == Len(Directory)
           Holds == {k \in 0..N : \A j \in 1..(k - 1) : BlockStart[j] < BlockStart[k]}
<1>1. N \in Nat /\ 0 \in Holds
  BY BlockStarts
<1>2. ASSUME NEW i \in 1..N, i - 1 \in Holds, NEW j \in 1..(i - 1)
      PROVE  BlockStart[j] < BlockStart[i]
  <2>1. i - 1 \in 1..(N - 1) /\ i - 1 \in 1..N /\ j \in 1..N
    BY <1>1
  <2>2. BlockStart[i] = BlockStart[i - 1] + Len(Directory[i - 1])
    BY <2>1, BlockStarts
  <2>3. Directory[i - 1] \in Seq(DirEntry) /\ parse_directory(Directory[i - 1]) # Empty
    BY <2>1, ContentAssumption DEF Regular
  <2>4. Directory[i - 1] # Empty
    BY <2>3, ParsedEntries
  <2>5. Len(Directory[i - 1]) \in Nat \ {0}
    BY <2>3, <2>4 DEF Empty
  <2>6. BlockStart[j] \in Nat /\ BlockStart[i - 1] \in Nat
    BY <2>1, BlockStarts
  <2>7. j = i - 1 \/ BlockStart[j] < BlockStart[i - 1]
    BY <1>2, <2>1
  <2> QED BY <2>2, <2>5, <2>6, <2>7
<1>3. \A i \in 1..N : i - 1 \in Holds => i \in Holds
  BY <1>1, <1>2
<1>4. \A i \in 0..N : i \in Holds
  <2> HIDE DEF Holds
  <2> QED BY <1>1, <1>3, L!CountUp
<1> QED BY <1>1, <1>4

\* What the server answers at the start of the k-th block, or past the last one.
LEMMA BlockAnswered ==
    ASSUME Regular, NEW k \in 1..(Len(Directory) + 1), NEW q, q.op = "list",
           q.path \notin Endless, q.pos = StartOf(k),
           k = Len(Directory) + 1 /\ k # 1 => parse_directory(Directory[k - 1]) # Empty
    PROVE  Answer(q) = IF k = Len(Directory) + 1 THEN Empty ELSE Directory[k]
<1> DEFINE N == Len(Directory)
           here == {j \in DOMAIN Directory : BlockStart[j] = q.pos}
<1>1. N \in Nat /\ DOMAIN Directory = 1..N
  BY ContentAssumption
<1>2. Answer(q) = IF here = {} THEN Empty ELSE Directory[CHOOSE j \in here : TRUE]
  BY DEF Answer
<1>3. CASE k \in 1..N
  <2>1. q.pos = BlockStart[k]
    BY <1>3, BlockStarts DEF StartOf
  <2>2. here = {k}
    <3> SUFFICES ASSUME NEW j \in 1..N, BlockStart[j] = BlockStart[k], j # k
                 PROVE  FALSE
      BY <1>1, <1>3, <2>1
    <3>1. BlockStart[j] \in Nat /\ BlockStart[k] \in Nat
      BY <1>3, BlockStarts
    <3>2. CASE j < k
      <4>1. j \in 1..(k - 1)
        BY <1>1, <3>2
      <4> QED BY <1>3, <3>1, <4>1, StartsIncrease
    <3>3. CASE k < j
      <4>1. k \in 1..(j - 1)
        BY <1>1, <1>3, <3>3
      <4> QED BY <3>1, <4>1, StartsIncrease
    <3> QED BY <1>1, <3>2, <3>3
  <2> HIDE DEF here
  <2>3. (CHOOSE j \in here : TRUE) = k /\ here # {}
    BY <2>2
  <2>4. Answer(q) = Directory[k]
    BY <1>2, <2>3
  <2>5. k # N + 1
    BY <1>1, <1>3
  <2> QED BY <2>4, <2>5
<1>4. CASE k = N + 1
  <2>1. here = {}
    <3> SUFFICES ASSUME NEW j \in 1..N, BlockStart[j] = q.pos
                 PROVE  FALSE
      BY <1>1
    <3>1. N \in 1..N /\ k # 1 /\ k - 1 = N
      BY <1>1, <1>4
    <3>2. q.pos = BlockStart[N] + Len(Directory[N])
      BY <3>1 DEF StartOf
    <3>3. Directory[N] \in Seq(DirEntry) /\ parse_directory(Directory[N]) # Empty
      BY <1>4, <3>1, ContentAssumption
    <3>4. Directory[N] # Empty
      BY <3>3, ParsedEntries
    <3>5. Len(Directory[N]) \in Nat \ {0}
      BY <3>3, <3>4 DEF Empty
    <3>6. BlockStart[j] \in Nat /\ BlockStart[N] \in Nat
      BY <3>1, BlockStarts
    <3>7. j = N \/ BlockStart[j] < BlockStart[N]
      <4>1. \A n \in Nat : \A i \in 1..n : i = n \/ i \in 1..(n - 1)
        OBVIOUS
      <4>2. j = N \/ j \in 1..(N - 1)
        BY <1>1, <4>1
      <4> QED BY <3>1, <4>2, StartsIncrease
    <3> QED BY <3>2, <3>5, <3>6, <3>7
  <2> HIDE DEF here
  <2> QED BY <1>2, <1>4, <2>1
<1> QED BY <1>1, <1>3, <1>4

\* A listing that is under way has the entries of the first k - 1 blocks, and asks for
\* what comes after them; it is past the last block only if that one had entries.
Listed(s, k) ==
    /\ s.offset = StartOf(k) /\ s.body = Listing[k - 1]
    /\ k = Len(Directory) + 1 /\ k # 1 => parse_directory(Directory[k - 1]) # Empty

ListSoFar(s) ==
    s.phase = "waiting" /\ s.op = "list" /\ s.path \notin Endless /\ Regular =>
        \E k \in 1..(Len(Directory) + 1) : Listed(s, k)

ListOf(s) ==
    s.op = "list" /\ s.result = "ok" /\ s.path \notin Endless /\ Regular => s.body = Listing[Len(Directory)]

\* A reply to list that is no refusal carries the block at its position.
ListReply(d) == d.to = "client" /\ d.op = "list" /\ ~d.err => d.data = Answer(d)

ListInv ==
    /\ \A d \in net : ListReply(d)
    /\ ListSoFar(session) /\ ListOf(session)

\* What one more reply makes of a listing: all of it, or the entries of one more block.
LEMMA OneBlockMore ==
    ASSUME Regular, NEW k \in 1..(Len(Directory) + 1), NEW s, NEW q, Listed(s, k),
           q.op = "list", q.path \notin Endless, q.pos = s.offset, q.data = Answer(q)
    PROVE  LET entries == parse_directory(q.data)
           IN  /\ entries = Empty => s.body \o entries = Listing[Len(Directory)]
               /\ entries # Empty => /\ k + 1 \in 1..(Len(Directory) + 1)
                                     /\ s.body \o entries = Listing[k]
                                     /\ s.offset + Len(q.data) = StartOf(k + 1)
                                     /\ parse_directory(Directory[k]) # Empty
<1> DEFINE N == Len(Directory)
           entries == parse_directory(q.data)
<1>1. N \in Nat
  BY BlockStarts
<1>2. q.data = IF k = N + 1 THEN Empty ELSE Directory[k]
  BY BlockAnswered DEF Listed
<1>3. CASE k = N + 1
  <2>1. entries = Empty
    <3>1. Empty \in Seq(DirEntry)
      BY DEF Empty
    <3> QED BY <1>2, <1>3, <3>1, ParsedEntries
  <2>2. Listing[N] \in Seq(DirEntry)
    <3>1. CASE N = 0
      BY <3>1, Listings DEF Empty
    <3>2. CASE N # 0
      <4>1. N \in 1..N
        BY <1>1, <3>2
      <4>2. /\ Listing[N - 1] \in Seq(DirEntry) /\ parse_directory(Directory[N]) \in Seq(DirEntry)
            /\ Listing[N] = Listing[N - 1] \o parse_directory(Directory[N])
        BY <4>1, Listings
      <4> QED BY <4>2
    <3> QED BY <3>1, <3>2
  <2>3. s.body = Listing[N]
    BY <1>1, <1>3 DEF Listed
  <2>4. Listing[N] \o Empty = Listing[N]
    BY <2>2, ConcatEmptySeq DEF Empty
  <2> QED BY <2>1, <2>3, <2>4
<1>4. CASE k \in 1..N
  <2>1. q.data = Directory[k]
    BY <1>1, <1>2, <1>4
  <2>2. s.body \o entries = Listing[k]
    BY <1>4, <2>1, Listings DEF Listed
  <2>3. entries = Empty => k = N
    BY <1>1, <1>4, <2>1 DEF Regular
  <2>4. s.offset = BlockStart[k]
    BY <1>4, BlockStarts DEF Listed, StartOf
  <2>5. s.offset + Len(q.data) = StartOf(k + 1)
    BY <1>1, <1>4, <2>1, <2>4 DEF StartOf
  <2> HIDE DEF entries
  <2>6. k + 1 \in 1..(N + 1)
    BY <1>1, <1>4
  <2> QED BY <2>1, <2>2, <2>3, <2>5, <2>6 DEF entries
<1> QED BY <1>1, <1>3, <1>4

\* A request leaves the listing what it is, and adds no reply.
LEMMA RequestLists ==
    ASSUME Inv, ListInv, NEW s, NEW pos, NEW rest \in SUBSET net, Request(s, pos, rest),
           SessionRec(s), s.result = "none",
           s.op = "list" /\ s.path \notin Endless /\ Regular =>
               \E k \in 1..(Len(Directory) + 1) :
                   /\ pos = StartOf(k) /\ s.body = Listing[k - 1]
                   /\ k = Len(Directory) + 1 /\ k # 1 => parse_directory(Directory[k - 1]) # Empty
    PROVE  ListInv'
<1> DEFINE seq == NextSequence(s.sequence)
<1>1. /\ session' = [s EXCEPT !.sequence = seq, !.attempt = 1, !.offset = pos]
      /\ net' \subseteq net \cup {Query(sent + 1, seq, s.key, s.op, s.path, pos)}
  BY DEF Request
<1> HIDE DEF seq
<1>2. /\ session'.offset = pos /\ session'.op = s.op /\ session'.body = s.body
      /\ session'.result = "none" /\ session'.path = s.path
  BY <1>1 DEF SessionRec
<1>3. \A d \in net' : ListReply(d)
  BY <1>1 DEF ListInv, ListReply, Query
<1>4. ListSoFar(session') /\ ListOf(session')
  BY <1>2 DEF ListSoFar, ListOf, Listed
<1> QED BY <1>3, <1>4 DEF ListInv, ListReply, ListSoFar, ListOf, Listed

\* A call that ends with a result other than a listing leaves nothing to show.
LEMMA EndLists ==
    ASSUME ListInv, NEW s, SessionRec(s), NEW result,
           session' = Ends(s, result), net' \subseteq net,
           result = "ok" /\ s.op = "list" /\ s.path \notin Endless /\ Regular => s.body = Listing[Len(Directory)]
    PROVE  ListInv'
<1>1. /\ session'.phase \in {"idle", "closed"} /\ session'.result = result
      /\ session'.op = s.op /\ session'.body = s.body /\ session'.path = s.path
  BY DEF Ends, SessionRec
<1>2. \A d \in net' : ListReply(d)
  BY DEF ListInv
<1>3. ListSoFar(session') /\ ListOf(session')
  BY <1>1 DEF ListSoFar, ListOf
<1> QED BY <1>2, <1>3 DEF ListInv, ListReply, ListSoFar, ListOf, Listed

\* A reply that matches is the block asked for, and list adds its entries or is done.
LEMMA ReceiveLists ==
    ASSUME Inv, ListInv, NEW d \in net, Receive(d)
    PROVE  ListInv'
<1>1. PICK rest \in {net, net \ {d}} :
         LET s == [session EXCEPT !.key = d.key] IN
         \/ Matches(d) /\ ~d.err /\ Continue(s, d.data, rest) /\ answered' = sent
         \/ /\ Matches(d) /\ d.err /\ session' = Ends(s, "refused")
            /\ net' = rest /\ answered' = sent /\ UNCHANGED sent
         \/ ~Matches(d) /\ net' = rest /\ UNCHANGED <<session, sent, answered>>
  BY DEF Receive
<1> DEFINE s == [session EXCEPT !.key = d.key]
<1>2. /\ SessionRec(session) /\ InFlight(d) /\ d.to = "client" /\ session.phase = "waiting"
      /\ session.result = "none"
  BY DEF Inv, Receive
<1>3. /\ s.op = session.op /\ s.offset = session.offset /\ s.body = session.body
      /\ s.result = "none" /\ s.phase = "waiting" /\ s.path = session.path
  BY <1>2 DEF SessionRec
<1>4. SessionRec(s)
  BY <1>2, <1>3 DEF SessionRec, InFlight, Datagram
<1>5. rest \subseteq net
  BY <1>1
<1> HIDE DEF s
<1>6. CASE ~Matches(d) /\ net' = rest /\ UNCHANGED <<session, sent, answered>>
  BY <1>5, <1>6 DEF ListInv, ListReply, ListSoFar, ListOf, Listed
<1>7. CASE Matches(d) /\ d.err /\ session' = Ends(s, "refused") /\ net' = rest
  BY <1>4, <1>5, <1>7, EndLists
<1>8. CASE Matches(d) /\ ~d.err /\ Continue(s, d.data, rest)
  <2> DEFINE entries == parse_directory(d.data)
             got == [s EXCEPT !.body = s.body \o (IF s.op = "list" THEN entries ELSE d.data)]
             ends == CASE s.op = "get_file" -> Last(d.data)
                       [] s.op = "list" -> entries = Empty
                       [] OTHER -> TRUE
  <2>1. /\ got.op = s.op /\ got.offset = s.offset /\ got.result = "none" /\ got.path = s.path
        /\ s.op = "list" => got.body = s.body \o entries
    BY <1>3, <1>4 DEF SessionRec
  <2>2. SessionRec(got)
    <3>1. got.body = s.body \o (IF s.op = "list" THEN entries ELSE d.data)
      BY <1>4 DEF SessionRec
    <3> QED BY <1>4, <3>1 DEF SessionRec
  <2>3. \/ ends /\ session' = Ends(got, "ok") /\ net' = rest
        \/ ~ends /\ Request(got, NextOffset(got, d.data), rest)
    BY <1>8 DEF Continue
  <2>4. s.op = "list" => /\ ends <=> entries = Empty
                         /\ NextOffset(got, d.data) = s.offset + Len(d.data)
    BY <2>1 DEF NextOffset
  <2> HIDE DEF got, ends, entries
  <2>5. ASSUME s.op = "list", s.path \notin Endless, Regular
        PROVE  /\ entries = Empty => s.body \o entries = Listing[Len(Directory)]
               /\ entries # Empty =>
                    \E k \in 1..(Len(Directory) + 1) :
                      /\ s.offset + Len(d.data) = StartOf(k) /\ s.body \o entries = Listing[k - 1]
                      /\ k = Len(Directory) + 1 /\ k # 1 => parse_directory(Directory[k - 1]) # Empty
    <3>1. d.ord = sent
      BY <1>8, MatchIsAnswer
    <3>2. d.op = "list" /\ d.pos = s.offset /\ d.path \notin Endless
      BY <1>2, <1>3, <2>5, <3>1 DEF InFlight
    <3>3. d.data = Answer(d)
      BY <1>2, <1>8, <3>2 DEF ListInv, ListReply
    <3>4. PICK k \in 1..(Len(Directory) + 1) : Listed(s, k)
      BY <1>2, <1>3, <2>5 DEF ListInv, ListSoFar, Listed
    <3>5. /\ entries = Empty => s.body \o entries = Listing[Len(Directory)]
          /\ entries # Empty => /\ k + 1 \in 1..(Len(Directory) + 1)
                                /\ s.body \o entries = Listing[k]
                                /\ s.offset + Len(d.data) = StartOf(k + 1)
                                /\ parse_directory(Directory[k]) # Empty
      BY <2>5, <3>2, <3>3, <3>4, OneBlockMore DEF entries
    <3>6. (k + 1) - 1 = k
      OBVIOUS
    <3>7. CASE entries = Empty
      BY <3>5, <3>7
    <3>8. CASE entries # Empty
      BY <3>5, <3>6, <3>8
    <3> QED BY <3>7, <3>8
  <2>6. CASE ends /\ session' = Ends(got, "ok") /\ net' = rest
    <3>1. got.op = "list" /\ got.path \notin Endless /\ Regular => got.body = Listing[Len(Directory)]
      BY <2>1, <2>4, <2>5, <2>6
    <3> QED BY <1>5, <2>2, <2>6, <3>1, EndLists
  <2>7. CASE ~ends /\ Request(got, NextOffset(got, d.data), rest)
    <3> DEFINE pos == NextOffset(got, d.data)
    <3>1. got.op = "list" /\ got.path \notin Endless /\ Regular =>
            \E k \in 1..(Len(Directory) + 1) :
               /\ pos = StartOf(k) /\ got.body = Listing[k - 1]
               /\ k = Len(Directory) + 1 /\ k # 1 => parse_directory(Directory[k - 1]) # Empty
      BY <2>1, <2>4, <2>5, <2>7
    <3> HIDE DEF pos
    <3>2. Request(got, pos, rest)
      BY <2>7 DEF pos
    <3> QED BY <1>5, <2>1, <2>2, <3>1, <3>2, RequestLists
  <2> QED BY <2>3, <2>6, <2>7
<1> QED BY <1>1, <1>6, <1>7, <1>8 DEF s

\* A reply to list repeats the request and carries the block at its position.
LEMMA ServeLists ==
    ASSUME Inv, ListInv, NEW q \in net, Serve(q)
    PROVE  ListInv'
<1> DEFINE bad == q.path \in Missing /\ q.op \in {"get_file", "list"}
           data == IF q.path \in Missing THEN Empty ELSE Answer(q)
           r == [q EXCEPT !.to = "client", !.key = q.ord, !.err = bad, !.data = data]
<1>1. Datagram(q)
  BY DEF Inv, InFlight
<1>2. net' \subseteq net \cup {r} /\ session' = session
  BY DEF Serve
<1>3. q.op = "list" /\ ~bad => data = Answer(q)
  OBVIOUS
<1> HIDE DEF bad, data
<1>4. r.op = q.op /\ r.path = q.path /\ r.pos = q.pos /\ r.err = bad /\ r.data = data
  BY <1>1 DEF Datagram
<1> HIDE DEF r
<1>5. Answer(r) = Answer(q)
  BY <1>4 DEF Answer
<1>6. ListReply(r)
  BY <1>3, <1>4, <1>5 DEF ListReply
<1>7. \A d \in net' : ListReply(d)
  BY <1>2, <1>6 DEF ListInv
<1> QED BY <1>2, <1>7 DEF ListInv, ListReply, ListSoFar, ListOf, Listed

\* Every step keeps what is known of listings.
LEMMA NextLists == Inv /\ ListInv /\ [Next]_vars => ListInv'
<1> SUFFICES ASSUME Inv, ListInv, [Next]_vars
    PROVE  ListInv'
    OBVIOUS
<1>1. ASSUME NEW op \in Ops, NEW path \in Paths, Start(op, path)
      PROVE  ListInv'
  <2> DEFINE s == [session EXCEPT !.phase = "waiting", !.op = op, !.path = path,
                                  !.body = Empty, !.result = "none"]
  <2>1. SessionRec(session)
    BY DEF Inv
  <2>2. s.body = Empty /\ s.result = "none"
    BY <2>1 DEF SessionRec
  <2>3. SessionRec(s)
    BY <1>1, <2>1, <2>2 DEF SessionRec
  <2>4. Request(s, 0, net)
    BY <1>1 DEF Start
  <2> HIDE DEF s
  <2>5. \E k \in 1..(Len(Directory) + 1) :
           /\ 0 = StartOf(k) /\ s.body = Listing[k - 1]
           /\ k = Len(Directory) + 1 /\ k # 1 => parse_directory(Directory[k - 1]) # Empty
    <3>1. 1 \in 1..(Len(Directory) + 1)
      BY BlockStarts
    <3>2. 0 = StartOf(1) /\ s.body = Listing[1 - 1]
      BY <2>2, Listings DEF StartOf
    <3> QED BY <3>1, <3>2
  <2> QED BY <2>2, <2>3, <2>4, <2>5, RequestLists
<1>2. ASSUME NEW d \in net, Receive(d)
      PROVE  ListInv'
  BY <1>2, ReceiveLists
<1>3. ASSUME NEW d \in net, Serve(d)
      PROVE  ListInv'
  BY <1>3, ServeLists
<1>4. ASSUME NEW d \in net, Lose(d)
      PROVE  ListInv'
  BY <1>4 DEF Lose, ListInv, ListReply, ListSoFar, ListOf, Listed
<1>5. CASE Timeout
  <2>1. SessionRec(session)
    BY DEF Inv
  <2>2. CASE /\ session' = [session EXCEPT !.attempt = @ + 1]
             /\ net' = net \cup {Query(sent, session.sequence, session.key, session.op,
                                       session.path, session.offset)}
    <3>1. /\ session'.phase = session.phase /\ session'.op = session.op
          /\ session'.offset = session.offset /\ session'.body = session.body
          /\ session'.result = session.result /\ session'.path = session.path
      BY <2>1, <2>2 DEF SessionRec
    <3>2. \A d \in net' : ListReply(d)
      BY <2>2 DEF ListInv, ListReply, Query
    <3>3. ListSoFar(session') /\ ListOf(session')
      BY <3>1 DEF ListInv, ListSoFar, ListOf, Listed
    <3> QED BY <3>2, <3>3 DEF ListInv, ListReply, ListSoFar, ListOf, Listed
  <2>3. CASE session' = Ends(session, "timeout") /\ UNCHANGED net
    BY <2>1, <2>3, EndLists
  <2> QED BY <1>5, <2>2, <2>3 DEF Timeout
<1>6. CASE IoError
  <2>1. SessionRec(session) /\ session' = Ends(session, "io") /\ net' = net
    BY <1>6 DEF Inv, IoError
  <2> QED BY <2>1, EndLists
<1>7. CASE UNCHANGED vars
  BY <1>7 DEF vars, ListInv, ListReply, ListSoFar, ListOf, Listed
<1>8. CASE Tick
  BY <1>8 DEF Tick, ListInv, ListReply, ListSoFar, ListOf, Listed
<1> QED BY <1>1, <1>2, <1>3, <1>4, <1>5, <1>6, <1>7, <1>8 DEF Next

\* list returns every entry of a known kind once and in order, for every directory in
\* which only the last block may be without one (list, parse_directory).
THEOREM ListIsExact == Spec => []ListExact
<1>1. Init => ListInv
  BY DEF Init, ListInv, ListReply, ListSoFar, ListOf
<1>2. Inv /\ ListInv /\ [Next]_vars => ListInv'
  BY NextLists
<1>3. ListInv => ListExact
  BY DEF ListInv, ListOf, ListExact, Regular
<1> QED BY <1>1, <1>2, <1>3, Invariance, PTL DEF Spec
================================================================================
