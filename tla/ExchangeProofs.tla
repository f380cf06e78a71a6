----------------------------- MODULE ExchangeProofs -----------------------------
(***************************************************************************)
(* Proofs about Exchange for every set of calls and replies, every limit   *)
(* and every size of the connection's window.                              *)
(***************************************************************************)
EXTENDS Exchange, LineProofs

----------------------------------------------------------------------------
(* What the modules of the protocols take from Lines.                      *)

\* The outcomes of a reader are the same in every module.
LEMMA SameOutcomes ==
    /\ G!More = More /\ S!More = More /\ N!More = More /\ F!More = More
    /\ P!More = More /\ H!More = More
  BY DEF More, G!More, S!More, N!More, F!More, P!More, H!More

\* SplitHeader and SplitOnce are the same in every module.
LEMMA SameSplits ==
    /\ \A s : S!SplitHeader(s) = SplitHeader(s)
    /\ \A s, c : P!SplitOnce(s, c) = SplitOnce(s, c)
    /\ \A s : S!Number(s) = Number(s) /\ P!Number(s) = Number(s)
    /\ \A s, c : S!Split(s, c) = Split(s, c)
    /\ \A s, c, n : P!SplitN(s, c, n) = SplitN(s, c, n)
    /\ \A s, cut : S!TrimEnd(s, cut) = TrimEnd(s, cut)
<1>1. \A s : S!SplitHeader(s) = SplitHeader(s)
  BY DEF S!SplitHeader, SplitHeader, S!FirstOf, FirstOf, S!From, From, S!CR, CR, S!LF, LF
<1>2. \A s, c : P!SplitOnce(s, c) = SplitOnce(s, c)
  BY DEF P!SplitOnce, SplitOnce, P!Find, Find, P!FirstOf, FirstOf, P!From, From
<1>3. \A s : S!Number(s) = Number(s) /\ P!Number(s) = Number(s)
  BY DEF S!Number, P!Number, Number, S!Unsigned, P!Unsigned, Unsigned, S!DigitValue, P!DigitValue, DigitValue,
     S!Digits, P!Digits, Digits
<1>4. \A s, c : S!Split(s, c) = Split(s, c)
  BY DEF S!Split, Split, S!Pieces, Pieces, S!InOrder, InOrder
<1>5. \A s, c, n : P!SplitN(s, c, n) = SplitN(s, c, n)
  BY DEF P!SplitN, SplitN, P!Pieces, Pieces, P!InOrder, InOrder
<1>6. \A s, cut : S!TrimEnd(s, cut) = TrimEnd(s, cut)
  BY DEF S!TrimEnd, TrimEnd, S!LastOf, LastOf
<1> QED BY <1>1, <1>2, <1>3, <1>4, <1>5, <1>6

----------------------------------------------------------------------------
(* How long a reader goes on reading.                                      *)

\* A request line that is not complete is within the limit of its server.
LEMMA LineCap ==
    ASSUME NEW X, NEW bytes \in Seq(X), NEW end,
           NEW p \in {"gemini", "nex", "finger", "gopher", "scorpion"},
           Serve(p, bytes, end).kind = "more"
    PROVE  Len(bytes) <= MaxLine
<1>0. Len(bytes) \in Nat /\ MaxLine \in Nat
  BY ExchangeAssumption
<1>1. CASE p = "gemini"
  <2>1. G!Serve(bytes, end).kind = "more"
    BY <1>1 DEF Serve
  <2>2. \A line : G!ParseRequest(line).kind # "more"
    BY DEF G!ParseRequest, G!Answer, G!Ask
  <2>3. \A r : G!Answer(r).kind # "more"
    BY DEF G!Answer
  <2> QED BY <1>0, <2>1, <2>2, <2>3 DEF G!Serve, G!AtClose, G!Fail
<1>2. CASE p = "nex"
  <2>1. N!Serve(bytes, end).kind = "more"
    BY <1>2 DEF Serve
  <2>2. \A r : N!Ask(r).kind # "more"
    BY DEF N!Ask
  <2> QED BY <1>0, <2>1, <2>2 DEF N!Serve, N!AtClose, N!Fail, N!Close
<1>3. CASE p = "finger"
  <2>1. F!Serve(bytes, end).kind = "more"
    BY <1>3 DEF Serve
  <2>2. \A r : F!Ask(r).kind # "more"
    BY DEF F!Ask
  <2> QED BY <1>0, <2>1, <2>2 DEF F!Serve, F!AtClose, F!Fail, F!Close
<1>4. CASE p = "gopher"
  <2>1. H!Serve(bytes, end).kind = "more"
    BY <1>4 DEF Serve
  <2>2. \A line : H!ParseRequest(line).kind # "more"
    BY DEF H!ParseRequest, H!Ask
  <2> QED BY <1>0, <2>1, <2>2 DEF H!Serve, H!AtClose, H!Fail, H!Close
<1>5. CASE p = "scorpion"
  <2> DEFINE line == P!ReadLine(bytes, end, MaxLine)
             parts == P!SplitOnce(bytes, P!LF)
  <2>1. P!Serve(bytes, end).kind = "more"
    BY <1>5 DEF Serve
  <2>2. \A x : P!Parse(x).kind # "more"
    BY DEF P!Parse, P!Answer, P!Ask
  <2>3. line.kind = "more"
    <3> HIDE DEF line
    <3>1. P!Serve(bytes, end) =
            CASE line.kind = "more" -> P!More
              [] line.kind = "line" /\ (bytes # <<>> \/ end # "eof") -> P!Parse(P!StripCr(line.text))
              [] OTHER -> P!Fail
      BY DEF P!Serve, line
    <3> QED BY <2>1, <2>2, <3>1 DEF P!Fail
  <2>4. Len(parts) = 1 => parts[1] = bytes
    BY DEF P!SplitOnce
  <2>5. Len(parts) \in {1, 2}
    BY DEF P!SplitOnce
  <2>6. line = CASE Len(parts[1]) > MaxLine -> P!Err("protocol")
                 [] Len(parts[1]) <= MaxLine /\ Len(parts) = 2 ->
                      IF P!IsUtf8(parts[1]) THEN P!Line(parts[1], parts[2]) ELSE P!Err("protocol")
                 [] Len(parts[1]) <= MaxLine /\ Len(parts) = 1 ->
                      P!AtEnd(end, IF P!IsUtf8(bytes) THEN P!Line(bytes, <<>>) ELSE P!Err("protocol"))
    BY DEF P!ReadLine
  <2>7. P!Err("protocol").kind # "more" /\ \A a, b : P!Line(a, b).kind # "more"
    BY DEF P!Err, P!Line
  <2>8. Len(parts[1]) \in Nat
    <3>1. CASE Len(parts) = 1
      BY <1>0, <2>4, <3>1
    <3>2. CASE Len(parts) = 2
      <4> DEFINE at == {i \in DOMAIN bytes : bytes[i] = P!LF}
                 k == P!Find(bytes, P!LF)
      <4>1. at \in SUBSET Nat /\ at \in SUBSET (1..Len(bytes))
        BY <1>0
      <4>2. k = FirstOf(at)
        BY DEF P!Find, P!FirstOf, FirstOf
      <4>3. k # 0 /\ parts[1] = SubSeq(bytes, 1, k - 1)
        <5> HIDE DEF k
        <5>1. parts = IF k = 0 THEN <<bytes>> ELSE <<SubSeq(bytes, 1, k - 1), P!From(bytes, k + 1)>>
          BY DEF P!SplitOnce, k
        <5> DEFINE a == SubSeq(bytes, 1, k - 1)
                   b == P!From(bytes, k + 1)
        <5> HIDE DEF parts, a, b
        <5>2. parts = IF k = 0 THEN <<bytes>> ELSE <<a, b>>
          BY <5>1 DEF a, b
        <5>3. k # 0
          <6>1. Len(<<bytes>>) = 1
            OBVIOUS
          <6> QED BY <3>2, <5>2, <6>1
        <5>4. parts[1] = a
          BY <5>2, <5>3
        <5> QED BY <5>3, <5>4 DEF a
      <4> HIDE DEF at, k
      <4>4. k \in at
        BY <4>1, <4>2, <4>3, FirstPosition
      <4>5. k - 1 \in 0..Len(bytes)
        BY <1>0, <4>1, <4>4
      <4> HIDE DEF parts
      <4>6. Len(SubSeq(bytes, 1, k - 1)) = k - 1
        BY <4>5, FirstBytes
      <4>7. k - 1 \in Nat
        BY <4>5
      <4> QED BY <4>3, <4>6, <4>7
    <3> QED BY <2>5, <3>1, <3>2
  <2> HIDE DEF line, parts
  <2>9. Len(parts) = 1 /\ Len(parts[1]) <= MaxLine
    BY <1>0, <2>3, <2>5, <2>6, <2>7, <2>8
  <2> QED BY <2>4, <2>9
<1> QED BY <1>1, <1>2, <1>3, <1>4, <1>5

\* Where the first line of a stream has its CRLF, or 0.
HeaderEnd(b) == FirstOf({i \in 1..(Len(b) - 1) : b[i] = CR /\ b[i + 1] = LF})

\* The parts of a stream at its first CRLF.
LEMMA HeaderParts ==
    ASSUME NEW X, NEW b \in Seq(X)
    PROVE  LET k == HeaderEnd(b) IN
           /\ k \in Nat /\ SplitHeader(b) \in Seq(Seq(X))
           /\ k = 0 => /\ SplitHeader(b) = <<b>> /\ Len(SplitHeader(b)) = 1
                       /\ \A i \in 1..(Len(b) - 1) : ~(b[i] = CR /\ b[i + 1] = LF)
           /\ k # 0 => /\ k \in 1..(Len(b) - 1) /\ b[k] = CR /\ b[k + 1] = LF
                       /\ \A i \in 1..(k - 1) : ~(b[i] = CR /\ b[i + 1] = LF)
                       /\ Len(SplitHeader(b)) = 2 /\ Len(SplitHeader(b)[1]) = k - 1
                       /\ Len(SplitHeader(b)[2]) = Len(b) - (k + 1)
<1> DEFINE at == {i \in 1..(Len(b) - 1) : b[i] = CR /\ b[i + 1] = LF}
           k == HeaderEnd(b)
           parts == SplitHeader(b)
<1>1. Len(b) \in Nat /\ at \in SUBSET Nat /\ k = FirstOf(at)
  BY DEF HeaderEnd
<1>2. parts = IF k = 0 THEN <<b>> ELSE <<SubSeq(b, 1, k - 1), From(b, k + 2)>>
  BY DEF SplitHeader, HeaderEnd
<1> HIDE DEF k, parts
<1>3. CASE at = {}
  <2> HIDE DEF at
  <2>1. k = 0
    BY <1>1, <1>3, FirstPosition
  <2>2. parts = <<b>>
    BY <1>2, <2>1
  <2>3. \A i \in 1..(Len(b) - 1) : ~(b[i] = CR /\ b[i + 1] = LF)
    BY <1>3 DEF at
  <2> QED BY <2>1, <2>2, <2>3 DEF k, parts
<1>4. CASE at # {}
  <2>1. k \in at /\ \A j \in at : k <= j
    <3> HIDE DEF at
    <3> QED BY <1>1, <1>4, FirstPosition
  <2>2. k \in 1..(Len(b) - 1) /\ b[k] = CR /\ b[k + 1] = LF
    BY <2>1
  <2>3. ASSUME NEW i \in 1..(k - 1)
        PROVE  ~(b[i] = CR /\ b[i + 1] = LF)
    <3>1. i \in 1..(Len(b) - 1) /\ ~(k <= i)
      BY <1>1, <2>2
    <3> QED BY <2>1, <3>1
  <2> HIDE DEF at
  <2>4. k # 0 /\ k \in Nat
    BY <1>1, <2>2
  <2>5. parts = <<SubSeq(b, 1, k - 1), From(b, k + 2)>>
    BY <1>2, <2>4
  <2>6. SubSeq(b, 1, k - 1) \in Seq(X) /\ Len(SubSeq(b, 1, k - 1)) = k - 1
    <3>1. k - 1 \in 0..Len(b)
      BY <1>1, <2>2
    <3> QED BY <3>1, FirstBytes
  <2>7. From(b, k + 2) \in Seq(X) /\ Len(From(b, k + 2)) = Len(b) - (k + 1)
    <3>1. CASE k + 2 <= Len(b)
      BY <1>1, <2>2, <3>1 DEF From
    <3>2. CASE k + 1 = Len(b)
      <4>1. From(b, k + 2) = <<>>
        BY <1>1, <2>2, <3>2 DEF From
      <4>2. Len(b) - (k + 1) = 0
        BY <1>1, <2>2, <3>2
      <4>3. <<>> \in Seq(X) /\ Len(<<>>) = 0
        OBVIOUS
      <4> QED BY <4>1, <4>2, <4>3
    <3> QED BY <1>1, <2>2, <3>1, <3>2
  <2> DEFINE x == SubSeq(b, 1, k - 1)
             y == From(b, k + 2)
  <2>8. parts \in Seq(Seq(X)) /\ Len(parts) = 2 /\ parts[1] = x /\ parts[2] = y
    <3>1. parts = <<x, y>> /\ x \in Seq(X) /\ y \in Seq(X)
      BY <2>5, <2>6, <2>7
    <3> HIDE DEF x, y
    <3> QED BY <3>1
  <2> QED BY <2>2, <2>3, <2>4, <2>6, <2>7, <2>8 DEF k, parts
<1> QED BY <1>3, <1>4

\* With one byte more the first CRLF stays where it was, or it ends with that byte.
LEMMA HeaderGrows ==
    ASSUME NEW X, NEW s \in Seq(X), NEW r \in Nat, r + 1 <= Len(s)
    PROVE  LET k == HeaderEnd(SubSeq(s, 1, r))
               l == HeaderEnd(SubSeq(s, 1, r + 1))
           IN  (k # 0 => l = k) /\ (k = 0 => l \in {0, r})
<1> DEFINE a == SubSeq(s, 1, r)
           b == SubSeq(s, 1, r + 1)
           k == HeaderEnd(a)
           l == HeaderEnd(b)
<1>1. a \in Seq(X) /\ Len(a) = r /\ \A i \in 1..r : a[i] = s[i]
  <2>1. r \in 0..Len(s)
    OBVIOUS
  <2> QED BY <2>1, FirstBytes
<1>2. b \in Seq(X) /\ Len(b) = r + 1 /\ \A i \in 1..(r + 1) : b[i] = s[i]
  <2>1. r + 1 \in 0..Len(s)
    OBVIOUS
  <2> QED BY <2>1, FirstBytes
<1> HIDE DEF a, b
<1>3. \A i \in 1..r : b[i] = a[i]
  BY <1>1, <1>2
<1>4. /\ k \in Nat
      /\ k = 0 => \A i \in 1..(r - 1) : ~(a[i] = CR /\ a[i + 1] = LF)
      /\ k # 0 => /\ k \in 1..(r - 1) /\ a[k] = CR /\ a[k + 1] = LF
                  /\ \A i \in 1..(k - 1) : ~(a[i] = CR /\ a[i + 1] = LF)
  BY <1>1, HeaderParts
<1>5. /\ l \in Nat
      /\ l = 0 => \A i \in 1..r : ~(b[i] = CR /\ b[i + 1] = LF)
      /\ l # 0 => /\ l \in 1..r /\ b[l] = CR /\ b[l + 1] = LF
                  /\ \A i \in 1..(l - 1) : ~(b[i] = CR /\ b[i + 1] = LF)
  <2>1. (r + 1) - 1 = r
    OBVIOUS
  <2> QED BY <1>2, <2>1, HeaderParts
<1> HIDE DEF k, l
<1>6. ASSUME NEW i \in 1..(r - 1)
      PROVE  b[i] = a[i] /\ b[i + 1] = a[i + 1]
  BY <1>3
<1>7. CASE k # 0
  <2>1. k \in 1..(r - 1) /\ b[k] = CR /\ b[k + 1] = LF
    BY <1>4, <1>6, <1>7
  <2>2. l # 0
    BY <1>5, <2>1
  <2>3. ~(k < l)
    <3> SUFFICES ASSUME k < l PROVE FALSE
      OBVIOUS
    <3>1. k \in 1..(l - 1)
      BY <1>4, <1>5, <2>1
    <3> QED BY <1>5, <2>1, <2>2, <3>1
  <2>4. ~(l < k)
    <3> SUFFICES ASSUME l < k PROVE FALSE
      OBVIOUS
    <3>1. l \in 1..(k - 1) /\ l \in 1..(r - 1)
      BY <1>5, <2>1, <2>2
    <3>2. a[l] = CR /\ a[l + 1] = LF
      BY <1>5, <1>6, <2>2, <3>1
    <3> QED BY <1>4, <1>7, <3>1, <3>2
  <2> QED BY <1>4, <1>5, <1>7, <2>3, <2>4 DEF k, l, a, b
<1>8. CASE k = 0
  <2>1. l \in 1..(r - 1) => FALSE
    BY <1>4, <1>5, <1>6, <1>8
  <2>2. l = 0 \/ l = r
    BY <1>5, <2>1
  <2> QED BY <1>8, <2>2 DEF k, l, a, b
<1> QED BY <1>7, <1>8

\* The three things ParseLine can do with a line that is well formed.
LEMMA SpartanLine ==
    ASSUME NEW X, NEW line \in Seq(X), NEW data \in Seq(X), NEW end
    PROVE  LET o == S!ParseLine(line, data, end)
           IN  /\ o.kind = "more" => Len(data) < MaxUpload
               /\ o.kind = "ask" => Len(o.request.data) <= MaxUpload
<1> DEFINE o == S!ParseLine(line, data, end)
           fields == S!Split(S!TrimEnd(line, {S!CR, S!LF}), S!SP)
           length == S!Number(fields[3])
           Bad == \/ ~S!IsUtf8(line) \/ Len(fields) # 3
                  \/ ~S!GoodHost(fields[1])
                  \/ fields[2] = <<>> \/ Head(fields[2]) # "/"
                  \/ ~S!IsNumber(fields[3]) \/ length > MaxUpload
<1>0. MaxUpload \in Nat /\ Len(data) \in Nat
  BY ExchangeAssumption
<1>1. fields \in Seq(Seq(X))
  <2> DEFINE t == S!TrimEnd(line, {S!CR, S!LF})
  <2>1. t \in Seq(X)
    BY SameSplits, TrimTyped
  <2> HIDE DEF t
  <2>2. S!Split(t, S!SP) \in Seq(Seq(X))
    BY <2>1, SameSplits, SplitTexts
  <2> QED BY <2>2 DEF t
<1>2. ~Bad => length \in Nat /\ length <= MaxUpload
  <2> HIDE DEF fields
  <2> SUFFICES ASSUME ~Bad PROVE length \in Nat /\ length <= MaxUpload
    OBVIOUS
  <2>1. Len(fields) = 3 /\ S!IsNumber(fields[3]) /\ ~(length > MaxUpload)
    OBVIOUS
  <2>2. fields[3] \in Seq(X)
    <3> DEFINE Y == Seq(X)
    <3>1. fields \in Seq(Y)
      BY <1>1
    <3> HIDE DEF Y
    <3>2. 3 \in 1..Len(fields)
      BY <2>1
    <3>3. fields[3] \in Y
      BY <3>1, <3>2, ElementOfSeq
    <3> QED BY <3>3 DEF Y
  <2>3. IsNumber(fields[3])
    BY <2>1 DEF S!IsNumber, IsNumber, S!Unsigned, Unsigned, S!IsDigit, IsDigit
  <2>4. length \in Nat
    BY <2>2, <2>3, NumberTyped, SameSplits
  <2> HIDE DEF length
  <2> QED BY <1>0, <2>1, <2>4
<1>3. o = IF Bad THEN S!Refusal
          ELSE IF S!BlockRead(data, length)
          THEN S!Ask([host |-> fields[1], path |-> fields[2], data |-> S!Take(data, length)])
          ELSE S!UnlessEnded(end)
  BY DEF S!ParseLine
<1> HIDE DEF o, fields, length, Bad
<1>4. S!Refusal.kind = "reply" /\ S!UnlessEnded(end).kind \in {"fail", "more"}
  BY DEF S!Refusal, S!Answer, S!UnlessEnded, S!Fail, S!More
<1>5. \A q : S!Ask(q).kind = "ask" /\ S!Ask(q).request = q
  BY DEF S!Ask
<1>6. S!Ask([host |-> fields[1], path |-> fields[2], data |-> S!Take(data, length)]).kind = "ask"
  BY <1>5
<1>7. o.kind = "more" => ~Bad /\ ~S!BlockRead(data, length)
  BY <1>3, <1>4, <1>6
<1>8. o.kind = "ask" => /\ ~Bad /\ S!BlockRead(data, length)
                        /\ o = S!Ask([host |-> fields[1], path |-> fields[2],
                                      data |-> S!Take(data, length)])
  BY <1>3, <1>4, <1>6
<1>9. o.kind = "more" => Len(data) < MaxUpload
  BY <1>0, <1>2, <1>7 DEF S!BlockRead
<1>10. o.kind = "ask" => Len(o.request.data) <= MaxUpload
  <2> SUFFICES ASSUME o.kind = "ask" PROVE Len(o.request.data) <= MaxUpload
    OBVIOUS
  <2>1. o.request.data = S!Take(data, length)
    BY <1>5, <1>8
  <2>2. length \in 0..Len(data) /\ length <= MaxUpload
    BY <1>0, <1>2, <1>8 DEF S!BlockRead
  <2>3. S!Take(data, length) = SubSeq(data, 1, length)
    BY <1>0, <2>2 DEF S!Take
  <2>4. Len(SubSeq(data, 1, length)) = length
    BY <2>2, FirstBytes
  <2> QED BY <2>1, <2>2, <2>3, <2>4
<1> QED BY <1>9, <1>10 DEF o

\* A spartan request that is not complete has a line within the limit, or less after the
\* line than max_upload; a block that is handed on is within max_upload.
LEMMA SpartanCap ==
    ASSUME NEW X, NEW bytes \in Seq(X), NEW end
    PROVE  LET o == Serve("spartan", bytes, end)
               k == HeaderEnd(bytes)
           IN  /\ o.kind = "more" => /\ k = 0 => Len(bytes) < MaxLine
                                     /\ k # 0 => Len(bytes) < k + 1 + MaxUpload
               /\ o.kind = "ask" => Len(o.request.data) <= MaxUpload
<1> DEFINE o == Serve("spartan", bytes, end)
           k == HeaderEnd(bytes)
           parts == SplitHeader(bytes)
<1>0. MaxUpload \in Nat /\ MaxLine \in Nat /\ Len(bytes) \in Nat
  BY ExchangeAssumption
<1>1. o = CASE Len(parts) = 2 -> S!ParseLine(parts[1], parts[2], end)
            [] Len(parts) = 1 /\ Len(bytes) >= MaxLine -> S!Refusal
            [] OTHER -> S!AtClose(end, S!ParseLine(bytes, <<>>, end))
  <2>1. o = S!Serve(bytes, end)
    BY DEF Serve
  <2>2. S!SplitHeader(bytes) = parts
    BY SameSplits
  <2> HIDE DEF o, parts
  <2> QED BY <2>1, <2>2 DEF S!Serve
<1>2. /\ k \in Nat /\ parts \in Seq(Seq(X))
      /\ k = 0 => Len(parts) = 1
      /\ k # 0 => /\ k \in 1..(Len(bytes) - 1) /\ Len(parts) = 2
                  /\ Len(parts[2]) = Len(bytes) - (k + 1)
  BY HeaderParts
<1> HIDE DEF o, k, parts
<1>21. (k = 0 => Len(parts) = 1) /\ (k # 0 => Len(parts) = 2)
  BY <1>2
<1>3. S!Refusal.kind = "reply" /\ S!Fail.kind = "fail" /\ S!More.kind = "more"
  BY DEF S!Refusal, S!Answer, S!Fail, S!More
<1>4. CASE k = 0
  <2>1. <<>> \in Seq(X) /\ Len(<<>>) = 0
    OBVIOUS
  <2>2. CASE Len(bytes) >= MaxLine
    <3>1. o = S!Refusal
      BY <1>1, <1>21, <1>4, <2>2
    <3> QED BY <1>3, <1>4, <3>1 DEF o, k
  <2>3. CASE ~(Len(bytes) >= MaxLine)
    <3>1. o = S!AtClose(end, S!ParseLine(bytes, <<>>, end))
      BY <1>1, <1>21, <1>4, <2>3
    <3>2. o.kind = "ask" => o = S!ParseLine(bytes, <<>>, end)
      BY <1>3, <3>1 DEF S!AtClose
    <3>3. o.kind = "ask" => Len(o.request.data) <= MaxUpload
      BY <2>1, <3>2, SpartanLine
    <3> QED BY <1>0, <1>4, <2>3, <3>3 DEF o, k
  <2> QED BY <2>2, <2>3
<1>5. CASE k # 0
  <2>1. o = S!ParseLine(parts[1], parts[2], end)
    BY <1>1, <1>21, <1>5
  <2>2. parts[1] \in Seq(X) /\ parts[2] \in Seq(X)
    <3> DEFINE Y == Seq(X)
    <3>1. parts \in Seq(Y)
      BY <1>2
    <3> HIDE DEF Y
    <3>2. 1 \in 1..Len(parts) /\ 2 \in 1..Len(parts)
      BY <1>21, <1>5
    <3>3. parts[1] \in Y /\ parts[2] \in Y
      BY <3>1, <3>2, ElementOfSeq
    <3> QED BY <3>3 DEF Y
  <2>3. /\ o.kind = "more" => Len(parts[2]) < MaxUpload
        /\ o.kind = "ask" => Len(o.request.data) <= MaxUpload
    BY <2>1, <2>2, SpartanLine
  <2>4. o.kind = "more" => Len(bytes) < k + 1 + MaxUpload
    BY <1>0, <1>2, <1>5, <2>3
  <2> QED BY <1>5, <2>3, <2>4 DEF o, k
<1> QED BY <1>4, <1>5

----------------------------------------------------------------------------
(* How much a client keeps.                                                *)

\* take(n) keeps n bytes at most.
LEMMA TakeCap ==
    ASSUME NEW X, NEW rest \in Seq(X), NEW n \in Nat
    PROVE  Len(P!Take(rest, n)) <= n
<1>0. Len(rest) \in Nat
  OBVIOUS
<1>1. CASE n < Len(rest)
  <2>1. P!Take(rest, n) = SubSeq(rest, 1, n)
    BY <1>1 DEF P!Take
  <2>2. n \in 0..Len(rest)
    BY <1>0, <1>1
  <2>3. Len(SubSeq(rest, 1, n)) = n
    BY <2>2, FirstBytes
  <2> QED BY <2>1, <2>3
<1>2. CASE ~(n < Len(rest))
  <2>1. P!Take(rest, n) = SubSeq(rest, 1, Len(rest))
    BY <1>2 DEF P!Take
  <2>2. Len(rest) \in 0..Len(rest)
    BY <1>0
  <2>3. Len(SubSeq(rest, 1, Len(rest))) = Len(rest)
    BY <2>2, FirstBytes
  <2> QED BY <1>0, <1>2, <2>1, <2>3
<1> QED BY <1>1, <1>2

\* A line is read, or not yet, or it is an error; a line and what follows it are text.
LEMMA LineTyped ==
    ASSUME NEW X, NEW bytes \in Seq(X), NEW end, NEW limit \in Nat
    PROVE  LET line == P!ReadLine(bytes, end, limit)
           IN  /\ line.kind \in {"line", "more", "error"}
               /\ line.kind = "line" => line.text \in Seq(X) /\ line.rest \in Seq(X)
<1> DEFINE line == P!ReadLine(bytes, end, limit)
           parts == P!SplitOnce(bytes, P!LF)
           k == P!Find(bytes, P!LF)
           at == {i \in DOMAIN bytes : bytes[i] = P!LF}
           x == SubSeq(bytes, 1, k - 1)
           y == P!From(bytes, k + 1)
<1>0. Len(bytes) \in Nat /\ at \in SUBSET Nat /\ at \in SUBSET (1..Len(bytes))
  OBVIOUS
<1>1. k = FirstOf(at)
  BY DEF P!Find, P!FirstOf, FirstOf
<1>2. parts = IF k = 0 THEN <<bytes>> ELSE <<x, y>>
  BY DEF P!SplitOnce
<1>3. line = CASE Len(parts[1]) > limit -> P!Err("protocol")
               [] Len(parts[1]) <= limit /\ Len(parts) = 2 ->
                    IF P!IsUtf8(parts[1]) THEN P!Line(parts[1], parts[2]) ELSE P!Err("protocol")
               [] Len(parts[1]) <= limit /\ Len(parts) = 1 ->
                    P!AtEnd(end, IF P!IsUtf8(bytes) THEN P!Line(bytes, <<>>) ELSE P!Err("protocol"))
  BY DEF P!ReadLine
<1>4. /\ P!Err("protocol").kind = "error" /\ P!Err("io").kind = "error" /\ P!More.kind = "more"
      /\ \A a, b : /\ P!Line(a, b).kind = "line"
                   /\ P!Line(a, b).text = a /\ P!Line(a, b).rest = b
  BY DEF P!Err, P!Line, P!More
<1> HIDE DEF line, k, at
<1>5. CASE k = 0
  <2>1. parts = <<bytes>> /\ Len(parts) = 1 /\ parts[1] = bytes
    BY <1>2, <1>5
  <2> HIDE DEF parts
  <2> DEFINE z == IF P!IsUtf8(bytes) THEN P!Line(bytes, <<>>) ELSE P!Err("protocol")
  <2>2. line = P!Err("protocol") \/ line = P!AtEnd(end, z)
    <3>1. CASE Len(bytes) > limit
      BY <1>0, <1>3, <2>1, <3>1
    <3>2. CASE Len(bytes) <= limit
      BY <1>0, <1>3, <2>1, <3>2
    <3> QED BY <1>0, <3>1, <3>2
  <2>3. /\ line.kind \in {"line", "more", "error"}
        /\ line.kind = "line" => line = P!Line(bytes, <<>>)
    BY <1>4, <2>2 DEF P!AtEnd
  <2>4. <<>> \in Seq(X)
    OBVIOUS
  <2>5. line.kind = "line" => line.text = bytes /\ line.rest = <<>>
    BY <1>4, <2>3
  <2>6. line.kind = "line" => line.text \in Seq(X) /\ line.rest \in Seq(X)
    BY <2>4, <2>5
  <2> QED BY <2>3, <2>6 DEF line
<1>6. CASE k # 0
  <2>1. k \in at
    BY <1>0, <1>1, <1>6, FirstPosition
  <2>2. k \in 1..Len(bytes)
    BY <1>0, <2>1
  <2>3. x \in Seq(X) /\ Len(x) \in Nat
    <3>1. k - 1 \in 0..Len(bytes) /\ k - 1 \in Nat
      BY <1>0, <2>2
    <3>2. x \in Seq(X)
      BY <3>1, FirstBytes
    <3> HIDE DEF x
    <3> QED BY <3>2
  <2>4. y \in Seq(X)
    <3>1. k + 1 \in Int /\ Len(bytes) \in Int /\ 1 <= k + 1 /\ Len(bytes) <= Len(bytes)
      BY <1>0, <2>2
    <3>2. SubSeq(bytes, k + 1, Len(bytes)) \in Seq(X)
      BY <3>1, PartTyped
    <3> QED BY <3>2 DEF P!From
  <2> HIDE DEF x, y
  <2>5. parts[1] = x /\ parts[2] = y /\ Len(parts) = 2
    BY <1>2, <1>6
  <2> HIDE DEF parts
  <2>6. /\ line.kind \in {"line", "more", "error"}
        /\ line.kind = "line" => line = P!Line(x, y)
    <3>1. CASE Len(x) > limit
      BY <1>3, <1>4, <2>3, <2>5, <3>1
    <3>2. CASE Len(x) <= limit
      BY <1>3, <1>4, <2>3, <2>5, <3>2
    <3> QED BY <2>3, <3>1, <3>2
  <2>7. line.kind = "line" => line.text = x /\ line.rest = y
    BY <1>4, <2>6
  <2>8. line.kind = "line" => line.text \in Seq(X) /\ line.rest \in Seq(X)
    BY <2>3, <2>4, <2>7
  <2> QED BY <2>6, <2>8 DEF line
<1> QED BY <1>5, <1>6

\* The parameters of a header are texts.
LEMMA HeaderTyped ==
    ASSUME NEW X, NEW text \in Seq(X), P!GoodHeader(text)
    PROVE  LET h == P!ParseHeader(text)
           IN  /\ h = P!Response(SubSeq(text, 1, 2), h.parameters, <<>>)
               /\ h.parameters \in Seq(Seq(X))
<1> DEFINE status == SubSeq(text, 1, 2)
           rest == P!From(text, 4)
           params == P!SplitParameters(status, rest)
           Y == Seq(X)
<1>1. P!ParseHeader(text) = P!Response(status, params, <<>>)
  BY DEF P!ParseHeader
<1>2. rest \in Seq(X)
  <2>1. Len(text) \in Int /\ 4 \in Int /\ 1 <= 4 /\ Len(text) <= Len(text)
    OBVIOUS
  <2>2. SubSeq(text, 4, Len(text)) \in Seq(X)
    BY <2>1, PartTyped
  <2> QED BY <2>2 DEF P!From
<1> HIDE DEF status, rest, Y
<1>3. params \in Seq(Y)
  <2> DEFINE n == P!LeadingParameters(status) + 1
             parts == P!SplitN(rest, P!SP, n)
  <2>1. n \in Nat \ {0}
    BY DEF P!LeadingParameters
  <2> HIDE DEF n
  <2>2. parts \in Seq(Y) /\ Len(parts) >= 1
    BY <1>2, <2>1, SameSplits, SplitTexts DEF Y
  <2> HIDE DEF parts
  <2>3. Front(parts) \in Seq(Y)
    <3>1. Len(parts) - 1 \in 0..Len(parts)
      BY <2>2
    <3>2. SubSeq(parts, 1, Len(parts) - 1) \in Seq(Y)
      BY <2>2, <3>1, FirstBytes
    <3> QED BY <3>2 DEF Front, P!Front
  <2>4. params = IF P!Last(parts) = <<>> THEN P!Front(parts) ELSE parts
    BY DEF P!SplitParameters, parts, n
  <2>5. P!Front(parts) = Front(parts)
    BY DEF P!Front, Front
  <2> HIDE DEF params
  <2> QED BY <2>2, <2>3, <2>4, <2>5
<1> HIDE DEF params
<1>4. P!ParseHeader(text).parameters = params
  BY <1>1 DEF P!Response
<1> QED BY <1>1, <1>3, <1>4 DEF status, Y

\* The cap of a partial body is a number within max_body.
LEMMA PartialCapTyped ==
    ASSUME NEW q, q.kind = "range" => {q.start, q.end} \subseteq Int
    PROVE  P!PartialCap(q) \in Nat /\ P!PartialCap(q) <= MaxBody
<1>0. MaxBody \in Nat
  BY ExchangeAssumption
<1>1. CASE q.kind = "range" /\ q.end # P!NoEnd /\ P!RangeLen(q) < MaxBody
  <2>1. q.start \in Int /\ q.end \in Int
    BY <1>1
  <2>2. P!RangeLen(q) \in Nat
    <3>1. CASE q.end <= q.start
      BY <3>1 DEF P!RangeLen
    <3>2. CASE ~(q.end <= q.start)
      <4>1. P!RangeLen(q) = q.end - q.start
        BY <3>2 DEF P!RangeLen
      <4>2. q.end - q.start \in Nat
        BY <2>1, <3>2
      <4> QED BY <4>1, <4>2
    <3> QED BY <3>1, <3>2
  <2>3. P!PartialCap(q) = P!RangeLen(q)
    BY <1>1 DEF P!PartialCap
  <2> QED BY <1>0, <1>1, <2>2, <2>3
<1>2. CASE ~(q.kind = "range" /\ q.end # P!NoEnd /\ P!RangeLen(q) < MaxBody)
  <2>1. P!PartialCap(q) = MaxBody
    BY <1>2 DEF P!PartialCap
  <2> QED BY <1>0, <2>1
<1> QED BY <1>1, <1>2

\* The body of a scorpion response is within max_body.
LEMMA ScorpionKeeps ==
    ASSUME NEW X, NEW bytes \in Seq(X), NEW end, NEW q,
           q.kind = "range" => {q.start, q.end} \subseteq Int,
           P!Receive(bytes, end, q).kind = "ok"
    PROVE  Len(P!Receive(bytes, end, q).response.body) <= MaxBody
<1> DEFINE o == P!Receive(bytes, end, q)
           line == P!ReadLine(bytes, end, MaxLine)
           text == P!StripCr(line.text)
           h == P!ParseHeader(text)
           rest == line.rest
           size == h.parameters[1]
           whole(body) == P!Ok([h EXCEPT !.body = body])
<1>0. MaxBody \in Nat /\ MaxLine \in Nat /\ Len(<<>>) = 0
  BY ExchangeAssumption
<1>1. o = CASE line.kind # "line" -> line
            [] line.kind = "line" /\ bytes = <<>> -> P!Err("io")
            [] line.kind = "line" /\ bytes # <<>> /\ ~P!GoodHeader(text) -> P!Err("protocol")
            [] line.kind = "line" /\ bytes # <<>> /\ P!GoodHeader(text) /\ ~P!HasBody(text) -> P!Ok(h)
            [] OTHER -> P!ReadBody(h, rest, q, end)
  BY DEF P!Receive
<1>2. P!ReadBody(h, rest, q, end) =
        CASE ~P!GoodSuccess(h) -> P!Err("protocol")
          [] P!GoodSuccess(h) /\ h.status = P!PartialStatus ->
               P!Capped(rest, P!PartialCap(q), end, whole)
          [] P!GoodSuccess(h) /\ h.status # P!PartialStatus /\ size = <<"?">> ->
               P!Capped(rest, MaxBody, end, whole)
          [] OTHER -> P!Exactly(rest, P!Number(size), end, whole)
  BY DEF P!ReadBody
<1>3. line.kind \in {"line", "more", "error"} /\ (line.kind = "line" => line.text \in Seq(X) /\ rest \in Seq(X))
  BY <1>0, LineTyped
<1>4. \A e : P!Err(e).kind = "error"
  BY DEF P!Err
<1> HIDE DEF o, line
<1>5. line.kind = "line" /\ P!GoodHeader(text) /\ (o = P!Ok(h) \/ o = P!ReadBody(h, rest, q, end))
  <2>1. o.kind = "ok"
    BY DEF o, line
  <2> HIDE DEF text, h, rest
  <2>2. line.kind = "line"
    BY <1>1, <1>3, <2>1
  <2>3. bytes # <<>> /\ P!GoodHeader(text)
    BY <1>1, <1>4, <2>1, <2>2
  <2> QED BY <1>1, <2>2, <2>3
<1>6. text \in Seq(X)
  <2> DEFINE t == line.text
  <2>1. t \in Seq(X)
    BY <1>3, <1>5
  <2>2. text = IF t # <<>> /\ P!Last(t) = P!CR THEN P!Front(t) ELSE t
    BY DEF P!StripCr
  <2> HIDE DEF t, text
  <2>3. t # <<>> => P!Front(t) \in Seq(X)
    <3> SUFFICES ASSUME t # <<>> PROVE P!Front(t) \in Seq(X)
      OBVIOUS
    <3>1. Len(t) - 1 \in 0..Len(t)
      BY <2>1
    <3>2. SubSeq(t, 1, Len(t) - 1) \in Seq(X)
      BY <2>1, <3>1, FirstBytes
    <3> QED BY <3>2 DEF P!Front
  <2> QED BY <2>1, <2>2, <2>3
<1> HIDE DEF text
<1>7. h = P!Response(SubSeq(text, 1, 2), h.parameters, <<>>) /\ h.parameters \in Seq(Seq(X))
  BY <1>5, <1>6, HeaderTyped
<1>8. rest \in Seq(X)
  BY <1>3, <1>5
<1> HIDE DEF h, rest
<1>9. h.body = <<>> /\ \A body : [h EXCEPT !.body = body].body = body
  <2>1. h = [status |-> SubSeq(text, 1, 2), parameters |-> h.parameters, body |-> <<>>]
    BY <1>7 DEF P!Response
  <2> DEFINE a == SubSeq(text, 1, 2)
             b == h.parameters
  <2> HIDE DEF a, b
  <2>2. h = [status |-> a, parameters |-> b, body |-> <<>>]
    BY <2>1 DEF a, b
  <2> QED BY <2>2
<1>10. \A r : P!Ok(r).kind = "ok" /\ P!Ok(r).response = r
  BY DEF P!Ok
<1>11. CASE o = P!Ok(h)
  <2>1. o.response.body = <<>>
    BY <1>9, <1>10, <1>11
  <2> QED BY <1>0, <2>1 DEF o
<1>12. ASSUME NEW cap \in Nat, cap <= MaxBody, o = P!Capped(rest, cap, end, whole)
       PROVE  Len(o.response.body) <= MaxBody
  <2>1. o.kind = "ok"
    BY DEF o
  <2>2. P!Err("io").kind = "error" /\ P!More.kind = "more"
    BY DEF P!Err, P!More
  <2>3. o = CASE P!TakeEnds(rest, cap, end) -> P!Ok([h EXCEPT !.body = P!Take(rest, cap)])
              [] ~P!TakeEnds(rest, cap, end) /\ end = "error" -> P!Err("io")
              [] OTHER -> P!More
    BY <1>12 DEF P!Capped
  <2>4. o = P!Ok([h EXCEPT !.body = P!Take(rest, cap)])
    BY <2>1, <2>2, <2>3
  <2>5. o.response.body = P!Take(rest, cap)
    BY <1>9, <1>10, <2>4
  <2>6. Len(P!Take(rest, cap)) <= cap
    BY <1>8, TakeCap
  <2>7. Len(P!Take(rest, cap)) \in Nat
    <3> DEFINE m == IF cap < Len(rest) THEN cap ELSE Len(rest)
    <3>1. m \in 0..Len(rest)
      BY <1>8
    <3> HIDE DEF m
    <3>2. P!Take(rest, cap) = SubSeq(rest, 1, m)
      BY DEF P!Take, m
    <3>3. Len(SubSeq(rest, 1, m)) = m
      BY <1>8, <3>1, FirstBytes
    <3>4. m \in Nat
      BY <3>1
    <3> QED BY <3>2, <3>3, <3>4
  <2> QED BY <1>0, <2>5, <2>6, <2>7, <1>12
<1>13. CASE o = P!ReadBody(h, rest, q, end)
  <2>1. P!GoodSuccess(h) /\ o.kind = "ok"
    BY <1>2, <1>4, <1>13 DEF o
  <2>2. CASE h.status = P!PartialStatus
    <3>1. o = P!Capped(rest, P!PartialCap(q), end, whole)
      BY <1>2, <1>13, <2>1, <2>2
    <3>2. P!PartialCap(q) \in Nat /\ P!PartialCap(q) <= MaxBody
      BY PartialCapTyped
    <3> QED BY <1>12, <3>1, <3>2 DEF o
  <2>3. CASE h.status # P!PartialStatus /\ size = <<"?">>
    <3>1. o = P!Capped(rest, MaxBody, end, whole)
      BY <1>2, <1>13, <2>1, <2>3
    <3>2. MaxBody <= MaxBody
      BY <1>0
    <3>3. Len(o.response.body) <= MaxBody
      BY <1>0, <1>12, <3>1, <3>2
    <3> QED BY <3>3 DEF o
  <2>4. CASE h.status # P!PartialStatus /\ size # <<"?">>
    <3> DEFINE n == P!Number(size)
    <3>1. o = P!Exactly(rest, n, end, whole)
      BY <1>2, <1>13, <2>1, <2>4
    <3>2. P!IsNumber(size) /\ Len(h.parameters) >= 2
      BY <2>1, <2>4 DEF P!GoodSuccess
    <3>3. size \in Seq(X)
      <4> DEFINE Y == Seq(X)
      <4>1. h.parameters \in Seq(Y)
        BY <1>7
      <4> HIDE DEF Y
      <4>2. 1 \in 1..Len(h.parameters)
        BY <3>2, <4>1
      <4>3. size \in Y
        BY <4>1, <4>2, ElementOfSeq
      <4> QED BY <4>3 DEF Y
    <3> HIDE DEF size
    <3>4. IsNumber(size)
      BY <3>2 DEF P!IsNumber, IsNumber, P!Unsigned, Unsigned, P!IsDigit, IsDigit
    <3>5. n \in Nat
      BY <3>3, <3>4, NumberTyped, SameSplits
    <3> HIDE DEF n
    <3>6. o = CASE n > MaxBody -> P!Err("too large")
                [] n <= MaxBody /\ P!IsWhole(rest, n, end) -> P!Ok([h EXCEPT !.body = P!Take(rest, n)])
                [] n <= MaxBody /\ ~P!IsWhole(rest, n, end) /\ end = "eof" -> P!Err("truncated")
                [] n <= MaxBody /\ ~P!IsWhole(rest, n, end) /\ end = "error" -> P!Err("io")
                [] OTHER -> P!More
      BY <3>1 DEF P!Exactly
    <3>7. P!More.kind = "more"
      BY DEF P!More
    <3>8. n <= MaxBody /\ o = P!Ok([h EXCEPT !.body = P!Take(rest, n)])
      <4>1. CASE n > MaxBody
        <5>1. ~(n <= MaxBody)
          BY <1>0, <3>5, <4>1
        <5>2. o = P!Err("too large")
          BY <3>6, <4>1, <5>1
        <5>3. o.kind = "error"
          BY <1>4, <5>2
        <5> QED BY <2>1, <5>3
      <4>2. CASE n <= MaxBody /\ P!IsWhole(rest, n, end)
        BY <1>0, <3>5, <3>6, <4>2
      <4>3. CASE n <= MaxBody /\ ~P!IsWhole(rest, n, end)
        BY <1>0, <1>4, <2>1, <3>5, <3>6, <3>7, <4>3
      <4> QED BY <1>0, <3>5, <4>1, <4>2, <4>3
    <3>9. o.response.body = P!Take(rest, n)
      BY <1>9, <1>10, <3>8
    <3>10. P!Take(rest, n) = SubSeq(rest, 1, IF n < Len(rest) THEN n ELSE Len(rest))
      BY DEF P!Take
    <3>11. (IF n < Len(rest) THEN n ELSE Len(rest)) \in 0..Len(rest)
      BY <1>8, <3>5
    <3>12. Len(P!Take(rest, n)) \in Nat
      <4> DEFINE m == IF n < Len(rest) THEN n ELSE Len(rest)
      <4>1. m \in 0..Len(rest) /\ P!Take(rest, n) = SubSeq(rest, 1, m)
        BY <3>10, <3>11
      <4> HIDE DEF m
      <4>2. Len(SubSeq(rest, 1, m)) = m /\ m \in Nat
        BY <1>8, <4>1, FirstBytes
      <4> QED BY <4>1, <4>2
    <3>13. Len(P!Take(rest, n)) <= n
      BY <1>8, <3>5, TakeCap
    <3> QED BY <1>0, <3>5, <3>8, <3>9, <3>12, <3>13 DEF o
  <2> QED BY <2>2, <2>3, <2>4
<1> QED BY <1>5, <1>11, <1>13 DEF o

\* What a client returns is within max_body.
LEMMA ReceiveCap ==
    ASSUME NEW c \in Calls, c.proto \in {"spartan", "nex", "scorpion"},
           NEW X, NEW bytes \in Seq(X), NEW end, Receive(c, bytes, end).kind = "ok"
    PROVE  Len(Receive(c, bytes, end).response.body) <= MaxBody
<1> DEFINE o == Receive(c, bytes, end)
<1>0. MaxBody \in Nat /\ Len(bytes) \in Nat /\ Len(<<>>) = 0 /\ o.kind = "ok"
  BY ExchangeAssumption
<1>1. CASE c.proto = "nex"
  <2>1. o = N!Receive(bytes, end)
    BY <1>1 DEF Receive
  <2> HIDE DEF o
  <2>2. \A e : N!Err(e).kind = "error"
    BY DEF N!Err
  <2>3. N!More.kind = "more" /\ N!Ok(N!Response(bytes)).response = [body |-> bytes]
    BY DEF N!More, N!Ok, N!Response
  <2>4. ~(Len(bytes) > MaxBody) /\ o = N!AtEnd(end, N!Ok(N!Response(bytes)))
    BY <1>0, <2>1, <2>2 DEF N!Receive
  <2>5. o = N!Ok(N!Response(bytes))
    BY <1>0, <2>2, <2>3, <2>4 DEF N!AtEnd
  <2>6. o.response.body = bytes
    BY <2>3, <2>5
  <2>7. Len(o.response.body) <= MaxBody
    BY <1>0, <2>4, <2>6
  <2> QED BY <2>7 DEF o
<1>2. CASE c.proto = "spartan"
  <2> DEFINE parts == SplitHeader(bytes)
             r == S!ParseResponse(bytes)
  <2>1. o = S!Receive(bytes, end)
    BY <1>2 DEF Receive
  <2> HIDE DEF o, r
  <2>2. \A e : S!Err(e).kind = "error"
    BY DEF S!Err
  <2>3. S!More.kind = "more"
    BY DEF S!More
  <2>4. ~(Len(bytes) > MaxBody) /\ o = S!AtEnd(end, r)
    BY <1>0, <2>1, <2>2 DEF S!Receive, r
  <2>5. o = r
    BY <1>0, <2>2, <2>3, <2>4 DEF S!AtEnd
  <2>6. /\ Len(parts) # 1
        /\ \E status, meta : o = S!Ok(S!Response(status, meta, IF status = "2" THEN parts[2] ELSE <<>>))
    <3>1. S!SplitHeader(bytes) = parts
      BY SameSplits
    <3> HIDE DEF parts
    <3> QED BY <1>0, <2>2, <2>5, <3>1 DEF r, S!ParseResponse
  <2> HIDE DEF parts
  <2>7. o.response.body \in {parts[2], <<>>}
    BY <2>6 DEF S!Ok, S!Response
  <2>8. Len(parts[2]) <= Len(bytes) /\ Len(parts[2]) \in Int
    <3> DEFINE k == HeaderEnd(bytes)
    <3>1. /\ k \in Nat /\ k = 0 => Len(parts) = 1
          /\ k # 0 => k \in 1..(Len(bytes) - 1) /\ Len(parts[2]) = Len(bytes) - (k + 1)
      BY HeaderParts DEF parts
    <3> HIDE DEF k
    <3> QED BY <1>0, <2>6, <3>1
  <2>9. Len(o.response.body) <= MaxBody
    BY <1>0, <2>4, <2>7, <2>8
  <2> QED BY <2>9 DEF o
<1>3. CASE c.proto = "scorpion"
  <2> DEFINE q == IF c.own THEN c.input.parameter ELSE P!NoParameter
  <2>1. o = P!Receive(bytes, end, q)
    BY <1>3 DEF Receive
  <2>2. q.kind = "range" => {q.start, q.end} \subseteq Int
    BY <1>3, CallsAssumption DEF P!NoParameter
  <2> HIDE DEF o, q
  <2>3. Len(P!Receive(bytes, end, q).response.body) <= MaxBody
    BY <1>0, <2>1, <2>2, ScorpionKeeps
  <2> QED BY <2>1, <2>3 DEF o
<1> QED BY <1>1, <1>2, <1>3

----------------------------------------------------------------------------
(* What a server writes is a stream of bytes.                              *)

IsBytes(s) == \E X : s \in Seq(X)

\* The reply of a server that refuses a request itself is a stream of bytes.
LEMMA RefusalTyped ==
    ASSUME NEW p \in {"spartan", "nex", "scorpion"}, NEW bytes, NEW end, NEW outcome,
           Serve(p, bytes, end).kind = "reply"
    PROVE  IsBytes(ServerBytes(p, outcome, Serve(p, bytes, end).reply))
<1> DEFINE o == Serve(p, bytes, end)
<1>0. o.kind = "reply"
  OBVIOUS
<1>1. CASE p = "nex"
  <2>1. o = N!Serve(bytes, end)
    BY <1>1 DEF Serve
  <2> HIDE DEF o
  <2>2. /\ N!More.kind = "more" /\ N!Close.kind = "close" /\ N!Fail.kind = "fail"
        /\ \A r : N!Ask(r).kind = "ask"
    BY DEF N!More, N!Close, N!Fail, N!Ask
  <2>3. \A r : N!AtClose(end, N!Ask(r)).kind # "reply"
    BY <2>2 DEF N!AtClose
  <2> QED BY <1>0, <2>1, <2>2, <2>3 DEF N!Serve
<1>2. CASE p = "spartan"
  <2>1. o = S!Serve(bytes, end)
    BY <1>2 DEF Serve
  <2> HIDE DEF o
  <2>2. /\ S!More.kind = "more" /\ S!Fail.kind = "fail"
        /\ \A r : S!Ask(r).kind = "ask"
    BY DEF S!More, S!Fail, S!Ask
  <2>3. \A l, d : S!ParseLine(l, d, end).kind = "reply" => S!ParseLine(l, d, end) = S!Refusal
    BY <2>2 DEF S!ParseLine, S!UnlessEnded
  <2>4. \A l, d : S!AtClose(end, S!ParseLine(l, d, end)).kind = "reply" =>
                    S!AtClose(end, S!ParseLine(l, d, end)) = S!Refusal
    BY <2>2, <2>3 DEF S!AtClose
  <2>5. o = S!Refusal
    BY <1>0, <2>1, <2>2, <2>3, <2>4 DEF S!Serve
  <2> DEFINE X == {"4", "SP", "CR", "LF", "reason"}
  <2>6. o.reply = [status |-> "4", meta |-> <<"reason">>, body |-> <<>>]
    BY <2>5 DEF S!Refusal, S!Answer, S!Response
  <2>7. ServerBytes(p, outcome, o.reply) = <<"4", "SP">> \o <<"reason">> \o <<"CR", "LF">> \o <<>>
    BY <1>2, <2>6 DEF ServerBytes, S!Render, S!SP, S!CRLF, S!CR, S!LF
  <2>8. /\ <<"4", "SP">> \in Seq(X) /\ <<"reason">> \in Seq(X)
        /\ <<"CR", "LF">> \in Seq(X) /\ <<>> \in Seq(X)
    OBVIOUS
  <2> HIDE DEF X
  <2>9. ServerBytes(p, outcome, o.reply) \in Seq(X)
    BY <2>7, <2>8
  <2> QED BY <2>9 DEF IsBytes, o
<1>3. CASE p = "scorpion"
  <2>1. o = P!Serve(bytes, end)
    BY <1>3 DEF Serve
  <2> HIDE DEF o
  <2>2. /\ P!More.kind = "more" /\ P!Fail.kind = "fail"
        /\ \A r : P!Ask(r).kind = "ask"
    BY DEF P!More, P!Fail, P!Ask
  <2>3. \A l : P!Parse(l).kind = "reply" => P!Parse(l) = P!Answer(P!BadRequest)
    BY <2>2 DEF P!Parse
  <2>4. o = P!Answer(P!BadRequest)
    BY <1>0, <2>1, <2>2, <2>3 DEF P!Serve
  <2> DEFINE X == {"5", "9", "SP", "CR", "LF", "reason"}
             params == <<<<"reason">>>>
             texts == [i \in DOMAIN params |-> <<"SP">> \o params[i]]
             walked == CHOOSE f : f = [i \in 1..Len(texts) |-> IF i = 1 THEN texts[i] ELSE f[i - 1] \o texts[i]]
  <2>5. o.reply = [status |-> <<"5", "9">>, parameters |-> params, body |-> <<>>]
    BY <2>4 DEF P!BadRequest, P!Answer, P!Status, P!Response
  <2>6. Len(texts) = 1 /\ texts[1] = <<"SP">> \o <<"reason">>
    <3>1. params[1] = <<"reason">> /\ DOMAIN params = 1..1
      OBVIOUS
    <3> HIDE DEF params
    <3>2. texts = [i \in 1..1 |-> <<"SP">> \o params[i]]
      BY <3>1
    <3> HIDE DEF texts
    <3>3. texts[1] = <<"SP">> \o <<"reason">>
      BY <3>1, <3>2
    <3>4. Len(texts) = 1
      BY <3>2
    <3> QED BY <3>3, <3>4
  <2>7. P!FlattenSeq(texts) = walked[1]
    BY <2>6 DEF P!FlattenSeq
  <2>8. ServerBytes(p, outcome, o.reply) = <<"5", "9">> \o P!FlattenSeq(texts) \o <<"CR", "LF">> \o <<>>
    BY <1>3, <2>5 DEF ServerBytes, P!Render, P!SP, P!CRLF, P!CR, P!LF
  <2> HIDE DEF texts
  <2>9. walked[1] = texts[1]
    <3> DEFINE g == [i \in 1..1 |-> texts[1]]
    <3>1. g = [i \in 1..Len(texts) |-> IF i = 1 THEN texts[i] ELSE g[i - 1] \o texts[i]]
      <4>1. \A i \in 1..1 : i = 1
        OBVIOUS
      <4>2. \A i \in 1..1 : texts[1] = IF i = 1 THEN texts[i] ELSE g[i - 1] \o texts[i]
        BY <4>1, Zenon
      <4>3. Len(texts) = 1
        BY <2>6
      <4> QED BY <4>2, <4>3, Zenon
    <3> HIDE DEF g
    <3>2. walked = [i \in 1..Len(texts) |-> IF i = 1 THEN texts[i] ELSE walked[i - 1] \o texts[i]]
      BY <3>1, Zenon
    <3> HIDE DEF walked
    <3> QED BY <2>6, <3>2
  <2>10. /\ <<"5", "9">> \in Seq(X) /\ <<"SP">> \in Seq(X) /\ <<"reason">> \in Seq(X)
         /\ <<"CR", "LF">> \in Seq(X) /\ <<>> \in Seq(X)
    OBVIOUS
  <2> HIDE DEF X, walked
  <2>11. ServerBytes(p, outcome, o.reply) \in Seq(X)
    BY <2>6, <2>7, <2>8, <2>9, <2>10
  <2> QED BY <2>11 DEF IsBytes, o
<1> QED BY <1>1, <1>2, <1>3

\* What a handler's reply is written as is a stream of bytes.
LEMMA ReplyTyped ==
    ASSUME NEW p \in {"spartan", "nex", "scorpion"}, NEW outcome, NEW reply \in Replies[p]
    PROVE  IsBytes(ServerBytes(p, outcome, reply))
<1>1. ServerBytes(p, More, reply) \in Seq(STRING)
  BY RepliesAssumption DEF Protocols
<1>2. ServerBytes(p, outcome, reply) = ServerBytes(p, More, reply)
  BY DEF ServerBytes
<1> QED BY <1>1, <1>2 DEF IsBytes

----------------------------------------------------------------------------
(* The caps.                                                               *)

OneLine == {"gemini", "nex", "finger", "gopher", "scorpion"}
Measured == {"spartan", "nex", "scorpion"}

\* What a server that goes on reading has read leaves it room: a line within the limit,
\* and in a spartan request less after the line than max_upload.
Room(p, request, r) ==
    LET k == HeaderEnd(SubSeq(request, 1, r))
    IN /\ p \in OneLine => r <= MaxLine
       /\ p = "spartan" => /\ k = 0 => r = 0 \/ r < MaxLine
                           /\ k # 0 => k + 1 <= MaxLine /\ r < k + 1 + MaxUpload

\* With room left, a server reads one byte more and stays within its limits, and when it
\* goes on reading it has room again.
LEMMA RoomLeft ==
    ASSUME NEW X, NEW request \in Seq(X), NEW r \in 0..Len(request), NEW n \in 0..Len(request),
           n \in {r, r + 1}, NEW p, Room(p, request, r), NEW end
    PROVE  LET o == Serve(p, SubSeq(request, 1, n), end)
           IN  /\ p \in OneLine \cup {"spartan"} => n <= MaxLine + MaxUpload + 1
               /\ o.kind = "more" => Room(p, request, n)
               /\ p = "spartan" /\ o.kind = "ask" => Len(o.request.data) <= MaxUpload
<1> DEFINE a == SubSeq(request, 1, r)
           b == SubSeq(request, 1, n)
           o == Serve(p, b, end)
           k == HeaderEnd(a)
           l == HeaderEnd(b)
<1>0. MaxLine \in Nat /\ MaxUpload \in Nat /\ Len(request) \in Nat /\ r \in Nat /\ n \in Nat
  BY ExchangeAssumption
<1>1. b \in Seq(X) /\ Len(b) = n
  BY FirstBytes
<1>2. a \in Seq(X) /\ Len(a) = r
  BY FirstBytes
<1>3. CASE p \in OneLine
  <2>1. r <= MaxLine /\ p # "spartan"
    BY <1>3 DEF Room, OneLine
  <2>2. n <= MaxLine + MaxUpload + 1
    BY <1>0, <2>1
  <2>3. o.kind = "more" => n <= MaxLine
    BY <1>1, <1>3, LineCap DEF OneLine
  <2>4. o.kind = "more" => Room(p, request, n)
    BY <2>1, <2>3 DEF Room
  <2> QED BY <2>1, <2>2, <2>4 DEF o, b
<1>4. CASE p = "spartan"
  <2>1. /\ k = 0 => r = 0 \/ r < MaxLine
        /\ k # 0 => k + 1 <= MaxLine /\ r < k + 1 + MaxUpload
    BY <1>4 DEF Room
  <2>2. k \in Nat /\ l \in Nat
    BY <1>1, <1>2, HeaderParts
  <2>3. (k # 0 => l = k) /\ (k = 0 => l \in {0, r})
    <3>1. CASE n = r
      BY <3>1
    <3>2. CASE n = r + 1
      <4>1. r + 1 <= Len(request)
        BY <1>0, <3>2
      <4> QED BY <1>0, <3>2, <4>1, HeaderGrows
    <3> QED BY <3>1, <3>2
  <2>4. /\ o.kind = "more" => (l = 0 => Len(b) < MaxLine) /\ (l # 0 => Len(b) < l + 1 + MaxUpload)
        /\ o.kind = "ask" => Len(o.request.data) <= MaxUpload
    BY <1>1, <1>4, SpartanCap
  <2> HIDE DEF a, b, k, l, o
  <2>5. n <= MaxLine + MaxUpload + 1
    BY <1>0, <2>1, <2>2
  <2>6. o.kind = "more" => /\ l = 0 => n < MaxLine
                           /\ l # 0 => l + 1 <= MaxLine /\ n < l + 1 + MaxUpload
    <3>1. l # 0 => l + 1 <= MaxLine
      BY <1>0, <2>1, <2>2, <2>3
    <3> QED BY <1>1, <2>4, <3>1
  <2>7. o.kind = "more" => Room(p, request, n)
    BY <1>4, <2>6 DEF Room, OneLine, l, b
  <2> QED BY <1>4, <2>4, <2>5, <2>7 DEF o, b
<1>5. CASE p \notin OneLine /\ p # "spartan"
  BY <1>5 DEF Room
<1> QED BY <1>3, <1>4, <1>5

\* The connection holds a beginning of what is written, a server has read a beginning of
\* that, and where a client measures the body the reply is a stream of bytes.
Flow ==
    /\ call \in Calls
    /\ client = [pc |-> client.pc, request |-> ClientBytes(call), read |-> client.read,
                 result |-> client.result]
    /\ server = [pc |-> server.pc, read |-> server.read, outcome |-> server.outcome,
                 reply |-> server.reply, bytes |-> server.bytes, cut |-> server.cut]
    /\ up = [bytes |-> SubSeq(client.request, 1, Len(up.bytes)), end |-> up.end]
    /\ down = [bytes |-> down.bytes, end |-> down.end]
    /\ Len(up.bytes) \in 0..Len(client.request) /\ server.read \in 0..Len(up.bytes)
    /\ client.read \in Nat
    /\ call.proto \in Measured => IsBytes(server.bytes) /\ IsBytes(down.bytes)

\* A connection task starts when its client connects, and it has room while it reads.
HasRoom ==
    /\ client.pc = "connect" => server.pc = "accept"
    /\ server.pc \in {"accept", "read"} => Room(call.proto, client.request, server.read)

\* CapsHonoured is inductive with them.
CapsInvariant == Flow /\ HasRoom /\ CapsHonoured

\* The beginning of a beginning.
LEMMA FirstOfFirst ==
    ASSUME NEW X, NEW s \in Seq(X), NEW k \in 0..Len(s), NEW n \in 0..k
    PROVE  SubSeq(SubSeq(s, 1, k), 1, n) = SubSeq(s, 1, n)
<1>0. k \in Nat /\ n \in Nat /\ Len(s) \in Nat /\ n <= k /\ k <= Len(s)
  OBVIOUS
<1>1. n \in 0..Len(s)
  BY <1>0
<1> DEFINE a == SubSeq(s, 1, k)
           b == SubSeq(a, 1, n)
           c == SubSeq(s, 1, n)
<1>2. a \in Seq(X) /\ Len(a) = k /\ \A i \in 1..k : a[i] = s[i]
  BY FirstBytes
<1>3. c \in Seq(X) /\ Len(c) = n /\ \A i \in 1..n : c[i] = s[i]
  BY <1>1, FirstBytes
<1> HIDE DEF a, c
<1>4. b \in Seq(X) /\ Len(b) = n /\ \A i \in 1..n : b[i] = a[i]
  BY <1>0, <1>2, FirstBytes
<1> HIDE DEF b
<1>5. \A i \in 1..n : b[i] = c[i]
  BY <1>0, <1>2, <1>3, <1>4
<1>6. b = c
  BY <1>3, <1>4, <1>5
<1> QED BY <1>6 DEF a, b, c

\* A beginning of a stream of bytes is one.
LEMMA FirstIsBytes ==
    ASSUME NEW s, IsBytes(s), NEW k \in 0..Len(s)
    PROVE  IsBytes(SubSeq(s, 1, k))
<1>1. PICK X : s \in Seq(X)
  BY DEF IsBytes
<1>2. SubSeq(s, 1, k) \in Seq(X)
  BY <1>1, FirstBytes
<1> QED BY <1>2 DEF IsBytes

\* The caps hold before anything is read.
LEMMA CapsInit == Init => CapsInvariant
<1> SUFFICES ASSUME Init PROVE CapsInvariant
  OBVIOUS
<1> DEFINE request == ClientBytes(call)
<1>0. MaxLine \in Nat /\ MaxUpload \in Nat /\ Len(<<>>) = 0
  BY ExchangeAssumption
<1>1. call \in Calls /\ request \in Seq(STRING)
  BY CallsAssumption DEF Init
<1>2. /\ client = [pc |-> "connect", request |-> request, read |-> 0, result |-> More]
      /\ server = [pc |-> "accept", read |-> 0, outcome |-> More, reply |-> NoReply,
                   bytes |-> <<>>, cut |-> FALSE]
      /\ up = [bytes |-> <<>>, end |-> "open"]
      /\ down = [bytes |-> <<>>, end |-> "open"]
  BY DEF Init
<1> HIDE DEF request
<1>3. /\ client.request = request /\ client.read = 0 /\ client.result = More
      /\ server.read = 0 /\ server.outcome = More /\ server.bytes = <<>>
      /\ up.bytes = <<>> /\ down.bytes = <<>>
  BY <1>2
<1>4. 0 \in 0..Len(request) /\ Len(request) \in Nat
  BY <1>1
<1>5. SubSeq(request, 1, 0) = <<>>
  <2>1. SubSeq(request, 1, 0) \in Seq(STRING) /\ Len(SubSeq(request, 1, 0)) = 0
    BY <1>1, <1>4, FirstBytes
  <2> QED BY <2>1
<1>6. IsBytes(<<>>)
  <2>1. <<>> \in Seq(Nat)
    OBVIOUS
  <2> QED BY <2>1 DEF IsBytes
<1>7. Flow
  <2>1. /\ client = [pc |-> client.pc, request |-> ClientBytes(call), read |-> client.read,
                     result |-> client.result]
        /\ server = [pc |-> server.pc, read |-> server.read, outcome |-> server.outcome,
                     reply |-> server.reply, bytes |-> server.bytes, cut |-> server.cut]
        /\ up = [bytes |-> <<>>, end |-> up.end]
        /\ down = [bytes |-> down.bytes, end |-> down.end]
    BY <1>2 DEF request
  <2>2. 0 \in 0..0 /\ 0 \in Nat
    OBVIOUS
  <2>3. Len(up.bytes) = 0
    BY <1>0, <1>3
  <2>4. up = [bytes |-> SubSeq(client.request, 1, Len(up.bytes)), end |-> up.end]
    BY <1>3, <1>5, <2>1, <2>3
  <2>5. Len(up.bytes) \in 0..Len(client.request) /\ server.read \in 0..Len(up.bytes) /\ client.read \in Nat
    BY <1>3, <1>4, <2>2, <2>3
  <2>6. IsBytes(server.bytes) /\ IsBytes(down.bytes)
    BY <1>3, <1>6
  <2> QED BY <1>1, <2>1, <2>4, <2>5, <2>6 DEF Flow
<1>8. HasRoom
  <2> DEFINE none == SubSeq(request, 1, 0)
  <2>1. none \in Seq(STRING) /\ Len(none) = 0
    BY <1>1, <1>4, FirstBytes
  <2> HIDE DEF none
  <2>2. HeaderEnd(none) = 0
    <3>1. HeaderEnd(none) # 0 => HeaderEnd(none) \in 1..(Len(none) - 1)
      BY <2>1, HeaderParts
    <3> QED BY <2>1, <3>1
  <2>3. 0 <= MaxLine
    BY <1>0
  <2>4. Room(call.proto, request, 0)
    BY <2>2, <2>3 DEF Room, none
  <2>5. client.pc = "connect" /\ server.pc = "accept"
    BY <1>2
  <2> QED BY <1>3, <2>4, <2>5 DEF HasRoom
<1>9. CapsHonoured
  BY <1>0, <1>3 DEF CapsHonoured, More
<1> QED BY <1>7, <1>8, <1>9 DEF CapsInvariant

\* What an action that leaves the call alone has to keep.
LEMMA CapsFrame ==
    ASSUME Flow, call' = call,
           NEW cpc, NEW cread, cread \in Nat, NEW result,
           client' = [pc |-> cpc, request |-> client.request, read |-> cread, result |-> result],
           NEW spc, NEW sread, NEW outcome, NEW reply, NEW bytes, NEW cut,
           server' = [pc |-> spc, read |-> sread, outcome |-> outcome, reply |-> reply,
                      bytes |-> bytes, cut |-> cut],
           NEW n \in 0..Len(client.request), NEW uend,
           up' = [bytes |-> SubSeq(client.request, 1, n), end |-> uend],
           NEW dbytes, NEW dend, down' = [bytes |-> dbytes, end |-> dend],
           sread \in 0..n,
           call.proto \in Measured => IsBytes(bytes) /\ IsBytes(dbytes),
           cpc = "connect" => spc = "accept",
           spc \in {"accept", "read"} => Room(call.proto, client.request, sread),
           call.proto \in OneLine \cup {"spartan"} => sread <= MaxLine + MaxUpload + 1,
           call.proto = "spartan" /\ outcome.kind = "ask" => Len(outcome.request.data) <= MaxUpload,
           call.proto \in Measured /\ result.kind = "ok" => Len(result.response.body) <= MaxBody
    PROVE  CapsInvariant'
<1>1. /\ call \in Calls /\ client.request = ClientBytes(call)
      /\ client.request \in Seq(STRING)
  <2>1. call \in Calls /\ client.request = ClientBytes(call)
    BY DEF Flow
  <2> QED BY <2>1, CallsAssumption
<1>2. Len(SubSeq(client.request, 1, n)) = n
  BY <1>1, FirstBytes
<1>3. /\ client'.pc = cpc /\ client'.request = client.request /\ client'.read = cread
      /\ client'.result = result
  OBVIOUS
<1>4. /\ server'.pc = spc /\ server'.read = sread /\ server'.outcome = outcome
      /\ server'.reply = reply /\ server'.bytes = bytes /\ server'.cut = cut
  OBVIOUS
<1>5. up'.bytes = SubSeq(client.request, 1, n) /\ up'.end = uend
  OBVIOUS
<1>6. down'.bytes = dbytes /\ down'.end = dend
  OBVIOUS
<1>7. Flow'
  BY <1>1, <1>2, <1>3, <1>4, <1>5, <1>6 DEF Flow
<1>8. HasRoom'
  BY <1>3, <1>4 DEF HasRoom
<1>9. CapsHonoured'
  BY <1>3, <1>4 DEF CapsHonoured, OneLine, Measured
<1> QED BY <1>7, <1>8, <1>9 DEF CapsInvariant

\* Every action keeps the caps.
LEMMA CapsStep == CapsInvariant /\ [Next]_vars => CapsInvariant'
<1> SUFFICES ASSUME CapsInvariant, [Next]_vars PROVE CapsInvariant'
  OBVIOUS
<1> DEFINE p == call.proto
           request == client.request
           n == Len(up.bytes)
<1>1. Flow /\ HasRoom /\ CapsHonoured
  BY DEF CapsInvariant
<1>2. /\ client = [pc |-> client.pc, request |-> request, read |-> client.read,
                   result |-> client.result]
      /\ server = [pc |-> server.pc, read |-> server.read, outcome |-> server.outcome,
                   reply |-> server.reply, bytes |-> server.bytes, cut |-> server.cut]
      /\ up = [bytes |-> SubSeq(request, 1, n), end |-> up.end]
      /\ down = [bytes |-> down.bytes, end |-> down.end]
      /\ n \in 0..Len(request) /\ server.read \in 0..n /\ client.read \in Nat
      /\ p \in Measured => IsBytes(server.bytes) /\ IsBytes(down.bytes)
      /\ call \in Calls
  <2>1. client.request = ClientBytes(call)
    BY <1>1 DEF Flow
  <2> QED BY <1>1, <2>1 DEF Flow
<1>3. request \in Seq(STRING) /\ Len(request) \in Nat
  <2>1. request \in Seq(STRING)
    BY <1>1, CallsAssumption DEF Flow
  <2> QED BY <2>1
<1>4. /\ client.pc = "connect" => server.pc = "accept"
      /\ server.pc \in {"accept", "read"} => Room(p, request, server.read)
  BY <1>1 DEF HasRoom
<1>21. /\ n \in 0..Len(request) /\ client.read \in Nat
       /\ p \in Measured => IsBytes(server.bytes) /\ IsBytes(down.bytes)
  BY <1>2
<1>5. /\ p \in OneLine \cup {"spartan"} => server.read <= MaxLine + MaxUpload + 1
      /\ p = "spartan" /\ server.outcome.kind = "ask" => Len(server.outcome.request.data) <= MaxUpload
      /\ p \in Measured /\ client.result.kind = "ok" => Len(client.result.response.body) <= MaxBody
  BY <1>1 DEF CapsHonoured, OneLine, Measured
<1>6. \A e : Err(e).kind = "error"
  BY DEF Err
<1>61. /\ \A a, b : [client EXCEPT !.pc = a, !.result = b] =
                      [pc |-> a, request |-> request, read |-> client.read, result |-> b]
       /\ \A a : [client EXCEPT !.pc = a] =
                   [pc |-> a, request |-> request, read |-> client.read, result |-> client.result]
       /\ \A a : [client EXCEPT !.read = a] =
                   [pc |-> client.pc, request |-> request, read |-> a, result |-> client.result]
  <2> DEFINE w == client.pc
             y == client.read
             z == client.result
  <2>1. client = [pc |-> w, request |-> request, read |-> y, result |-> z]
    BY <1>2
  <2> HIDE DEF w, y, z, request
  <2>2. \A a : [client EXCEPT !.pc = a] = [pc |-> a, request |-> request, read |-> y, result |-> z]
    BY <2>1
  <2>3. \A a : [client EXCEPT !.read = a] = [pc |-> w, request |-> request, read |-> a, result |-> z]
    BY <2>1
  <2>4. ASSUME NEW a, NEW b
        PROVE  [client EXCEPT !.pc = a, !.result = b] =
                 [pc |-> a, request |-> request, read |-> y, result |-> b]
    <3> DEFINE c == [client EXCEPT !.pc = a]
    <3>1. c = [pc |-> a, request |-> request, read |-> y, result |-> z]
      BY <2>1
    <3> HIDE DEF c
    <3>2. [c EXCEPT !.result = b] = [pc |-> a, request |-> request, read |-> y, result |-> b]
      BY <3>1
    <3> QED BY <3>2 DEF c
  <2> QED BY <2>2, <2>3, <2>4 DEF w, y, z
<1>62. /\ \A a : [up EXCEPT !.bytes = a] = [bytes |-> a, end |-> up.end]
       /\ \A a : [up EXCEPT !.end = a] = [bytes |-> SubSeq(request, 1, n), end |-> a]
       /\ \A a : [down EXCEPT !.bytes = a] = [bytes |-> a, end |-> down.end]
       /\ \A a : [down EXCEPT !.end = a] = [bytes |-> down.bytes, end |-> a]
  <2> DEFINE u == SubSeq(request, 1, n)
             v == up.end
             x == down.bytes
             y == down.end
  <2>1. up = [bytes |-> u, end |-> v] /\ down = [bytes |-> x, end |-> y]
    BY <1>2
  <2> HIDE DEF u, v, x, y
  <2>2. \A a : [up EXCEPT !.bytes = a] = [bytes |-> a, end |-> v]
    BY <2>1
  <2>3. \A a : [up EXCEPT !.end = a] = [bytes |-> u, end |-> a]
    BY <2>1
  <2>4. \A a : [down EXCEPT !.bytes = a] = [bytes |-> a, end |-> y]
    BY <2>1
  <2>5. \A a : [down EXCEPT !.end = a] = [bytes |-> x, end |-> a]
    BY <2>1
  <2> QED BY <2>2, <2>3, <2>4, <2>5 DEF u, v, x, y
<1>63. /\ \A a : [server EXCEPT !.pc = a] =
                   [pc |-> a, read |-> server.read, outcome |-> server.outcome,
                    reply |-> server.reply, bytes |-> server.bytes, cut |-> server.cut]
       /\ \A a : [server EXCEPT !.cut = a] =
                   [pc |-> server.pc, read |-> server.read, outcome |-> server.outcome,
                    reply |-> server.reply, bytes |-> server.bytes, cut |-> a]
       /\ \A a, b : [server EXCEPT !.read = a, !.outcome = b] =
                      [pc |-> server.pc, read |-> a, outcome |-> b,
                       reply |-> server.reply, bytes |-> server.bytes, cut |-> server.cut]
  <2> DEFINE u == server.pc
             v == server.read
             w == server.outcome
             x == server.reply
             y == server.bytes
             z == server.cut
  <2>1. server = [pc |-> u, read |-> v, outcome |-> w, reply |-> x, bytes |-> y, cut |-> z]
    BY <1>2
  <2> HIDE DEF u, v, w, x, y, z
  <2>2. \A a : [server EXCEPT !.pc = a] =
                 [pc |-> a, read |-> v, outcome |-> w, reply |-> x, bytes |-> y, cut |-> z]
    BY <2>1
  <2>3. \A a : [server EXCEPT !.cut = a] =
                 [pc |-> u, read |-> v, outcome |-> w, reply |-> x, bytes |-> y, cut |-> a]
    BY <2>1
  <2>4. ASSUME NEW a, NEW b
        PROVE  [server EXCEPT !.read = a, !.outcome = b] =
                 [pc |-> u, read |-> a, outcome |-> b, reply |-> x, bytes |-> y, cut |-> z]
    <3> DEFINE s == [server EXCEPT !.read = a]
    <3>1. s = [pc |-> u, read |-> a, outcome |-> w, reply |-> x, bytes |-> y, cut |-> z]
      BY <2>1
    <3> HIDE DEF s
    <3>2. [s EXCEPT !.outcome = b] =
            [pc |-> u, read |-> a, outcome |-> b, reply |-> x, bytes |-> y, cut |-> z]
      BY <3>1
    <3> QED BY <3>2 DEF s
  <2> QED BY <2>2, <2>3, <2>4 DEF u, v, w, x, y, z
<1> HIDE DEF p, request, n
\* The client's side.
<1>7. ASSUME NEW result, ClientReturns(result), UNCHANGED server,
             p \in Measured /\ result.kind = "ok" => Len(result.response.body) <= MaxBody
      PROVE  CapsInvariant'
  <2>1. client' = [pc |-> "done", request |-> request, read |-> client.read, result |-> result]
    BY <1>61, <1>62, <1>7 DEF ClientReturns
  <2>2. PICK end : up' = [bytes |-> SubSeq(request, 1, n), end |-> end]
    BY <1>61, <1>62, <1>7 DEF ClientReturns
  <2>3. call' = call /\ down' = down /\ server' = server
    BY <1>7 DEF ClientReturns
  <2>4. /\ server' = [pc |-> server.pc, read |-> server.read, outcome |-> server.outcome,
                      reply |-> server.reply, bytes |-> server.bytes, cut |-> server.cut]
        /\ down' = [bytes |-> down.bytes, end |-> down.end]
    BY <1>2, <2>3
  <2> QED BY <1>1, <1>2, <1>4, <1>5, <1>7, <2>1, <2>2, <2>3, <2>4, CapsFrame DEF p, request
<1>8. CASE ClientConnects
  <2>1. /\ client' = [pc |-> "write", request |-> request, read |-> client.read, result |-> client.result]
        /\ server' = [pc |-> "read", read |-> server.read, outcome |-> server.outcome,
                      reply |-> server.reply, bytes |-> server.bytes, cut |-> server.cut]
        /\ call' = call /\ up' = up /\ down' = down
    BY <1>61, <1>63, <1>8 DEF ClientConnects
  <2>2. up' = [bytes |-> SubSeq(request, 1, n), end |-> up.end] /\ down' = [bytes |-> down.bytes, end |-> down.end]
    BY <1>2, <2>1
  <2>3. Room(p, request, server.read)
    BY <1>4, <1>8 DEF ClientConnects
  <2> QED BY <1>1, <1>2, <1>5, <2>1, <2>2, <2>3, CapsFrame DEF p, request
<1>9. CASE ClientRefuses \/ ConnectFails \/ ClientWriteFails \/ ClientTimesOut \/ ClientGoes
  <2>1. PICK e : ClientReturns(Err(e)) /\ UNCHANGED server
    BY <1>9 DEF ClientRefuses, ConnectFails, ClientWriteFails, ClientTimesOut, ClientGoes
  <2> QED BY <1>6, <1>7, <2>1
<1>10. CASE ClientWrite
  <2>1. PICK m \in 1..Window : ClientWrites(m)
    BY <1>10 DEF ClientWrite
  <2> DEFINE w == n + m
  <2>2. /\ w <= Len(request) /\ up' = [up EXCEPT !.bytes = SubSeq(request, 1, w)]
        /\ client' = [client EXCEPT !.pc = IF w = Len(request) THEN "read" ELSE "write"]
        /\ call' = call /\ server' = server /\ down' = down
    BY <2>1 DEF ClientWrites, request, n
  <2>3. w \in 0..Len(request) /\ server.read \in 0..w
    <3>1. m \in Nat /\ n \in Nat /\ server.read \in Nat /\ server.read <= n
      BY <1>2, <1>3, ExchangeAssumption
    <3> QED BY <1>3, <2>2, <3>1
  <2> HIDE DEF w
  <2>4. PICK pc : pc # "connect" /\
          client' = [pc |-> pc, request |-> request, read |-> client.read, result |-> client.result]
    BY <1>61, <2>2
  <2>5. /\ server' = [pc |-> server.pc, read |-> server.read, outcome |-> server.outcome,
                      reply |-> server.reply, bytes |-> server.bytes, cut |-> server.cut]
        /\ up' = [bytes |-> SubSeq(request, 1, w), end |-> up.end]
        /\ down' = [bytes |-> down.bytes, end |-> down.end]
    BY <1>2, <1>62, <2>2
  <2>6. call' = call
    BY <2>2
  <2> QED BY <1>1, <1>2, <1>4, <1>5, <2>3, <2>4, <2>5, <2>6, CapsFrame DEF p, request
<1>11. CASE ClientRead
  <2>1. PICK m \in 0..Window : ClientReads(m)
    BY <1>11 DEF ClientRead
  <2> DEFINE r == client.read + m
             end == IF m = 0 THEN down.end ELSE "open"
             got == SubSeq(down.bytes, 1, r)
             outcome == Receive(call, got, end)
  <2>2. /\ client.pc = "read" /\ r <= Len(down.bytes) /\ server' = server
        /\ \/ client' = [client EXCEPT !.read = r] /\ UNCHANGED <<call, up, down>>
           \/ ClientReturns(outcome)
    BY <2>1 DEF ClientReads
  <2>3. r \in Nat
    BY <1>2, ExchangeAssumption
  <2>4. CASE ClientReturns(outcome)
    <3>1. ASSUME p \in Measured, outcome.kind = "ok"
          PROVE  Len(outcome.response.body) <= MaxBody
      <4>1. PICK X : down.bytes \in Seq(X)
        BY <1>2, <3>1 DEF IsBytes
      <4>2. r \in 0..Len(down.bytes)
        BY <2>2, <2>3, <4>1
      <4>3. got \in Seq(X)
        <5> HIDE DEF r
        <5> QED BY <4>1, <4>2, FirstBytes
      <4> HIDE DEF got, end
      <4> QED BY <1>2, <3>1, <4>3, ReceiveCap DEF p, Measured
    <3> HIDE DEF outcome
    <3> QED BY <1>7, <2>2, <2>4, <3>1
  <2>5. CASE client' = [client EXCEPT !.read = r] /\ UNCHANGED <<call, up, down>>
    <3> HIDE DEF r
    <3>1. /\ client' = [pc |-> client.pc, request |-> request, read |-> r, result |-> client.result]
          /\ server' = [pc |-> server.pc, read |-> server.read, outcome |-> server.outcome,
                        reply |-> server.reply, bytes |-> server.bytes, cut |-> server.cut]
          /\ up' = [bytes |-> SubSeq(request, 1, n), end |-> up.end]
          /\ down' = [bytes |-> down.bytes, end |-> down.end] /\ call' = call
      BY <1>2, <2>2, <2>5
    <3> QED BY <1>1, <1>2, <1>4, <1>5, <2>3, <3>1, CapsFrame DEF p, request
  <2> QED BY <2>2, <2>4, <2>5
<1>12. CASE ClientStalls
  <2>1. /\ client' = [pc |-> "stalled", request |-> request, read |-> client.read, result |-> client.result]
        /\ server' = [pc |-> server.pc, read |-> server.read, outcome |-> server.outcome,
                      reply |-> server.reply, bytes |-> server.bytes, cut |-> server.cut]
        /\ up' = [bytes |-> SubSeq(request, 1, n), end |-> up.end]
        /\ down' = [bytes |-> down.bytes, end |-> down.end] /\ call' = call
    BY <1>2, <1>61, <1>12 DEF ClientStalls
  <2> QED BY <1>1, <1>2, <1>4, <1>5, <2>1, CapsFrame DEF p, request
\* The server's side.
<1>13. ASSUME NEW s, NEW ends, ServerEnds(s, ends), server.pc # "accept",
              s = [pc |-> s.pc, read |-> s.read, outcome |-> s.outcome, reply |-> s.reply,
                   bytes |-> server.bytes, cut |-> s.cut],
              s.read \in 0..n,
              p \in OneLine \cup {"spartan"} => s.read <= MaxLine + MaxUpload + 1,
              p = "spartan" /\ s.outcome.kind = "ask" => Len(s.outcome.request.data) <= MaxUpload
       PROVE  CapsInvariant'
  <2>1. server' = [s EXCEPT !.pc = "done"] /\ call' = call /\ client' = client /\ up' = up
    BY <1>13 DEF ServerEnds
  <2>2. server' = [pc |-> "done", read |-> s.read, outcome |-> s.outcome, reply |-> s.reply,
                   bytes |-> server.bytes, cut |-> s.cut]
    <3> DEFINE u == s.pc
               v == s.read
               w == s.outcome
               x == s.reply
               y == server.bytes
               z == s.cut
    <3>1. s = [pc |-> u, read |-> v, outcome |-> w, reply |-> x, bytes |-> y, cut |-> z]
      BY <1>13
    <3> HIDE DEF u, v, w, x, y, z
    <3>2. [s EXCEPT !.pc = "done"] =
            [pc |-> "done", read |-> v, outcome |-> w, reply |-> x, bytes |-> y, cut |-> z]
      BY <3>1
    <3> QED BY <2>1, <3>2 DEF u, v, w, x, y, z
  <2>3. PICK end : down' = [bytes |-> down.bytes, end |-> end]
    BY <1>62, <1>13 DEF ServerEnds
  <2>4. /\ client' = [pc |-> client.pc, request |-> request, read |-> client.read, result |-> client.result]
        /\ up' = [bytes |-> SubSeq(request, 1, n), end |-> up.end]
    BY <1>2, <2>1
  <2>5. (client.pc = "connect" => "done" = "accept") /\ call' = call
    BY <1>4, <1>13, <2>1
  <2>6. s.read \in 0..n
    BY <1>13
  <2>7. /\ p \in OneLine \cup {"spartan"} => s.read <= MaxLine + MaxUpload + 1
        /\ p = "spartan" /\ s.outcome.kind = "ask" => Len(s.outcome.request.data) <= MaxUpload
    BY <1>13
  <2> DEFINE v == s.read
             w == s.outcome
             x == s.reply
             z == s.cut
  <2>8. /\ server' = [pc |-> "done", read |-> v, outcome |-> w, reply |-> x, bytes |-> server.bytes, cut |-> z]
        /\ v \in 0..n
        /\ "done" \in {"accept", "read"} => Room(p, request, v)
        /\ p \in OneLine \cup {"spartan"} => v <= MaxLine + MaxUpload + 1
        /\ p = "spartan" /\ w.kind = "ask" => Len(w.request.data) <= MaxUpload
    BY <2>2, <2>5, <2>6, <2>7
  <2> HIDE DEF v, w, x, z
  <2>9. Flow /\ (p \in Measured /\ client.result.kind = "ok" => Len(client.result.response.body) <= MaxBody)
    BY <1>1, <1>5
  <2> QED BY <1>21, <2>3, <2>4, <2>5, <2>8, <2>9, CapsFrame, SMTT(30) DEF p, request
<1>14. ASSUME NEW reply, NEW s, server' = Replying(s, reply), UNCHANGED <<call, client, up, down>>,
              server.pc # "accept",
              s = [pc |-> s.pc, read |-> s.read, outcome |-> s.outcome, reply |-> s.reply,
                   bytes |-> s.bytes, cut |-> s.cut],
              s.read \in 0..n,
              p \in OneLine \cup {"spartan"} => s.read <= MaxLine + MaxUpload + 1,
              p = "spartan" /\ s.outcome.kind = "ask" => Len(s.outcome.request.data) <= MaxUpload,
              p \in Measured => IsBytes(ServerBytes(p, s.outcome, reply))
       PROVE  CapsInvariant'
  <2> DEFINE bytes == ServerBytes(p, s.outcome, reply)
  <2>1. server' = [s EXCEPT !.pc = "write", !.reply = reply, !.bytes = bytes]
    BY <1>14 DEF Replying, p
  <2> HIDE DEF bytes
  <2>2. server' = [pc |-> "write", read |-> s.read, outcome |-> s.outcome, reply |-> reply,
                   bytes |-> bytes, cut |-> s.cut]
    <3> DEFINE u == s.pc
               v == s.read
               w == s.outcome
               x == s.reply
               y == s.bytes
               z == s.cut
    <3>1. s = [pc |-> u, read |-> v, outcome |-> w, reply |-> x, bytes |-> y, cut |-> z]
      BY <1>14
    <3> HIDE DEF u, v, w, x, y, z
    <3> DEFINE s1 == [s EXCEPT !.pc = "write"]
               s2 == [s1 EXCEPT !.reply = reply]
    <3>2. s1 = [pc |-> "write", read |-> v, outcome |-> w, reply |-> x, bytes |-> y, cut |-> z]
      BY <3>1
    <3> HIDE DEF s1
    <3>3. s2 = [pc |-> "write", read |-> v, outcome |-> w, reply |-> reply, bytes |-> y, cut |-> z]
      BY <3>2
    <3> HIDE DEF s2
    <3>4. [s2 EXCEPT !.bytes = bytes] =
            [pc |-> "write", read |-> v, outcome |-> w, reply |-> reply, bytes |-> bytes, cut |-> z]
      BY <3>3
    <3>5. [s EXCEPT !.pc = "write", !.reply = reply, !.bytes = bytes] = [s2 EXCEPT !.bytes = bytes]
      BY DEF s1, s2
    <3> QED BY <2>1, <3>4, <3>5 DEF v, w, z
  <2>3. /\ client' = [pc |-> client.pc, request |-> request, read |-> client.read, result |-> client.result]
        /\ up' = [bytes |-> SubSeq(request, 1, n), end |-> up.end]
        /\ down' = [bytes |-> down.bytes, end |-> down.end] /\ call' = call
    BY <1>2, <1>14
  <2>4. client.pc = "connect" => "write" = "accept"
    BY <1>4, <1>14
  <2>5. p \in Measured => IsBytes(bytes)
    BY <1>14 DEF bytes
  <2>6. s.read \in 0..n
    BY <1>14
  <2>7. /\ p \in OneLine \cup {"spartan"} => s.read <= MaxLine + MaxUpload + 1
        /\ p = "spartan" /\ s.outcome.kind = "ask" => Len(s.outcome.request.data) <= MaxUpload
    BY <1>14
  <2> DEFINE v == s.read
             w == s.outcome
             x == s.reply
             z == s.cut
  <2>8. /\ server' = [pc |-> "write", read |-> v, outcome |-> w, reply |-> reply, bytes |-> bytes, cut |-> z]
        /\ v \in 0..n
        /\ "write" \in {"accept", "read"} => Room(p, request, v)
        /\ p \in OneLine \cup {"spartan"} => v <= MaxLine + MaxUpload + 1
        /\ p = "spartan" /\ w.kind = "ask" => Len(w.request.data) <= MaxUpload
    BY <2>2, <2>4, <2>6, <2>7
  <2> HIDE DEF v, w, x, z
  <2>9. Flow /\ (p \in Measured /\ client.result.kind = "ok" => Len(client.result.response.body) <= MaxBody)
    BY <1>1, <1>5
  <2> QED BY <1>21, <2>3, <2>4, <2>5, <2>8, <2>9, CapsFrame, SMTT(30) DEF p, request
<1>15. CASE ServerReads
  <2> DEFINE more == server.read < Len(up.bytes)
             read == IF more THEN server.read + 1 ELSE server.read
             end == IF more THEN "open" ELSE up.end
             outcome == Serve(p, SubSeq(up.bytes, 1, read), end)
             s == [server EXCEPT !.read = read, !.outcome = outcome]
  <2>1. /\ server.pc = "read"
        /\ \/ outcome.kind = "more" /\ server' = s /\ UNCHANGED <<call, client, up, down>>
           \/ outcome.kind = "ask" /\ server' = [s EXCEPT !.pc = "handle"] /\ UNCHANGED <<call, client, up, down>>
           \/ outcome.kind = "reply" /\ server' = Replying(s, outcome.reply) /\ UNCHANGED <<call, client, up, down>>
           \/ outcome.kind = "close" /\ ServerEnds(s, {"eof"})
           \/ outcome.kind = "fail" /\ ServerEnds(s, DropEnds)
    BY <1>15 DEF ServerReads, p
  <2>2. read \in {server.read, server.read + 1} /\ read \in 0..n
    BY <1>2, <1>3 DEF n
  <2> HIDE DEF read, end, more
  <2>3. SubSeq(up.bytes, 1, read) = SubSeq(request, 1, read)
    <3>1. up.bytes = SubSeq(request, 1, n)
      BY <1>2
    <3> QED BY <1>21, <1>3, <2>2, <3>1, FirstOfFirst
  <2>4. read \in 0..Len(request) /\ server.read \in 0..Len(request)
    BY <1>2, <1>3, <2>2
  <2>5. /\ p \in OneLine \cup {"spartan"} => read <= MaxLine + MaxUpload + 1
        /\ outcome.kind = "more" => Room(p, request, read)
        /\ p = "spartan" /\ outcome.kind = "ask" => Len(outcome.request.data) <= MaxUpload
    BY <1>3, <1>4, <2>1, <2>2, <2>3, <2>4, RoomLeft
  <2>6. p \in Measured /\ outcome.kind = "reply" => IsBytes(ServerBytes(p, outcome, outcome.reply))
    BY RefusalTyped DEF Measured
  <2> HIDE DEF outcome
  <2>7. s = [pc |-> server.pc, read |-> read, outcome |-> outcome,
             reply |-> server.reply, bytes |-> server.bytes, cut |-> server.cut]
    BY <1>63
  <2> HIDE DEF s
  <2>8. /\ s.read = read /\ s.outcome = outcome /\ s.bytes = server.bytes /\ s.cut = server.cut
        /\ s.reply = server.reply /\ s.pc = server.pc
    BY <2>7
  <2>9. /\ s = [pc |-> s.pc, read |-> s.read, outcome |-> s.outcome, reply |-> s.reply,
                bytes |-> server.bytes, cut |-> s.cut]
        /\ s = [pc |-> s.pc, read |-> s.read, outcome |-> s.outcome, reply |-> s.reply,
                bytes |-> s.bytes, cut |-> s.cut]
    BY <2>7, <2>8
  <2>10. /\ s.read \in 0..n
         /\ p \in OneLine \cup {"spartan"} => s.read <= MaxLine + MaxUpload + 1
         /\ p = "spartan" /\ s.outcome.kind = "ask" => Len(s.outcome.request.data) <= MaxUpload
    BY <2>2, <2>5, <2>8
  <2>11. server.pc # "accept"
    BY <2>1
  <2>12. CASE \E ends : ServerEnds(s, ends)
    BY <1>13, <2>9, <2>10, <2>11, <2>12
  <2>13. CASE outcome.kind = "reply" /\ server' = Replying(s, outcome.reply) /\ UNCHANGED <<call, client, up, down>>
    <3>1. p \in Measured => IsBytes(ServerBytes(p, s.outcome, outcome.reply))
      BY <2>6, <2>8, <2>13
    <3> QED BY <1>14, <2>9, <2>10, <2>11, <2>13, <3>1
  <2>14. ASSUME NEW pc, server' = [pc |-> pc, read |-> read, outcome |-> outcome,
                                   reply |-> server.reply, bytes |-> server.bytes, cut |-> server.cut],
                UNCHANGED <<call, client, up, down>>, pc \in {"read", "handle"},
                pc = "read" => Room(p, request, read)
         PROVE  CapsInvariant'
    <3>1. /\ client' = [pc |-> client.pc, request |-> request, read |-> client.read, result |-> client.result]
          /\ up' = [bytes |-> SubSeq(request, 1, n), end |-> up.end]
          /\ down' = [bytes |-> down.bytes, end |-> down.end] /\ call' = call
      BY <1>2, <2>14
    <3>2. (client.pc = "connect" => pc = "accept") /\ (pc \in {"accept", "read"} => Room(p, request, read))
      BY <1>4, <2>11, <2>14
    <3>3. Flow /\ (p \in Measured /\ client.result.kind = "ok" => Len(client.result.response.body) <= MaxBody)
      BY <1>1, <1>5
    <3>4. server' = [pc |-> pc, read |-> read, outcome |-> outcome,
                     reply |-> server.reply, bytes |-> server.bytes, cut |-> server.cut]
      BY <2>14
    <3> QED BY <1>21, <2>2, <2>5, <3>1, <3>2, <3>3, <3>4, CapsFrame DEF p, request
  <2>15. CASE outcome.kind = "more" /\ server' = s /\ UNCHANGED <<call, client, up, down>>
    BY <2>1, <2>5, <2>7, <2>14, <2>15
  <2>16. CASE outcome.kind = "ask" /\ server' = [s EXCEPT !.pc = "handle"] /\ UNCHANGED <<call, client, up, down>>
    <3> DEFINE u == server.pc
               x == server.reply
               y == server.bytes
               z == server.cut
    <3>1. s = [pc |-> u, read |-> read, outcome |-> outcome, reply |-> x, bytes |-> y, cut |-> z]
      BY <2>7
    <3> HIDE DEF u, x, y, z
    <3>2. [s EXCEPT !.pc = "handle"] =
            [pc |-> "handle", read |-> read, outcome |-> outcome, reply |-> x, bytes |-> y, cut |-> z]
      BY <3>1
    <3>3. server' = [pc |-> "handle", read |-> read, outcome |-> outcome,
                     reply |-> server.reply, bytes |-> server.bytes, cut |-> server.cut]
      BY <2>16, <3>2 DEF x, y, z
    <3> QED BY <2>14, <2>16, <3>3
  <2> QED BY <2>1, <2>12, <2>13, <2>15, <2>16
<1>16. CASE ServerHandles
  <2>1. PICK reply \in Replies[p] : server' = Replying(server, reply)
    BY <1>16 DEF ServerHandles, p
  <2>2. server.pc # "accept" /\ UNCHANGED <<call, client, up, down>>
    BY <1>16 DEF ServerHandles
  <2>3. p \in Measured => IsBytes(ServerBytes(p, server.outcome, reply))
    BY ReplyTyped DEF Measured
  <2>4. server = [pc |-> server.pc, read |-> server.read, outcome |-> server.outcome,
                  reply |-> server.reply, bytes |-> server.bytes, cut |-> server.cut]
        /\ server.read \in 0..n
    BY <1>2
  <2>5. /\ p \in OneLine \cup {"spartan"} => server.read <= MaxLine + MaxUpload + 1
        /\ p = "spartan" /\ server.outcome.kind = "ask" => Len(server.outcome.request.data) <= MaxUpload
    BY <1>5
  <2> QED BY <1>14, <2>1, <2>2, <2>3, <2>4, <2>5
<1>17. CASE ServerWrite
  <2>1. PICK m \in 0..Window : ServerWrites(m)
    BY <1>17 DEF ServerWrite
  <2> DEFINE w == Len(down.bytes) + m
  <2>2. /\ server.pc = "write" /\ w <= Len(server.bytes)
        /\ call' = call /\ client' = client /\ up' = up
        /\ \/ /\ server' = [server EXCEPT !.pc = "done"]
              /\ \E end \in ShutdownEnds : down' = [bytes |-> server.bytes, end |-> end]
           \/ /\ down' = [down EXCEPT !.bytes = SubSeq(server.bytes, 1, w)]
              /\ server' = server
    BY <2>1 DEF ServerWrites
  <2>3. p \in Measured => IsBytes(SubSeq(server.bytes, 1, w))
    <3> SUFFICES ASSUME p \in Measured PROVE IsBytes(SubSeq(server.bytes, 1, w))
      OBVIOUS
    <3>1. IsBytes(server.bytes) /\ IsBytes(down.bytes)
      BY <1>21
    <3>2. Len(server.bytes) \in Nat /\ Len(down.bytes) \in Nat
      <4>1. PICK X : server.bytes \in Seq(X)
        BY <3>1 DEF IsBytes
      <4>2. PICK Y : down.bytes \in Seq(Y)
        BY <3>1 DEF IsBytes
      <4> QED BY <4>1, <4>2
    <3>3. w \in 0..Len(server.bytes)
      BY <2>2, <3>2, ExchangeAssumption
    <3> HIDE DEF w
    <3> QED BY <3>1, <3>3, FirstIsBytes
  <2> HIDE DEF w
  <2>4. PICK pc, bytes, end :
          /\ server' = [pc |-> pc, read |-> server.read, outcome |-> server.outcome,
                        reply |-> server.reply, bytes |-> server.bytes, cut |-> server.cut]
          /\ down' = [bytes |-> bytes, end |-> end]
          /\ pc \in {"write", "done"} /\ bytes \in {server.bytes, SubSeq(server.bytes, 1, w)}
    <3>1. CASE /\ server' = [server EXCEPT !.pc = "done"]
               /\ \E end \in ShutdownEnds : down' = [bytes |-> server.bytes, end |-> end]
      BY <1>63, <3>1
    <3>2. CASE down' = [down EXCEPT !.bytes = SubSeq(server.bytes, 1, w)] /\ server' = server
      <4>1. down' = [bytes |-> SubSeq(server.bytes, 1, w), end |-> down.end]
        BY <1>62, <3>2
      <4>2. server' = [pc |-> server.pc, read |-> server.read, outcome |-> server.outcome,
                       reply |-> server.reply, bytes |-> server.bytes, cut |-> server.cut]
        BY <1>2, <3>2
      <4>3. server.pc = "write"
        BY <2>2
      <4> QED BY <4>1, <4>2, <4>3
    <3> QED BY <2>2, <3>1, <3>2
  <2>5. /\ client' = [pc |-> client.pc, request |-> request, read |-> client.read, result |-> client.result]
        /\ up' = [bytes |-> SubSeq(request, 1, n), end |-> up.end] /\ call' = call
    BY <1>2, <2>2
  <2>6. /\ client.pc = "connect" => pc = "accept"
        /\ pc \in {"accept", "read"} => Room(p, request, server.read)
        /\ p \in Measured => IsBytes(server.bytes) /\ IsBytes(bytes)
        /\ server.read \in 0..n
    BY <1>2, <1>4, <2>2, <2>3, <2>4
  <2>7. server' = [pc |-> pc, read |-> server.read, outcome |-> server.outcome,
                   reply |-> server.reply, bytes |-> server.bytes, cut |-> server.cut]
        /\ down' = [bytes |-> bytes, end |-> end]
    BY <2>4
  <2> QED BY <1>1, <1>21, <1>5, <2>5, <2>6, <2>7, CapsFrame DEF p, request
<1>18. CASE ServerWriteFails \/ ServerTimesOut \/ ServerDies
  <2> DEFINE s == [server EXCEPT !.cut = TRUE]
  <2>1. ServerEnds(s, DropEnds) /\ server.pc # "accept"
    BY <1>18 DEF ServerWriteFails, ServerTimesOut, ServerDies
  <2>2. s = [pc |-> server.pc, read |-> server.read, outcome |-> server.outcome,
             reply |-> server.reply, bytes |-> server.bytes, cut |-> TRUE]
    BY <1>63
  <2> HIDE DEF s
  <2>3. /\ s.read = server.read /\ s.outcome = server.outcome /\ s.cut = TRUE
        /\ s.reply = server.reply /\ s.pc = server.pc
    BY <2>2
  <2>4. s = [pc |-> s.pc, read |-> s.read, outcome |-> s.outcome, reply |-> s.reply,
             bytes |-> server.bytes, cut |-> s.cut]
    BY <2>2, <2>3
  <2>5. /\ s.read \in 0..n
        /\ p \in OneLine \cup {"spartan"} => s.read <= MaxLine + MaxUpload + 1
        /\ p = "spartan" /\ s.outcome.kind = "ask" => Len(s.outcome.request.data) <= MaxUpload
    BY <1>2, <1>5, <2>3
  <2> QED BY <1>13, <2>1, <2>4, <2>5
<1>19. CASE ServerStalls
  <2>1. /\ server' = [pc |-> "stalled", read |-> server.read, outcome |-> server.outcome,
                      reply |-> server.reply, bytes |-> server.bytes, cut |-> server.cut]
        /\ client' = [pc |-> client.pc, request |-> request, read |-> client.read, result |-> client.result]
        /\ up' = [bytes |-> SubSeq(request, 1, n), end |-> up.end]
        /\ down' = [bytes |-> down.bytes, end |-> down.end] /\ call' = call
    BY <1>2, <1>63, <1>19 DEF ServerStalls
  <2>2. /\ client.pc = "connect" => "stalled" = "accept"
        /\ "stalled" \in {"accept", "read"} => Room(p, request, server.read)
        /\ server.read \in 0..n
    BY <1>2, <1>4, <1>19 DEF ServerStalls
  <2> DEFINE v == server.read
             w == server.outcome
             x == server.reply
             z == server.cut
  <2>3. /\ server' = [pc |-> "stalled", read |-> v, outcome |-> w, reply |-> x,
                      bytes |-> server.bytes, cut |-> z]
        /\ "stalled" \in {"accept", "read"} => Room(p, request, v)
        /\ v \in 0..n
        /\ p \in OneLine \cup {"spartan"} => v <= MaxLine + MaxUpload + 1
        /\ p = "spartan" /\ w.kind = "ask" => Len(w.request.data) <= MaxUpload
    BY <1>5, <2>1, <2>2
  <2>4. Flow /\ (p \in Measured /\ client.result.kind = "ok" => Len(client.result.response.body) <= MaxBody)
    BY <1>1, <1>5
  <2>5. /\ client.pc = "connect" => "stalled" = "accept"
        /\ client' = [pc |-> client.pc, request |-> request, read |-> client.read, result |-> client.result]
        /\ up' = [bytes |-> SubSeq(request, 1, n), end |-> up.end]
        /\ down' = [bytes |-> down.bytes, end |-> down.end] /\ call' = call
    BY <2>1, <2>2
  <2> HIDE DEF v, w, x, z
  <2> QED BY <1>21, <2>3, <2>4, <2>5, CapsFrame DEF p, request
<1>20. CASE UNCHANGED vars
  <2>1. /\ server' = [pc |-> server.pc, read |-> server.read, outcome |-> server.outcome,
                      reply |-> server.reply, bytes |-> server.bytes, cut |-> server.cut]
        /\ client' = [pc |-> client.pc, request |-> request, read |-> client.read, result |-> client.result]
        /\ up' = [bytes |-> SubSeq(request, 1, n), end |-> up.end]
        /\ down' = [bytes |-> down.bytes, end |-> down.end] /\ call' = call
    BY <1>2, <1>20 DEF vars
  <2>2. server.read \in 0..n
    BY <1>2
  <2>3. /\ client.pc = "connect" => server.pc = "accept"
        /\ server.pc \in {"accept", "read"} => Room(p, request, server.read)
    BY <1>4
  <2> QED BY <1>1, <1>21, <1>5, <2>1, <2>2, <2>3, CapsFrame DEF p, request
<1> QED BY <1>8, <1>9, <1>10, <1>11, <1>12, <1>15, <1>16, <1>17, <1>18, <1>19, <1>20 DEF Next

\* No side of a connection holds more than its limits allow, whatever the other side
\* writes and however the bytes arrive: a server reads no further than its line and its
\* upload, a spartan handler is given no block above max_upload, and the body a client of
\* spartan, nex or scorpion returns is within max_body.
THEOREM CapsAreHonoured == Spec => []CapsHonoured
<1>1. CapsInvariant => CapsHonoured
  BY DEF CapsInvariant
<1> QED BY <1>1, CapsInit, CapsStep, PTL DEF Spec
=============================================================================
