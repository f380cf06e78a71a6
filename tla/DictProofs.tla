------------------------------- MODULE DictProofs -------------------------------
(***************************************************************************)
(* Proofs about Dict, for all commands, answers and lengths of a session.  *)
(***************************************************************************)
EXTENDS Dict, LineProofs

----------------------------------------------------------------------------
(* Sequences.                                                              *)

\* FlattenSeq joins its sequences one after the other.
LEMMA FlattenParts ==
    ASSUME NEW A, NEW seqs \in Seq(Seq(A))
    PROVE  \E f : /\ f \in [0..Len(seqs) -> Seq(A)] /\ f[0] = <<>>
                  /\ \A i \in 1..Len(seqs) : f[i] = f[i - 1] \o seqs[i]
                  /\ FlattenSeq(seqs) = f[Len(seqs)]
<1> DEFINE N == Len(seqs)
           Plus(a, i) == a \o seqs[i]
           step == [i \in 1..N |-> [v \in Seq(A) |-> Plus(v, i)]]
<1>1. N \in Nat /\ \A i \in 1..N : seqs[i] \in Seq(A)
  OBVIOUS
<1>2. \A i \in 1..N : \A v \in Seq(A) : Plus(v, i) \in Seq(A)
  BY <1>1
<1>3. <<>> \in Seq(A)
  OBVIOUS
<1>4. \A v \in Seq(A) : <<>> \o v = v
  BY ConcatEmptySeq
<1>5. PICK f : /\ f \in [0..N -> Seq(A)] /\ f[0] = <<>>
               /\ \A i \in 1..N : f[i] = Plus(f[i - 1], i)
  <2>1. step \in Steps(Seq(A), N)
    <3> HIDE DEF Plus
    <3> QED BY <1>2 DEF Steps
  <2>2. \E f : Iterated(f, Seq(A), N, <<>>, step)
    <3> HIDE DEF step
    <3> QED BY <1>1, <1>3, <2>1, Iterates
  <2>3. PICK f : Iterated(f, Seq(A), N, <<>>, step)
    BY <2>2
  <2>4. ASSUME NEW i \in 1..N
        PROVE  f[i] = Plus(f[i - 1], i)
    <3>1. f[i - 1] \in Seq(A) /\ f[i] = step[i][f[i - 1]]
      <4> HIDE DEF step, Plus
      <4>1. f \in [0..N -> Seq(A)] /\ i - 1 \in 0..N
        BY <1>1, <2>3 DEF Iterated
      <4>2. f[i] = step[i][f[i - 1]]
        BY <2>3 DEF Iterated
      <4> QED BY <4>1, <4>2
    <3> HIDE DEF Plus
    <3> QED BY <3>1
  <2> HIDE DEF step, Plus
  <2> QED BY <2>3, <2>4 DEF Iterated
<1>6. CASE N = 0
  <2>1. FlattenSeq(seqs) = seqs /\ seqs = <<>>
    BY <1>6 DEF FlattenSeq
  <2> QED BY <1>5, <1>6, <2>1
<1>7. CASE N # 0
  <2> DEFINE Flat(g) == [i \in 1..N |-> IF i = 1 THEN seqs[i] ELSE Plus(g[i - 1], i)]
             flat == CHOOSE flatten : flatten = Flat(flatten)
  <2>1. FlattenSeq(seqs) = flat[N]
    BY <1>7 DEF FlattenSeq
  <2> HIDE DEF Plus
  <2>2. \E flatten : flatten = Flat(flatten)
    <3> DEFINE g == [i \in 1..N |-> f[i]]
    <3>1. ASSUME NEW i \in 1..N
          PROVE  f[i] = Flat(g)[i]
      <4>1. CASE i = 1
        <5>1. f[1] = Plus(f[0], 1) /\ f[0] = <<>> /\ seqs[1] \in Seq(A)
          BY <1>1, <1>5, <4>1
        <5>2. f[1] = seqs[1]
          BY <1>4, <5>1 DEF Plus
        <5> QED BY <4>1, <5>2
      <4>2. CASE i # 1
        <5>1. i - 1 \in 1..N /\ g[i - 1] = f[i - 1]
          BY <1>1, <4>2
        <5> QED BY <1>5, <4>2, <5>1
      <4> QED BY <4>1, <4>2
    <3>2. g = Flat(g)
      BY <3>1
    <3> HIDE DEF g
    <3> QED BY <3>2
  <2>3. flat = Flat(flat)
    <3> HIDE DEF Flat
    <3> QED BY <2>2
  <2> HIDE DEF flat
  <2>4. \A i \in 0..N : i \in {j \in 0..N : j = 0 \/ flat[j] = f[j]}
    <3> DEFINE Holds == {j \in 0..N : j = 0 \/ flat[j] = f[j]}
    <3>1. 0 \in Holds
      BY <1>1
    <3>2. ASSUME NEW i \in 1..N, i - 1 \in Holds
          PROVE  i \in Holds
      <4>1. flat[i] = IF i = 1 THEN seqs[i] ELSE Plus(flat[i - 1], i)
        <5>1. Flat(flat)[i] = IF i = 1 THEN seqs[i] ELSE Plus(flat[i - 1], i)
          OBVIOUS
        <5> HIDE DEF Flat
        <5> QED BY <2>3, <5>1
      <4>2. CASE i = 1
        <5>1. f[1] = Plus(f[0], 1) /\ f[0] = <<>> /\ seqs[1] \in Seq(A)
          BY <1>1, <1>5, <4>2
        <5>2. f[1] = seqs[1]
          BY <1>4, <5>1 DEF Plus
        <5> QED BY <1>1, <4>1, <4>2, <5>2
      <4>3. CASE i # 1
        <5>1. flat[i - 1] = f[i - 1]
          BY <1>1, <3>2, <4>3
        <5>2. flat[i] = f[i]
          BY <1>5, <4>1, <4>3, <5>1
        <5> QED BY <1>1, <5>2
      <4> QED BY <4>2, <4>3
    <3> HIDE DEF Holds
    <3>3. \A i \in 0..N : i \in Holds
      BY <1>1, <3>1, <3>2, CountUp
    <3> QED BY <3>3 DEF Holds
  <2>5. flat[N] = f[N]
    BY <1>1, <1>7, <2>4
  <2> QED BY <1>5, <2>1, <2>5 DEF Plus
<1> QED BY <1>6, <1>7

----------------------------------------------------------------------------
(* split_params undoes quote.                                              *)

\* What is put together of two texts, and of three.
LEMMA Joined ==
    ASSUME NEW a \in Seq(Chars), NEW b \in Seq(Chars)
    PROVE  /\ a \o b \in Seq(Chars) /\ Len(a \o b) = Len(a) + Len(b)
           /\ Len(a) \in Nat /\ Len(b) \in Nat /\ DOMAIN (a \o b) = 1..(Len(a) + Len(b))
           /\ \A i \in 1..Len(a) : (a \o b)[i] = a[i]
           /\ \A i \in 1..Len(b) : (a \o b)[Len(a) + i] = b[i]
OBVIOUS

\* The order of putting them together is immaterial.
LEMMA Regrouped ==
    ASSUME NEW a \in Seq(Chars), NEW b \in Seq(Chars), NEW c \in Seq(Chars)
    PROVE  (a \o b) \o c = a \o (b \o c)
BY ConcatAssociative

\* The grammars of the two readers.
Grammars == {ClientGrammar, ServerGrammar}

\* What they take for marks.
LEMMA GrammarMarks ==
    ASSUME NEW G \in Grammars
    PROVE  /\ Quotation \in G.marks /\ Backslash \notin G.marks
           /\ \A c \in White : c \notin G.marks
           /\ Quotation # Outside /\ Backslash # Quotation /\ G.everywhere \in BOOLEAN
           /\ Backslash \notin White /\ SP \in White /\ SP # Backslash /\ SP \notin G.marks
<1>1. CASE G = ClientGrammar
  <2>1. G.marks = {Quotation}
    BY <1>1 DEF ClientGrammar
  <2>2. G.everywhere = FALSE
    BY <1>1 DEF ClientGrammar
  <2> QED BY <2>1, <2>2 DEF Quotation, Apostrophe, Backslash, White, CR, LF, SP, TAB, Outside
<1>2. CASE G = ServerGrammar
  <2>1. G.marks = {Quotation, Apostrophe}
    BY <1>2 DEF ServerGrammar
  <2>2. G.everywhere = TRUE
    BY <1>2 DEF ServerGrammar
  <2> QED BY <2>1, <2>2 DEF Quotation, Apostrophe, Backslash, White, CR, LF, SP, TAB, Outside
<1> QED BY <1>1, <1>2 DEF Grammars

SplitRec ==
    [params : Seq(Seq(Chars)), current : Seq(Chars), within : {Outside} \cup Chars, escaped : BOOLEAN,
     started : BOOLEAN]

\* The loop keeps its variables well typed.
LEMMA StepTyped ==
    ASSUME NEW G \in Grammars, NEW s \in SplitRec, NEW c \in Chars
    PROVE  SplitStep(G, s, c) \in SplitRec
<1>1. Append(s.current, c) \in Seq(Chars) /\ Append(s.params, s.current) \in Seq(Seq(Chars))
  BY DEF SplitRec
<1>2. SplitPush(s) \in SplitRec
  <2>1. <<>> \in Seq(Chars)
    OBVIOUS
  <2>2. [s EXCEPT !.params = Append(@, s.current), !.current = <<>>, !.started = FALSE] \in SplitRec
    BY <1>1, <2>1 DEF SplitRec
  <2> QED BY <2>2 DEF SplitPush
<1>3. [s EXCEPT !.current = Append(@, c)] \in SplitRec
  BY <1>1 DEF SplitRec
<1>4. [s EXCEPT !.current = Append(@, c), !.escaped = FALSE] \in SplitRec
  BY <1>1 DEF SplitRec
<1>5. [s EXCEPT !.escaped = TRUE] \in SplitRec
  BY DEF SplitRec
<1>6. [s EXCEPT !.within = c, !.started = TRUE] \in SplitRec
  BY DEF SplitRec
<1>7. [s EXCEPT !.within = Outside, !.started = TRUE] \in SplitRec
  BY DEF SplitRec
<1> DEFINE escapes == c = Backslash /\ (s.within # Outside \/ G.everywhere)
           opens == c \in G.marks /\ s.within = Outside
           closes == c \in G.marks /\ s.within = c
<1>8. CASE s.escaped
  BY <1>4, <1>8 DEF SplitStep
<1>9. CASE ~s.escaped /\ escapes
  BY <1>5, <1>9, GrammarMarks DEF SplitStep, SplitRec
<1>10. CASE ~s.escaped /\ ~escapes /\ opens
  BY <1>6, <1>10, GrammarMarks DEF SplitStep
<1>11. CASE ~s.escaped /\ ~escapes /\ ~opens /\ closes
  BY <1>7, <1>11, GrammarMarks DEF SplitStep
<1>12. CASE ~s.escaped /\ ~escapes /\ ~opens /\ ~closes
  BY <1>2, <1>3, <1>12 DEF SplitStep
<1> QED BY <1>8, <1>9, <1>10, <1>11, <1>12

\* A run goes through the states of the loop.
LEMMA RunStates ==
    ASSUME NEW G \in Grammars, NEW start \in SplitRec, NEW text \in Seq(Chars)
    PROVE  \E g : /\ g \in [0..Len(text) -> SplitRec] /\ g[0] = start
                  /\ \A i \in 1..Len(text) : g[i] = SplitStep(G, g[i - 1], text[i])
                  /\ SplitRun(G, start, text) = g[Len(text)]
<1> DEFINE N == Len(text)
           step == [i \in 1..N |-> [v \in SplitRec |-> SplitStep(G, v, text[i])]]
           Walk(g) == [i \in 0..N |-> IF i = 0 THEN start ELSE SplitStep(G, g[i - 1], text[i])]
           walked == CHOOSE state : state = Walk(state)
<1>1. N \in Nat /\ \A i \in 1..N : text[i] \in Chars
  OBVIOUS
<1>2. step \in Steps(SplitRec, N)
  BY <1>1, StepTyped DEF Steps
<1>3. PICK g : Iterated(g, SplitRec, N, start, step)
  <2> HIDE DEF step
  <2> QED BY <1>1, <1>2, Iterates
<1>4. g \in [0..N -> SplitRec] /\ g[0] = start
  BY <1>3 DEF Iterated
<1>5. ASSUME NEW i \in 1..N
      PROVE  g[i] = SplitStep(G, g[i - 1], text[i])
  <2>1. g[i] = step[i][g[i - 1]]
    <3> HIDE DEF step
    <3> QED BY <1>3 DEF Iterated
  <2>2. g[i - 1] \in SplitRec
    BY <1>1, <1>4
  <2> QED BY <2>1, <2>2
<1>6. \A i \in 0..N : g[i] = Walk(g)[i]
  BY <1>1, <1>4, <1>5
<1>7. g = Walk(g)
  BY <1>4, <1>6
<1>8. walked = Walk(walked)
  <2> HIDE DEF Walk
  <2> QED BY <1>7
<1>9. SplitRun(G, start, text) = walked[N]
  BY DEF SplitRun
<1> HIDE DEF walked
<1>10. \A i \in 0..N : walked[i] = IF i = 0 THEN start ELSE SplitStep(G, walked[i - 1], text[i])
  <2> SUFFICES ASSUME NEW i \in 0..N
               PROVE  walked[i] = Walk(walked)[i]
    OBVIOUS
  <2> HIDE DEF Walk
  <2> QED BY <1>8
<1>11. \A i \in 0..N : i \in {j \in 0..N : walked[j] = g[j]}
  <2> DEFINE Holds == {j \in 0..N : walked[j] = g[j]}
  <2>1. 0 \in Holds
    BY <1>1, <1>4, <1>10
  <2>2. ASSUME NEW i \in 1..N, i - 1 \in Holds
        PROVE  i \in Holds
    BY <1>1, <1>5, <1>10, <2>2
  <2> HIDE DEF Holds
  <2>3. \A i \in 0..N : i \in Holds
    BY <1>1, <2>1, <2>2, CountUp
  <2> QED BY <2>3 DEF Holds
<1>12. SplitRun(G, start, text) = g[N]
  BY <1>1, <1>9, <1>11
<1> QED BY <1>4, <1>5, <1>12

\* Whatever goes through the steps of the loop is the run.
LEMMA RunIs ==
    ASSUME NEW G \in Grammars, NEW start \in SplitRec, NEW text \in Seq(Chars), NEW g, g[0] = start,
           \A i \in 1..Len(text) : g[i] = SplitStep(G, g[i - 1], text[i])
    PROVE  SplitRun(G, start, text) = g[Len(text)] /\ g[Len(text)] \in SplitRec
<1>1. PICK h : /\ h \in [0..Len(text) -> SplitRec] /\ h[0] = start
               /\ \A i \in 1..Len(text) : h[i] = SplitStep(G, h[i - 1], text[i])
               /\ SplitRun(G, start, text) = h[Len(text)]
  BY RunStates
<1> DEFINE Holds == {j \in 0..Len(text) : g[j] = h[j]}
<1>2. Len(text) \in Nat
  OBVIOUS
<1>3. 0 \in Holds
  BY <1>1, <1>2
<1>4. ASSUME NEW i \in 1..Len(text), i - 1 \in Holds
      PROVE  i \in Holds
  BY <1>1, <1>2, <1>4
<1> HIDE DEF Holds
<1>5. \A i \in 0..Len(text) : i \in Holds
  BY <1>2, <1>3, <1>4, CountUp
<1>6. g[Len(text)] = h[Len(text)]
  BY <1>2, <1>5 DEF Holds
<1> QED BY <1>1, <1>2, <1>6

\* A run over no character stays where it is.
LEMMA RunNone ==
    ASSUME NEW G \in Grammars, NEW s \in SplitRec, NEW text \in Seq(Chars), Len(text) = 0
    PROVE  SplitRun(G, s, text) = s
<1>1. PICK g : /\ g \in [0..Len(text) -> SplitRec] /\ g[0] = s
               /\ \A i \in 1..Len(text) : g[i] = SplitStep(G, g[i - 1], text[i])
               /\ SplitRun(G, s, text) = g[Len(text)]
  BY RunStates
<1> QED BY <1>1

\* A run over one character is a step.
LEMMA RunOne ==
    ASSUME NEW G \in Grammars, NEW s \in SplitRec, NEW text \in Seq(Chars), Len(text) = 1
    PROVE  SplitRun(G, s, text) = SplitStep(G, s, text[1])
<1>1. PICK g : /\ g[0] = s /\ SplitRun(G, s, text) = g[Len(text)]
               /\ \A i \in 1..Len(text) : g[i] = SplitStep(G, g[i - 1], text[i])
  BY RunStates
<1>2. 1 \in 1..Len(text) /\ 1 - 1 = 0
  OBVIOUS
<1> QED BY <1>1, <1>2

\* A run ends in a state of the loop.
LEMMA RunTyped ==
    ASSUME NEW G \in Grammars, NEW s \in SplitRec, NEW a \in Seq(Chars)
    PROVE  SplitRun(G, s, a) \in SplitRec
<1>1. PICK g : g \in [0..Len(a) -> SplitRec] /\ SplitRun(G, s, a) = g[Len(a)]
  BY RunStates
<1>2. Len(a) \in 0..Len(a)
  OBVIOUS
<1> QED BY <1>1, <1>2

\* A run over two texts is one over the second from where the first ends.
LEMMA RunConcat ==
    ASSUME NEW G \in Grammars, NEW s \in SplitRec, NEW a \in Seq(Chars), NEW b \in Seq(Chars)
    PROVE  SplitRun(G, s, a \o b) = SplitRun(G, SplitRun(G, s, a), b)
<1>1. PICK g : /\ g \in [0..Len(a) -> SplitRec] /\ g[0] = s
               /\ \A i \in 1..Len(a) : g[i] = SplitStep(G, g[i - 1], a[i])
               /\ SplitRun(G, s, a) = g[Len(a)]
  BY RunStates
<1>2. SplitRun(G, s, a) \in SplitRec
  BY RunTyped
<1>3. PICK h : /\ h[0] = SplitRun(G, s, a)
               /\ \A i \in 1..Len(b) : h[i] = SplitStep(G, h[i - 1], b[i])
               /\ SplitRun(G, SplitRun(G, s, a), b) = h[Len(b)]
  BY <1>2, RunStates
<1> DEFINE m == Len(a)
           n == Len(b)
           k == [i \in 0..(m + n) |-> IF i <= m THEN g[i] ELSE h[i - m]]
<1>4. /\ m \in Nat /\ n \in Nat /\ a \o b \in Seq(Chars) /\ Len(a \o b) = m + n
      /\ \A i \in 1..(m + n) : (a \o b)[i] = IF i <= m THEN a[i] ELSE b[i - m]
  OBVIOUS
<1>5. k[0] = s
  BY <1>1, <1>4
<1>6. ASSUME NEW i \in 1..(m + n)
      PROVE  k[i] = SplitStep(G, k[i - 1], (a \o b)[i])
  <2>1. CASE i <= m
    <3>1. i \in 1..m /\ k[i] = g[i] /\ k[i - 1] = g[i - 1] /\ (a \o b)[i] = a[i]
      BY <1>4, <2>1
    <3> QED BY <1>1, <3>1
  <2>2. CASE i = m + 1
    <3>1. /\ i \in 0..(m + n) /\ m \in 0..(m + n) /\ i - 1 = m /\ i - m = 1
          /\ ~(i <= m) /\ m <= m /\ 1 \in 1..n
      BY <1>4, <2>2
    <3>2. k[i] = h[1] /\ k[i - 1] = g[m] /\ (a \o b)[i] = b[1]
      BY <1>4, <3>1
    <3>3. h[1] = SplitStep(G, h[1 - 1], b[1]) /\ 1 - 1 = 0
      BY <1>3, <3>1
    <3> QED BY <1>1, <1>3, <3>2, <3>3
  <2>3. CASE i > m + 1
    <3>1. /\ i \in 0..(m + n) /\ i - 1 \in 0..(m + n) /\ ~(i <= m) /\ ~(i - 1 <= m)
          /\ i - m \in 1..n /\ (i - 1) - m = (i - m) - 1
      BY <1>4, <2>3
    <3>2. k[i] = h[i - m] /\ k[i - 1] = h[(i - m) - 1] /\ (a \o b)[i] = b[i - m]
      BY <1>4, <3>1
    <3> QED BY <1>3, <3>1, <3>2
  <2> QED BY <1>4, <2>1, <2>2, <2>3
<1>7. k[m + n] = h[n]
  <2>1. CASE n = 0
    <3>1. m + n = m /\ m + n \in 0..(m + n) /\ m <= m
      BY <1>4, <2>1
    <3>2. k[m + n] = g[m]
      BY <3>1
    <3> QED BY <1>1, <1>3, <2>1, <3>2
  <2>2. CASE n # 0
    BY <1>4, <2>2
  <2> QED BY <2>1, <2>2
<1> HIDE DEF k
<1>8. SplitRun(G, s, a \o b) = k[Len(a \o b)]
  BY <1>4, <1>5, <1>6, RunIs
<1> QED BY <1>3, <1>4, <1>7, <1>8

\* Characters that mean nothing outside quotes are collected as they are.
LEMMA RawRun ==
    ASSUME NEW G \in Grammars, NEW s \in SplitRec, s.current = <<>>, s.within = Outside, ~s.escaped,
           NEW p \in Seq(Chars),
           \A i \in DOMAIN p : /\ p[i] \notin White /\ p[i] \notin G.marks
                               /\ G.everywhere => p[i] # Backslash
    PROVE  SplitRun(G, s, p) = [s EXCEPT !.current = p]
<1> DEFINE g == [i \in 0..Len(p) |-> [s EXCEPT !.current = SubSeq(p, 1, i)]]
<1>1. Len(p) \in Nat /\ DOMAIN p = 1..Len(p)
  OBVIOUS
<1>2. SubSeq(p, 1, 0) = <<>> /\ SubSeq(p, 1, Len(p)) = p
  BY SubSeqEmpty, SubSeqFull
<1>3. g[0] = s
  <2>1. g[0] = [s EXCEPT !.current = <<>>]
    BY <1>1, <1>2
  <2> QED BY <2>1 DEF SplitRec
<1>4. ASSUME NEW i \in 1..Len(p)
      PROVE  g[i] = SplitStep(G, g[i - 1], p[i])
  <2> DEFINE u == g[i - 1]
  <2>1. u = [s EXCEPT !.current = SubSeq(p, 1, i - 1)]
    BY <1>1
  <2>2. u.within = Outside /\ ~u.escaped /\ u.current = SubSeq(p, 1, i - 1)
    BY <2>1 DEF SplitRec
  <2>3. p[i] \notin White /\ p[i] \notin G.marks /\ (G.everywhere => p[i] # Backslash)
    BY <1>1
  <2>4. SubSeq(p, 1, i) = Append(SubSeq(p, 1, i - 1), p[i])
    BY <1>1
  <2>5. g[i] = [s EXCEPT !.current = SubSeq(p, 1, i)]
    BY <1>1
  <2> HIDE DEF u, g
  <2>6. SplitStep(G, u, p[i]) = [u EXCEPT !.current = Append(@, p[i])]
    BY <2>2, <2>3 DEF SplitStep
  <2>7. [u EXCEPT !.current = Append(@, p[i])] = [s EXCEPT !.current = Append(SubSeq(p, 1, i - 1), p[i])]
    BY <2>1 DEF SplitRec
  <2> QED BY <2>4, <2>5, <2>6, <2>7 DEF u
<1>5. g[Len(p)] = [s EXCEPT !.current = p]
  BY <1>1, <1>2
<1> HIDE DEF g
<1>6. SplitRun(G, s, p) = g[Len(p)]
  BY <1>3, <1>4, RunIs
<1> QED BY <1>5, <1>6

\* What stands for a character between quotes.
Escaped(c) == IF c \in {Backslash, Quotation} THEN <<Backslash, c>> ELSE <<c>>

\* Between quotes the escaped character is collected.
LEMMA EscapedChar ==
    ASSUME NEW G \in Grammars, NEW u \in SplitRec, u.within = Quotation, ~u.escaped, NEW c \in Chars
    PROVE  /\ Escaped(c) \in Seq(Chars)
           /\ SplitRun(G, u, Escaped(c)) = [u EXCEPT !.current = Append(@, c)]
<1>1. Backslash \in Chars
  BY DEF Chars
<1>2. CASE c \in {Backslash, Quotation}
  <2> DEFINE a == <<Backslash>>
             b == <<c>>
             v == [u EXCEPT !.escaped = TRUE]
  <2>1. a \in Seq(Chars) /\ Len(a) = 1 /\ a[1] = Backslash
    BY <1>1
  <2>2. b \in Seq(Chars) /\ Len(b) = 1 /\ b[1] = c
    OBVIOUS
  <2>3. Escaped(c) = a \o b /\ Escaped(c) \in Seq(Chars)
    BY <1>1, <1>2 DEF Escaped
  <2> HIDE DEF a, b
  <2>4. SplitRun(G, u, a) = v
    <3>1. SplitStep(G, u, Backslash) = v
      BY GrammarMarks DEF SplitStep
    <3> QED BY <2>1, <3>1, RunOne
  <2>5. v \in SplitRec /\ v.escaped /\ v.current = u.current
    BY DEF SplitRec
  <2> HIDE DEF v
  <2>6. SplitRun(G, v, b) = [v EXCEPT !.current = Append(@, c), !.escaped = FALSE]
    BY <2>2, <2>5, RunOne DEF SplitStep
  <2>7. [v EXCEPT !.current = Append(@, c), !.escaped = FALSE] = [u EXCEPT !.current = Append(@, c)]
    BY DEF v, SplitRec
  <2>8. SplitRun(G, u, a \o b) = SplitRun(G, SplitRun(G, u, a), b)
    BY <2>1, <2>2, RunConcat
  <2> QED BY <2>3, <2>4, <2>6, <2>7, <2>8
<1>3. CASE c \notin {Backslash, Quotation}
  <2> DEFINE b == <<c>>
  <2>1. b \in Seq(Chars) /\ Len(b) = 1 /\ b[1] = c
    OBVIOUS
  <2>2. Escaped(c) = b
    BY <1>3 DEF Escaped
  <2> HIDE DEF b
  <2>3. SplitRun(G, u, b) = [u EXCEPT !.current = Append(@, c)]
    <3>1. SplitStep(G, u, c) = [u EXCEPT !.current = Append(@, c)]
      BY <1>3, GrammarMarks DEF SplitStep
    <3> QED BY <2>1, <3>1, RunOne
  <2> QED BY <2>1, <2>2, <2>3
<1> QED BY <1>2, <1>3

\* Between quotes the escapes of a parameter give the parameter.
LEMMA EscapedRun ==
    ASSUME NEW G \in Grammars, NEW s \in SplitRec, s.current = <<>>, s.within = Quotation, ~s.escaped,
           NEW p \in Seq(Chars)
    PROVE  Escape(p) \in Seq(Chars) /\ SplitRun(G, s, Escape(p)) = [s EXCEPT !.current = p]
<1> DEFINE N == Len(p)
           pieces == [i \in DOMAIN p |-> Escaped(p[i])]
           At(i) == [s EXCEPT !.current = SubSeq(p, 1, i)]
<1>1. N \in Nat /\ DOMAIN p = 1..N /\ \A i \in 1..N : p[i] \in Chars
  OBVIOUS
<1>2. Escape(p) = FlattenSeq(pieces)
  BY DEF Escape, Escaped
<1>3. \A i \in 1..N : Escaped(p[i]) \in Seq(Chars)
  <2> SUFFICES ASSUME NEW i \in 1..N PROVE Escaped(p[i]) \in Seq(Chars)
    OBVIOUS
  <2>1. Backslash \in Chars /\ p[i] \in Chars
    BY <1>1 DEF Chars
  <2> QED BY <2>1 DEF Escaped
<1>4. pieces \in Seq(Seq(Chars)) /\ Len(pieces) = N /\ \A i \in 1..N : pieces[i] = Escaped(p[i])
  BY <1>1, <1>3
<1> HIDE DEF pieces
<1>5. PICK f : /\ f \in [0..Len(pieces) -> Seq(Chars)] /\ f[0] = <<>>
               /\ \A i \in 1..Len(pieces) : f[i] = f[i - 1] \o pieces[i]
               /\ FlattenSeq(pieces) = f[Len(pieces)]
  BY <1>4, FlattenParts
<1>6. SubSeq(p, 1, 0) = <<>> /\ SubSeq(p, 1, N) = p
  BY SubSeqEmpty, SubSeqFull
<1> DEFINE Holds == {i \in 0..N : SplitRun(G, s, f[i]) = At(i)}
<1>7. 0 \in Holds
  <2>1. f[0] \in Seq(Chars) /\ Len(f[0]) = 0
    BY <1>1, <1>5
  <2>2. SplitRun(G, s, f[0]) = s
    BY <2>1, RunNone
  <2>3. At(0) = s
    BY <1>6 DEF SplitRec
  <2> HIDE DEF At
  <2> QED BY <1>1, <2>2, <2>3
<1>8. ASSUME NEW i \in 1..N, i - 1 \in Holds
      PROVE  i \in Holds
  <2> DEFINE u == At(i - 1)
  <2>1. f[i - 1] \in Seq(Chars) /\ f[i] = f[i - 1] \o Escaped(p[i])
    <3>1. i - 1 \in 0..Len(pieces) /\ i \in 1..Len(pieces) /\ pieces[i] = Escaped(p[i])
      BY <1>1, <1>4
    <3> QED BY <1>5, <3>1
  <2>2. SplitRun(G, s, f[i - 1]) = u
    <3> HIDE DEF At
    <3> QED BY <1>8
  <2>3. SubSeq(p, 1, i) = Append(SubSeq(p, 1, i - 1), p[i]) /\ SubSeq(p, 1, i - 1) \in Seq(Chars)
    BY <1>1
  <2>4. u \in SplitRec /\ u.within = Quotation /\ ~u.escaped /\ u.current = SubSeq(p, 1, i - 1)
    BY <2>3 DEF SplitRec
  <2>5. [u EXCEPT !.current = Append(@, p[i])] = At(i)
    BY <2>3 DEF SplitRec
  <2> HIDE DEF u, At
  <2>6. Escaped(p[i]) \in Seq(Chars) /\ SplitRun(G, u, Escaped(p[i])) = At(i)
    <3> DEFINE c == p[i]
               w == [u EXCEPT !.current = Append(@, c)]
    <3>1. c \in Chars
      BY <1>1
    <3>2. w = At(i)
      BY <2>5
    <3> HIDE DEF c
    <3>3. Escaped(c) \in Seq(Chars) /\ SplitRun(G, u, Escaped(c)) = w
      BY <2>4, <3>1, EscapedChar
    <3> HIDE DEF w
    <3> QED BY <3>2, <3>3 DEF c
  <2>7. SplitRun(G, s, f[i - 1] \o Escaped(p[i])) = SplitRun(G, SplitRun(G, s, f[i - 1]), Escaped(p[i]))
    BY <2>1, <2>6, RunConcat
  <2>8. SplitRun(G, s, f[i]) = At(i)
    BY <2>1, <2>2, <2>6, <2>7
  <2> QED BY <1>1, <2>8
<1>9. \A i \in 0..N : i \in Holds
  <2> HIDE DEF Holds
  <2> QED BY <1>1, <1>7, <1>8, CountUp
<1>10. N \in 0..N /\ f[N] \in Seq(Chars)
  BY <1>1, <1>4, <1>5
<1>11. SplitRun(G, s, f[N]) = At(N)
  <2> HIDE DEF At
  <2> QED BY <1>9, <1>10
<1> QED BY <1>2, <1>4, <1>5, <1>6, <1>10, <1>11

\* Between parameters: nothing is collected yet.
Fresh(s) == s \in SplitRec /\ s.current = <<>> /\ s.within = Outside /\ ~s.escaped /\ ~s.started

\* A parameter that goes through quote is read back if it survives, which every parameter
\* does with split_params: the next separator, or the end, completes it.
LEMMA QuoteRun ==
    ASSUME NEW G \in Grammars, NEW s, Fresh(s), NEW p \in Seq(Chars), Survives(G, p)
    PROVE  /\ Quote(p) \in Seq(Chars)
           /\ SplitRun(G, s, Quote(p)) \in SplitRec
           /\ SplitRun(G, s, Quote(p)).within = Outside /\ ~SplitRun(G, s, Quote(p)).escaped
           /\ SplitPush(SplitRun(G, s, Quote(p))) = [s EXCEPT !.params = Append(@, p)]
<1> DEFINE Raw == ~Quoted(p)
<1>1. s \in SplitRec /\ s.current = <<>> /\ s.within = Outside /\ ~s.escaped /\ ~s.started
  BY DEF Fresh
<1>2. CASE Raw
  <2> DEFINE r == [s EXCEPT !.current = p]
  <2>1. Quote(p) = p
    BY <1>2 DEF Quote
  <2>2. SplitRun(G, s, p) = r
    <3>1. \A i \in DOMAIN p : /\ p[i] \notin White /\ p[i] \notin G.marks
                              /\ G.everywhere => p[i] # Backslash
      BY <1>2 DEF Survives, Quoted
    <3> HIDE DEF r
    <3>2. SplitRun(G, s, p) = [s EXCEPT !.current = p]
      BY <1>1, <3>1, RawRun
    <3> QED BY <3>2 DEF r
  <2>3. r \in SplitRec /\ r.within = Outside /\ ~r.escaped /\ r.current = p /\ p # <<>>
    BY <1>1, <1>2 DEF SplitRec, Quoted
  <2>4. SplitPush(r) = [r EXCEPT !.params = Append(@, r.current), !.current = <<>>, !.started = FALSE]
    <3> HIDE DEF r
    <3> QED BY <2>3 DEF SplitPush
  <2>5. [r EXCEPT !.params = Append(@, r.current), !.current = <<>>, !.started = FALSE]
           = [s EXCEPT !.params = Append(@, p)]
    BY <1>1, <2>3 DEF SplitRec
  <2> HIDE DEF r
  <2> QED BY <2>1, <2>2, <2>3, <2>4, <2>5
<1>3. CASE ~Raw
  <2> DEFINE q == <<Quotation>>
             t == [s EXCEPT !.within = Quotation, !.started = TRUE]
             u == [t EXCEPT !.current = p]
             r == [u EXCEPT !.within = Outside]
  <2>1. q \in Seq(Chars) /\ Len(q) = 1 /\ q[1] = Quotation
    BY DEF Chars
  <2>2. Quote(p) = (q \o Escape(p)) \o q
    BY <1>3 DEF Quote
  <2> HIDE DEF q
  <2>3. t \in SplitRec /\ t.current = <<>> /\ t.within = Quotation /\ ~t.escaped
    BY <1>1 DEF SplitRec, Chars
  <2>4. SplitRun(G, s, q) = t
    <3>1. SplitStep(G, s, Quotation) = [s EXCEPT !.within = Quotation, !.started = TRUE]
      BY <1>1, GrammarMarks DEF SplitStep
    <3> HIDE DEF t
    <3> QED BY <1>1, <2>1, <3>1, RunOne DEF t
  <2>5. u \in SplitRec /\ u.within = Quotation /\ ~u.escaped /\ u.started /\ u.current = p
    BY <1>1 DEF SplitRec, Chars
  <2>6. Escape(p) \in Seq(Chars) /\ SplitRun(G, t, Escape(p)) = u
    <3> HIDE DEF t
    <3> QED BY <2>3, EscapedRun
  <2>7. r \in SplitRec /\ r.within = Outside /\ ~r.escaped /\ r.started /\ r.current = p
    BY <1>1 DEF SplitRec
  <2>8. SplitRun(G, u, q) = r
    <3>1. SplitStep(G, u, Quotation) = [u EXCEPT !.within = Outside, !.started = TRUE]
      <4> HIDE DEF u
      <4> QED BY <2>5, GrammarMarks DEF SplitStep
    <3>2. [u EXCEPT !.within = Outside, !.started = TRUE] = r
      BY <1>1 DEF SplitRec
    <3> HIDE DEF r, u
    <3> QED BY <2>1, <2>5, <3>1, <3>2, RunOne
  <2>9. [r EXCEPT !.params = Append(@, r.current), !.current = <<>>, !.started = FALSE]
           = [s EXCEPT !.params = Append(@, p)]
    BY <1>1, <2>7 DEF SplitRec
  <2> HIDE DEF t, u, r
  <2>10. SplitRun(G, s, q \o Escape(p)) = u /\ q \o Escape(p) \in Seq(Chars)
    <3>1. SplitRun(G, s, q \o Escape(p)) = SplitRun(G, SplitRun(G, s, q), Escape(p))
      BY <1>1, <2>1, <2>6, RunConcat
    <3> QED BY <2>1, <2>4, <2>6, <3>1
  <2>11. SplitRun(G, s, (q \o Escape(p)) \o q) = r /\ (q \o Escape(p)) \o q \in Seq(Chars)
    <3>1. SplitRun(G, s, (q \o Escape(p)) \o q) = SplitRun(G, SplitRun(G, s, q \o Escape(p)), q)
      BY <1>1, <2>1, <2>10, RunConcat
    <3> QED BY <2>1, <2>8, <2>10, <3>1
  <2>12. SplitPush(r) = [s EXCEPT !.params = Append(@, p)]
    BY <2>7, <2>9 DEF SplitPush
  <2> QED BY <2>2, <2>7, <2>11, <2>12
<1> QED BY <1>2, <1>3

\* The text read so far is these parameters, once the last of them is completed.
Reads(G, text, params) ==
    /\ text \in Seq(Chars) /\ params \in Seq(Seq(Chars))
    /\ LET r == SplitRun(G, SplitStart, text)
       IN  /\ r \in SplitRec /\ r.within = Outside /\ ~r.escaped
           /\ SplitPush(r) = [SplitStart EXCEPT !.params = params]

\* The loop starts between parameters.
LEMMA StartFresh ==
    ASSUME NEW params \in Seq(Seq(Chars))
    PROVE  /\ Fresh([SplitStart EXCEPT !.params = params])
           /\ [SplitStart EXCEPT !.params = params].params = params
           /\ SplitStart \in SplitRec /\ Fresh(SplitStart)
           /\ SplitStart = [SplitStart EXCEPT !.params = <<>>]
<1>1. <<>> \in Seq(Chars) /\ <<>> \in Seq(Seq(Chars))
  OBVIOUS
<1>2. SplitStart \in SplitRec
  BY <1>1 DEF SplitStart, SplitRec
<1>3. Fresh(SplitStart)
  BY <1>2 DEF Fresh, SplitStart
<1>4. SplitStart = [SplitStart EXCEPT !.params = <<>>]
  BY DEF SplitStart, Outside
<1>5. [SplitStart EXCEPT !.params = params] \in SplitRec
  BY <1>2 DEF SplitRec
<1>6. Fresh([SplitStart EXCEPT !.params = params])
  BY <1>2, <1>3, <1>5 DEF Fresh, SplitRec
<1>7. [SplitStart EXCEPT !.params = params].params = params
  BY <1>2 DEF SplitRec
<1> QED BY <1>2, <1>3, <1>4, <1>6, <1>7

\* What is read is what the splitting returns.
LEMMA ReadsParams ==
    ASSUME NEW G \in Grammars, NEW text, NEW params, Reads(G, text, params)
    PROVE  SplitAs(G, text) = params
<1>1. SplitPush(SplitRun(G, SplitStart, text)) = [SplitStart EXCEPT !.params = params]
  BY DEF Reads
<1>2. [SplitStart EXCEPT !.params = params].params = params
  BY DEF SplitStart
<1> QED BY <1>1, <1>2 DEF SplitAs

\* Nothing is read from no text, one parameter from a quoted one.
LEMMA ReadsNone ==
    ASSUME NEW G \in Grammars
    PROVE  Reads(G, <<>>, <<>>)
<1> DEFINE t == <<>>
<1>1. t \in Seq(Chars) /\ t \in Seq(Seq(Chars)) /\ Len(t) = 0
  OBVIOUS
<1>2. SplitStart \in SplitRec /\ Fresh(SplitStart) /\ SplitStart = [SplitStart EXCEPT !.params = t]
  BY <1>1, StartFresh
<1>3. SplitPush(SplitStart) = SplitStart
  BY <1>2 DEF SplitPush, Fresh
<1> HIDE DEF t
<1>4. SplitRun(G, SplitStart, t) = SplitStart
  BY <1>1, <1>2, RunNone
<1>5. Reads(G, t, t)
  BY <1>1, <1>2, <1>3, <1>4 DEF Reads, Fresh
<1> QED BY <1>5 DEF t

\* A quoted parameter is read back as the only one.
LEMMA ReadsFirst ==
    ASSUME NEW G \in Grammars, NEW p \in Seq(Chars), Survives(G, p)
    PROVE  Reads(G, Quote(p), <<p>>)
<1>1. Fresh(SplitStart)
  <2>1. <<>> \in Seq(Seq(Chars))
    OBVIOUS
  <2> QED BY <2>1, StartFresh
<1>2. /\ Quote(p) \in Seq(Chars)
      /\ SplitRun(G, SplitStart, Quote(p)) \in SplitRec
      /\ SplitRun(G, SplitStart, Quote(p)).within = Outside /\ ~SplitRun(G, SplitStart, Quote(p)).escaped
      /\ SplitPush(SplitRun(G, SplitStart, Quote(p))) = [SplitStart EXCEPT !.params = Append(@, p)]
  BY <1>1, QuoteRun
<1>3. [SplitStart EXCEPT !.params = Append(@, p)] = [SplitStart EXCEPT !.params = <<p>>]
  BY DEF SplitStart
<1>4. <<p>> \in Seq(Seq(Chars))
  OBVIOUS
<1> QED BY <1>2, <1>3, <1>4 DEF Reads

\* A space and a quoted parameter are read as one parameter more.
LEMMA ReadsNext ==
    ASSUME NEW G \in Grammars, NEW text, NEW params, Reads(G, text, params),
           NEW p \in Seq(Chars), Survives(G, p)
    PROVE  Reads(G, (text \o <<SP>>) \o Quote(p), Append(params, p))
<1> DEFINE r == SplitRun(G, SplitStart, text)
           gap == <<SP>>
           u == [SplitStart EXCEPT !.params = params]
<1>1. /\ text \in Seq(Chars) /\ params \in Seq(Seq(Chars)) /\ r \in SplitRec /\ r.within = Outside
      /\ ~r.escaped /\ SplitPush(r) = u
  BY DEF Reads
<1>2. gap \in Seq(Chars) /\ Len(gap) = 1 /\ gap[1] = SP
  BY DEF Chars
<1>3. SplitStart \in SplitRec /\ Fresh(u) /\ u.params = params
  BY <1>1, StartFresh
<1>4. [u EXCEPT !.params = Append(@, p)] = [SplitStart EXCEPT !.params = Append(params, p)]
  BY DEF SplitStart
<1> HIDE DEF r, gap, u
<1>5. SplitRun(G, r, gap) = u
  <2>2. SplitStep(G, r, SP) = SplitPush(r)
    BY <1>1, GrammarMarks DEF SplitStep
  <2> QED BY <1>1, <1>2, <2>2, RunOne
<1>6. SplitRun(G, SplitStart, text \o gap) = u /\ text \o gap \in Seq(Chars)
  <2>1. SplitRun(G, SplitStart, text \o gap) = SplitRun(G, r, gap)
    BY <1>1, <1>2, <1>3, RunConcat DEF r
  <2> QED BY <1>1, <1>2, <1>5, <2>1
<1>7. /\ Quote(p) \in Seq(Chars) /\ SplitRun(G, u, Quote(p)) \in SplitRec
      /\ SplitRun(G, u, Quote(p)).within = Outside /\ ~SplitRun(G, u, Quote(p)).escaped
      /\ SplitPush(SplitRun(G, u, Quote(p))) = [u EXCEPT !.params = Append(@, p)]
  BY <1>3, QuoteRun
<1> DEFINE whole == (text \o gap) \o Quote(p)
<1>8. SplitRun(G, SplitStart, whole) = SplitRun(G, u, Quote(p)) /\ whole \in Seq(Chars)
  <2>1. SplitRun(G, SplitStart, whole) = SplitRun(G, SplitRun(G, SplitStart, text \o gap), Quote(p))
    <3> DEFINE a == text \o gap
               b == Quote(p)
    <3>1. SplitStart \in SplitRec /\ a \in Seq(Chars) /\ b \in Seq(Chars)
      BY <1>3, <1>6, <1>7
    <3> HIDE DEF a, b
    <3>2. SplitRun(G, SplitStart, a \o b) = SplitRun(G, SplitRun(G, SplitStart, a), b)
      BY <3>1, RunConcat
    <3> QED BY <3>2 DEF a, b
  <2> QED BY <1>6, <1>7, <2>1
<1>9. Append(params, p) \in Seq(Seq(Chars))
  BY <1>1
<1> HIDE DEF whole
<1>10. Reads(G, whole, Append(params, p))
  BY <1>4, <1>7, <1>8, <1>9 DEF Reads
<1> QED BY <1>10 DEF whole, gap

\* With split_params every parameter survives, and it is the inverse of quote.
LEMMA SurvivesClient ==
    ASSUME NEW p
    PROVE  Survives(ClientGrammar, p) /\ ClientGrammar \in Grammars
BY DEF Survives, ClientGrammar, Quoted, Grammars

\* What quote writes is text.
LEMMA QuoteTyped ==
    ASSUME NEW p \in Seq(Chars)
    PROVE  Quote(p) \in Seq(Chars)
BY ReadsFirst, SurvivesClient DEF Reads

\* The parameters of a command, each after a space and quoted.
Spaced(words) == FlattenSeq([i \in DOMAIN words |-> <<SP>> \o Quote(words[i])])

\* They are read back.
LEMMA ReadsSpaced ==
    ASSUME NEW G \in Grammars, NEW words \in Seq(Seq(Chars)),
           \A i \in DOMAIN words : Survives(G, words[i])
    PROVE  Reads(G, Spaced(words), words)
<1> DEFINE N == Len(words)
           pieces == [i \in DOMAIN words |-> <<SP>> \o Quote(words[i])]
<1>1. N \in Nat /\ DOMAIN words = 1..N /\ \A i \in 1..N : words[i] \in Seq(Chars)
  OBVIOUS
<1>2. <<SP>> \in Seq(Chars)
  BY DEF Chars
<1>3. \A i \in 1..N : Quote(words[i]) \in Seq(Chars) /\ <<SP>> \o Quote(words[i]) \in Seq(Chars)
  <2> SUFFICES ASSUME NEW i \in 1..N
               PROVE  Quote(words[i]) \in Seq(Chars) /\ <<SP>> \o Quote(words[i]) \in Seq(Chars)
    OBVIOUS
  <2>1. Quote(words[i]) \in Seq(Chars)
    BY <1>1, QuoteTyped
  <2> QED BY <1>2, <2>1
<1>4. /\ pieces \in Seq(Seq(Chars)) /\ Len(pieces) = N
      /\ \A i \in 1..N : pieces[i] = <<SP>> \o Quote(words[i])
  BY <1>1, <1>3
<1>5. Spaced(words) = FlattenSeq(pieces)
  BY DEF Spaced
<1> HIDE DEF pieces
<1>6. PICK f : /\ f \in [0..Len(pieces) -> Seq(Chars)] /\ f[0] = <<>>
               /\ \A i \in 1..Len(pieces) : f[i] = f[i - 1] \o pieces[i]
               /\ FlattenSeq(pieces) = f[Len(pieces)]
  BY <1>4, FlattenParts
<1>7. SubSeq(words, 1, 0) = <<>> /\ SubSeq(words, 1, N) = words
  BY SubSeqEmpty, SubSeqFull
<1> DEFINE Holds == {i \in 0..N : Reads(G, f[i], SubSeq(words, 1, i))}
<1>8. 0 \in Holds
  <2>1. Reads(G, <<>>, <<>>)
    BY ReadsNone
  <2>2. 0 \in 0..N /\ Reads(G, f[0], SubSeq(words, 1, 0))
    <3>1. 0 \in 0..N
      BY <1>1
    <3>2. f[0] = <<>> /\ SubSeq(words, 1, 0) = <<>>
      BY <1>6, <1>7
    <3> QED BY <2>1, <3>1, <3>2, Zenon
  <2> QED BY <2>2
<1>9. ASSUME NEW i \in 1..N, i - 1 \in Holds
      PROVE  i \in Holds
  <2>1. /\ i - 1 \in 0..Len(pieces) /\ i \in 1..Len(pieces)
        /\ pieces[i] = <<SP>> \o Quote(words[i])
    BY <1>1, <1>4
  <2>2. f[i - 1] \in Seq(Chars) /\ f[i] = f[i - 1] \o (<<SP>> \o Quote(words[i]))
    BY <1>6, <2>1
  <2>3. f[i - 1] \o (<<SP>> \o Quote(words[i])) = (f[i - 1] \o <<SP>>) \o Quote(words[i])
    <3> DEFINE a == f[i - 1]
               b == <<SP>>
               c == Quote(words[i])
    <3>1. a \in Seq(Chars) /\ b \in Seq(Chars) /\ c \in Seq(Chars)
      BY <1>2, <1>3, <2>2
    <3> HIDE DEF a, b, c
    <3>2. (a \o b) \o c = a \o (b \o c)
      BY <3>1, Regrouped
    <3> QED BY <3>2 DEF a, b, c
  <2>4. Reads(G, f[i - 1], SubSeq(words, 1, i - 1))
    BY <1>9
  <2>5. words[i] \in Seq(Chars) /\ Survives(G, words[i])
    BY <1>1
  <2>6. Reads(G, f[i], Append(SubSeq(words, 1, i - 1), words[i]))
    BY <2>2, <2>3, <2>4, <2>5, ReadsNext
  <2>7. SubSeq(words, 1, i) = Append(SubSeq(words, 1, i - 1), words[i])
    BY <1>1
  <2>8. Reads(G, f[i], SubSeq(words, 1, i)) /\ i \in 0..N
    <3>1. i \in 0..N
      BY <1>1
    <3> QED BY <2>6, <2>7, <3>1, Zenon
  <2> QED BY <2>8
<1>10. \A i \in 0..N : i \in Holds
  <2> HIDE DEF Holds
  <2> QED BY <1>1, <1>8, <1>9, CountUp
<1>11. Reads(G, f[N], SubSeq(words, 1, N))
  BY <1>1, <1>10
<1> QED BY <1>4, <1>5, <1>6, <1>7, <1>11

\* quote and a splitting are inverse for all the parameters that survive it: for the
\* reader of RFC 2229 the ones that quote protects, or that need no protection, and for
\* split_params all of them.
THEOREM QuotingIsUndone ==
    ASSUME NEW words \in Seq(Seq(Chars))
    PROVE  /\ SplitParams(Spaced(words)) = words
           /\ (\A i \in DOMAIN words : Survives(ServerGrammar, words[i]))
                 => SplitAs(ServerGrammar, Spaced(words)) = words
<1>1. SplitParams(Spaced(words)) = words
  BY ReadsSpaced, ReadsParams, SurvivesClient DEF SplitParams
<1>2. ASSUME \A i \in DOMAIN words : Survives(ServerGrammar, words[i])
      PROVE  SplitAs(ServerGrammar, Spaced(words)) = words
  BY <1>2, ReadsSpaced, ReadsParams DEF Grammars
<1> QED BY <1>1, <1>2

----------------------------------------------------------------------------
(* The server reads the command that was meant.                            *)

\* The words of the commands.
LEMMA WordsTyped ==
    ASSUME NEW op \in DOMAIN Words
    PROVE  /\ Words[op] \in Seq(Chars) /\ Len(Words[op]) \in {1, 3}
           /\ Len(Words[op]) = 3 => op \in {"databases", "strategies"}
<1>1. DOMAIN Words = {"databases", "strategies", "define", "matches", "announce", "quit"}
  BY DEF Words
<1>2. <<"SHOW", SP, "DB">> \in Seq(Chars) /\ <<"SHOW", SP, "STRAT">> \in Seq(Chars)
  BY DEF Chars
<1>3. /\ <<"DEFINE">> \in Seq(Chars) /\ <<"MATCH">> \in Seq(Chars)
      /\ <<"CLIENT">> \in Seq(Chars) /\ <<"QUIT">> \in Seq(Chars)
  BY DEF Chars
<1>4. CASE op = "databases"
  BY <1>2, <1>4 DEF Words
<1>5. CASE op = "strategies"
  BY <1>2, <1>5 DEF Words
<1>6. CASE op = "define"
  BY <1>3, <1>6 DEF Words
<1>7. CASE op = "matches"
  BY <1>3, <1>7 DEF Words
<1>8. CASE op = "announce"
  BY <1>3, <1>8 DEF Words
<1>9. CASE op = "quit"
  BY <1>3, <1>9 DEF Words
<1> QED BY <1>1, <1>4, <1>5, <1>6, <1>7, <1>8, <1>9

\* No command begins like another.
LEMMA WordsDiffer ==
    ASSUME NEW o \in DOMAIN Words, NEW op \in DOMAIN Words, NEW tail \in Seq(Chars),
           IsPrefix(Words[o], Words[op] \o tail)
    PROVE  o = op
<1> DEFINE w == Words[o]
           v == Words[op]
           line == v \o tail
<1>1. /\ w \in Seq(Chars) /\ Len(w) \in {1, 3}
      /\ v \in Seq(Chars) /\ Len(v) \in {1, 3}
      /\ Len(w) = 3 => o \in {"databases", "strategies"}
      /\ Len(v) = 3 => op \in {"databases", "strategies"}
  BY WordsTyped
<1>2. Len(w) <= Len(line) /\ SubSeq(w, 1, Len(w)) = SubSeq(line, 1, Len(w))
  BY DEF IsPrefix
<1> HIDE DEF w, v
<1>3. line \in Seq(Chars) /\ Len(line) \in Nat /\ \A i \in 1..Len(v) : line[i] = v[i]
  BY <1>1
<1> HIDE DEF line
<1>4. ASSUME NEW i \in 1..Len(w)
      PROVE  w[i] = line[i]
  <2>1. SubSeq(w, 1, Len(w))[i] = w[i]
    BY <1>1
  <2>2. SubSeq(line, 1, Len(w))[i] = line[i]
    BY <1>1, <1>2, <1>3
  <2> QED BY <1>2, <2>1, <2>2
<1>5. w[1] = v[1]
  BY <1>1, <1>3, <1>4
<1>6. Len(w) = 3 /\ Len(v) = 3 => w[3] = v[3]
  BY <1>1, <1>3, <1>4
<1>7. DOMAIN Words = {"databases", "strategies", "define", "matches", "announce", "quit"}
  BY DEF Words
<1>8. Words["databases"] = <<"SHOW", SP, "DB">> /\ Words["strategies"] = <<"SHOW", SP, "STRAT">>
  BY DEF Words
<1>9. /\ Words["define"] = <<"DEFINE">> /\ Words["matches"] = <<"MATCH">>
      /\ Words["announce"] = <<"CLIENT">> /\ Words["quit"] = <<"QUIT">>
  BY DEF Words
<1> DEFINE FirstWord(x) == CASE x \in {"databases", "strategies"} -> "SHOW"
                             [] x = "define" -> "DEFINE" [] x = "matches" -> "MATCH"
                             [] x = "announce" -> "CLIENT" [] x = "quit" -> "QUIT"
<1>10. \A x \in DOMAIN Words : Words[x][1] = FirstWord(x)
  BY <1>7, <1>8, <1>9
<1>11. FirstWord(o) = FirstWord(op)
  <2> HIDE DEF FirstWord
  <2> QED BY <1>5, <1>10 DEF w, v
<1>12. o = op \/ (o \in {"databases", "strategies"} /\ op \in {"databases", "strategies"})
  BY <1>7, <1>11
<1>13. CASE o \in {"databases", "strategies"} /\ op \in {"databases", "strategies"}
  <2>1. \A x \in {"databases", "strategies"} :
           Len(Words[x]) = 3 /\ Words[x][3] = IF x = "databases" THEN "DB" ELSE "STRAT"
    <3> HIDE DEF FirstWord, line, w, v
    <3>1. Len(Words["databases"]) = 3 /\ Words["databases"][3] = "DB"
      BY <1>8
    <3>2. Len(Words["strategies"]) = 3 /\ Words["strategies"][3] = "STRAT"
      BY <1>8
    <3> QED BY ONLY <3>1, <3>2
  <2>2. (IF o = "databases" THEN "DB" ELSE "STRAT") = (IF op = "databases" THEN "DB" ELSE "STRAT")
    BY <1>6, <1>13, <2>1 DEF w, v
  <2> QED BY <1>13, <2>2
<1> QED BY <1>12, <1>13

\* What follows the word of a command.
Rest(command) ==
    FlattenSeq([i \in DOMAIN command.params |->
                   <<SP>> \o (IF command.op = "announce" THEN command.params[i]
                              ELSE Quote(command.params[i]))])

\* What is split is a list of texts.
LEMMA SplitTyped ==
    ASSUME NEW G \in Grammars, NEW text \in Seq(Chars)
    PROVE  SplitAs(G, text) \in Seq(Seq(Chars))
<1> DEFINE r == SplitRun(G, SplitStart, text)
<1>1. SplitStart \in SplitRec
  <2>1. <<>> \in Seq(Seq(Chars))
    OBVIOUS
  <2> QED BY <2>1, StartFresh
<1>2. r \in SplitRec
  BY <1>1, RunTyped
<1> HIDE DEF r
<1>3. SplitPush(r).params \in Seq(Seq(Chars))
  BY <1>2 DEF SplitRec, SplitPush
<1> QED BY <1>3 DEF SplitAs, r

\* What follows the word of a command is nothing, or begins with a space.
LEMMA RestSpaced ==
    ASSUME NEW c \in Commands
    PROVE  /\ c.op \in DOMAIN Words /\ c.params \in Seq(Seq(Chars))
           /\ Rest(c) \in Seq(Chars) /\ (Len(Rest(c)) = 0 \/ Rest(c)[1] = SP)
<1>1. c.op \in DOMAIN Words /\ c.params \in Seq(Seq(Chars))
  <2>1. c \in [op : DOMAIN Words, params : Seq(Seq(Chars \ {CR, LF}))]
    BY CommandsAssumption
  <2>2. /\ c.params \in Seq(Seq(Chars \ {CR, LF})) /\ Len(c.params) \in Nat
        /\ \A i \in 1..Len(c.params) : c.params[i] \in Seq(Chars \ {CR, LF})
    BY <2>1
  <2>3. \A p \in Seq(Chars \ {CR, LF}) : p \in Seq(Chars)
    OBVIOUS
  <2>4. c.params \in Seq(Seq(Chars))
    <3>1. c.params = [i \in 1..Len(c.params) |-> c.params[i]]
      BY <2>2
    <3>2. \A i \in 1..Len(c.params) : c.params[i] \in Seq(Chars)
      BY <2>2, <2>3
    <3> QED BY <2>2, <3>1, <3>2
  <2> QED BY <2>1, <2>4
<1> DEFINE pieces == [i \in DOMAIN c.params |-> <<SP>> \o (IF c.op = "announce" THEN c.params[i]
                                                           ELSE Quote(c.params[i]))]
           Spaces(t) == t \in Seq(Chars) /\ Len(t) >= 1 /\ t[1] = SP
           N == Len(c.params)
<1>2. N \in Nat /\ DOMAIN c.params = 1..N
  BY <1>1
<1>3. ASSUME NEW i \in 1..N
      PROVE  Spaces(<<SP>> \o (IF c.op = "announce" THEN c.params[i] ELSE Quote(c.params[i])))
  <2> DEFINE a == <<SP>>
             b == IF c.op = "announce" THEN c.params[i] ELSE Quote(c.params[i])
  <2>1. b \in Seq(Chars)
    <3>1. c.params[i] \in Seq(Chars)
      BY <1>1, <1>2
    <3> QED BY <3>1, QuoteTyped
  <2>2. a \in Seq(Chars) /\ Len(a) = 1 /\ a[1] = SP
    BY DEF Chars
  <2> HIDE DEF a, b
  <2>3. a \o b \in Seq(Chars) /\ Len(a \o b) >= 1 /\ (a \o b)[1] = SP
    BY <2>1, <2>2, Joined
  <2> QED BY <2>3 DEF a, b
<1>4. /\ pieces \in Seq(Seq(Chars)) /\ Len(pieces) = N
      /\ \A i \in 1..N : Spaces(pieces[i])
  <2>1. \A i \in 1..N : Spaces(pieces[i])
    <3> HIDE DEF Spaces
    <3> QED BY <1>2, <1>3
  <2>2. pieces = [i \in 1..N |-> pieces[i]] /\ \A i \in 1..N : pieces[i] \in Seq(Chars)
    BY <1>2, <2>1
  <2> HIDE DEF pieces, Spaces
  <2>3. pieces \in Seq(Seq(Chars))
    BY <1>2, <2>2, IsASeq
  <2>4. Len(pieces) = N
    BY <1>2, <2>2, <2>3
  <2> QED BY <2>1, <2>3, <2>4
<1>5. Rest(c) = FlattenSeq(pieces)
  BY DEF Rest
<1> HIDE DEF pieces
<1>6. PICK f : /\ f \in [0..Len(pieces) -> Seq(Chars)] /\ f[0] = <<>>
               /\ \A i \in 1..Len(pieces) : f[i] = f[i - 1] \o pieces[i]
               /\ FlattenSeq(pieces) = f[Len(pieces)]
  BY <1>4, FlattenParts
<1> DEFINE Holds == {i \in 0..N : f[i] \in Seq(Chars) /\ (Len(f[i]) = 0 \/ f[i][1] = SP)}
<1>7. 0 \in Holds
  BY <1>2, <1>4, <1>6
<1>8. ASSUME NEW i \in 1..N, i - 1 \in Holds
      PROVE  i \in Holds
  <2> DEFINE a == f[i - 1]
             b == pieces[i]
  <2>1. f[i] = a \o b /\ Spaces(b)
    BY <1>4, <1>6
  <2>2. a \in Seq(Chars) /\ (Len(a) = 0 \/ a[1] = SP)
    BY <1>8
  <2> HIDE DEF a, b
  <2>3. a \o b \in Seq(Chars) /\ (Len(a \o b) = 0 \/ (a \o b)[1] = SP)
    <3>1. CASE Len(a) = 0
      <4>1. a = <<>> /\ b \in Seq(Chars) /\ b[1] = SP
        BY <2>1, <2>2, <3>1
      <4>2. a \o b = b
        BY <4>1
      <4> QED BY <4>1, <4>2
    <3>2. CASE Len(a) # 0
      <4>1. Len(a) >= 1 /\ b \in Seq(Chars)
        BY <2>1, <2>2, <3>2
      <4> QED BY <2>2, <3>2, <4>1, Joined
    <3> QED BY <3>1, <3>2
  <2>4. f[i] \in Seq(Chars) /\ (Len(f[i]) = 0 \/ f[i][1] = SP) /\ i \in 0..N
    <3>1. i \in 0..N
      BY <1>2
    <3> QED BY <2>1, <2>3, <3>1
  <2> QED BY <2>4
<1>9. \A i \in 0..N : i \in Holds
  <2> HIDE DEF Holds
  <2> QED BY <1>2, <1>7, <1>8, CountUp
<1>10. N \in Holds
  <2> HIDE DEF Holds
  <2> QED BY <1>2, <1>9
<1> QED BY <1>1, <1>4, <1>5, <1>6, <1>10

\* The parameters of a command that a server reads as they were meant.
Protected(c) ==
    c.op # "announce" /\ \A j \in DOMAIN c.params : Survives(ServerGrammar, c.params[j])

\* A command of the session, its line, and what the server makes of it.
LEMMA CommandRead ==
    ASSUME NEW c \in Commands
    PROVE  /\ c.op \in DOMAIN Words /\ CommandLine(c) \in Seq(Chars)
           /\ ReadCommand(CommandLine(c)).op = c.op
           /\ ReadCommand(CommandLine(c)).params \in Seq(Seq(Chars))
           /\ ReadCommand(CommandLine(c)) = [op |-> ReadCommand(CommandLine(c)).op,
                                             params |-> ReadCommand(CommandLine(c)).params]
           /\ Protected(c) => ReadCommand(CommandLine(c)).params = c.params
<1> DEFINE w == Words[c.op]
           rest == Rest(c)
           line == w \o rest
<1>1. c.op \in DOMAIN Words /\ c.params \in Seq(Seq(Chars))
  BY RestSpaced
<1>2. rest \in Seq(Chars) /\ (Len(rest) = 0 \/ rest[1] = SP)
  BY RestSpaced
<1>3. CommandLine(c) = line
  BY DEF CommandLine, Rest
<1>4. w \in Seq(Chars)
  BY <1>1, WordsTyped
<1> HIDE DEF rest, w
<1>5. line \in Seq(Chars) /\ Begins(w, line) /\ From(line, Len(w) + 1) = rest
  <2>1. line \in Seq(Chars)
    BY <1>2, <1>4
  <2>2. /\ SubSeq(w, 1, Len(w)) = w /\ SubSeq(line, 1, Len(w)) = w
        /\ Len(w) \in Nat /\ Len(rest) \in Nat /\ Len(line) = Len(w) + Len(rest)
        /\ SubSeq(line, Len(w) + 1, Len(w) + Len(rest)) = rest
    <3>1. SubSeq(w, 1, Len(w)) = w
      BY <1>4
    <3>2. Len(w) \in Nat /\ Len(rest) \in Nat /\ Len(line) = Len(w) + Len(rest)
      BY <1>2, <1>4
    <3>3. SubSeq(line, 1, Len(w)) = w
      BY <1>2, <1>4
    <3>4. SubSeq(line, Len(w) + 1, Len(w) + Len(rest)) = rest
      BY <1>2, <1>4
    <3> QED BY <3>1, <3>2, <3>3, <3>4
  <2>3. From(line, Len(w) + 1) = rest
    BY <2>2 DEF From
  <2>4. Len(w) <= Len(line)
    BY <2>2
  <2>5. Len(line) = Len(w) \/ line[Len(w) + 1] \in White
    <3>1. CASE Len(rest) = 0
      BY <2>2, <3>1
    <3>2. CASE Len(rest) # 0
      <4>1. line[Len(w) + 1] = rest[1]
        BY <1>2, <1>4, <3>2
      <4> QED BY <1>2, <3>2, <4>1 DEF White
    <3> QED BY <3>1, <3>2
  <2> HIDE DEF line
  <2> QED BY <2>1, <2>2, <2>3, <2>4, <2>5 DEF Begins, IsPrefix
<1> DEFINE known == {o \in DOMAIN Words : Begins(Words[o], line)}
           op == CHOOSE o \in known : TRUE
<1>6. known # {} /\ op = c.op
  <2>1. c.op \in known
    BY <1>1, <1>5 DEF w
  <2>2. op \in known
    <3> HIDE DEF known
    <3> QED BY <2>1
  <2>3. op \in DOMAIN Words /\ IsPrefix(Words[op], Words[c.op] \o rest)
    BY <2>2 DEF w, Begins
  <2> HIDE DEF op
  <2>4. op = c.op
    BY <1>1, <1>2, <2>3, WordsDiffer
  <2> QED BY <2>1, <2>4
<1>7. ReadCommand(line) = [op |-> op, params |-> SplitAs(ServerGrammar, From(line, Len(Words[op]) + 1))]
  BY <1>6 DEF ReadCommand
<1> HIDE DEF op, line, known
<1>8. ReadCommand(line).op = c.op /\ ReadCommand(line).params = SplitAs(ServerGrammar, rest)
  <2>1. ReadCommand(line).op = op
           /\ ReadCommand(line).params = SplitAs(ServerGrammar, From(line, Len(Words[op]) + 1))
    BY <1>7
  <2> QED BY <1>5, <1>6, <2>1 DEF w
<1>8a. ReadCommand(line) = [op |-> ReadCommand(line).op, params |-> ReadCommand(line).params]
  BY <1>7
<1>8b. SplitAs(ServerGrammar, rest) \in Seq(Seq(Chars))
  BY <1>2, SplitTyped DEF Grammars
<1>9. c.op # "announce" => rest = Spaced(c.params)
  BY DEF Rest, Spaced, rest
<1>10. Protected(c) => SplitAs(ServerGrammar, Spaced(c.params)) = c.params
  BY <1>1, QuotingIsUndone DEF Protected
<1>11. Protected(c) => ReadCommand(line).params = c.params
  BY <1>8, <1>9, <1>10 DEF Protected
<1> QED BY <1>11, <1>1, <1>3, <1>5, <1>8, <1>8a, <1>8b, <1>9, <1>10

\* Whatever a line holds, the server reads a command it knows, or one it does not.
LEMMA AnyLineRead ==
    ASSUME NEW line \in Seq(Chars)
    PROVE  /\ ReadCommand(line).op \in DOMAIN Words \cup {"unknown"}
           /\ ReadCommand(line).params \in Seq(Seq(Chars))
           /\ ReadCommand(line) = [op |-> ReadCommand(line).op, params |-> ReadCommand(line).params]
<1> DEFINE known == {o \in DOMAIN Words : Begins(Words[o], line)}
           op == CHOOSE o \in known : TRUE
           rest == From(line, Len(Words[op]) + 1)
<1>1. CASE known = {}
  <2> DEFINE none == <<>>
  <2>1. ReadCommand(line) = [op |-> "unknown", params |-> none]
    BY <1>1 DEF ReadCommand
  <2>2. none \in Seq(Seq(Chars))
    OBVIOUS
  <2> HIDE DEF none
  <2> QED BY <2>1, <2>2
<1>2. CASE known # {}
  <2>1. op \in known
    <3> HIDE DEF known
    <3> QED BY <1>2
  <2>2. op \in DOMAIN Words
    BY <2>1
  <2>3. Len(Words[op]) \in Nat
    BY <2>2, WordsTyped
  <2>4. ReadCommand(line) = [op |-> op, params |-> SplitAs(ServerGrammar, rest)]
    BY <1>2 DEF ReadCommand
  <2>5. rest \in Seq(Chars)
    BY <2>3 DEF From
  <2> HIDE DEF rest, op
  <2>6. SplitAs(ServerGrammar, rest) \in Seq(Seq(Chars))
    BY <2>5, SplitTyped DEF Grammars
  <2> QED BY <2>2, <2>4, <2>6
<1> QED BY <1>1, <1>2

\* What the server has read of a line, and what it answers to it.
Exchanges == [command : [op : DOMAIN Words \cup {"unknown"}, params : Seq(Seq(Chars))],
              answer : {Unrecognised} \cup UNION {Answers[op] : op \in DOMAIN Words}]
ReadAs(exchange, command) ==
    /\ exchange.command.op = command.op /\ exchange.answer \in Answers[command.op]
    /\ Protected(command) => exchange.command.params = command.params

\* The commands made are the ones that were read, and the lines under way, but for a line
\* that a dropped call began: after that, the session is astray.
Sent == {Torn} \cup Commands
Queue ==
    /\ made \in Seq(Sent) /\ answered \in Seq(Exchanges)
    /\ up \in Seq(Seq(Chars)) /\ half \in Seq(Chars) /\ astray \in BOOLEAN
    /\ Len(made) = Len(answered) + Len(up)
    /\ \A i \in 1..Len(up) :
          made[Len(answered) + i] # Torn => up[i] = CommandLine(made[Len(answered) + i])
    /\ \A i \in 1..Len(answered) : made[i] # Torn => ReadAs(answered[i], made[i])
    /\ ~astray => half = <<>> /\ \A i \in 1..Len(made) : made[i] # Torn

\* A command is not a torn line.
LEMMA TornIsNone == Torn \notin Commands
BY CommandsAssumption DEF Torn, Words

\* Nothing has been sent at first.
LEMMA InitQueue == Init => Queue
<1> SUFFICES ASSUME Init PROVE Queue
  OBVIOUS
<1> DEFINE none == <<>>
<1>1. made = none /\ answered = none /\ up = none /\ half = none /\ astray = FALSE
  BY DEF Init
<1>2. /\ none \in Seq(Sent) /\ none \in Seq(Exchanges) /\ none \in Seq(Seq(Chars))
      /\ none \in Seq(Chars) /\ Len(none) = 0
  OBVIOUS
<1> HIDE DEF none
<1>3. Len(made) = Len(answered) + Len(up) /\ Len(up) = 0 /\ Len(answered) = 0 /\ Len(made) = 0
  BY <1>1, <1>2
<1>4. half = <<>>
  BY <1>1 DEF none
<1>5. 1..0 = {}
  OBVIOUS
<1> QED BY <1>1, <1>2, <1>3, <1>4, <1>5 DEF Queue

\* A command that is sent joins the lines under way.
LEMMA SendQueue ==
    ASSUME Queue, NEW command \in Commands, Send(command)
    PROVE  Queue'
<1>1. CASE TooLong(command)
  BY <1>1 DEF Send, Queue, ReadAs, Protected
<1>2. CASE ~TooLong(command)
  <2> DEFINE line == half \o CommandLine(command)
             new == IF half = <<>> THEN command ELSE Torn
  <2>1. /\ made' = Append(made, new) /\ up' = Append(up, line) /\ half' = <<>>
        /\ answered' = answered /\ astray' = astray
    BY <1>2 DEF Send
  <2>2. /\ line \in Seq(Chars) /\ new \in Sent /\ (new # Torn => line = CommandLine(new))
        /\ (~astray => new # Torn)
    <3>1. CommandLine(command) \in Seq(Chars) /\ half \in Seq(Chars) /\ (~astray => half = <<>>)
      BY CommandRead DEF Queue
    <3> DEFINE a == CommandLine(command)
    <3>2. a \in Seq(Chars)
      BY <3>1
    <3> HIDE DEF a
    <3>3. half \o a \in Seq(Chars) /\ (half = <<>> => half \o a = a)
      BY <3>1, <3>2
    <3>4. CASE half = <<>>
      BY <3>1, <3>3, <3>4, TornIsNone DEF Sent, a
    <3>5. CASE half # <<>>
      BY <3>1, <3>3, <3>5 DEF Sent, a
    <3> QED BY <3>4, <3>5
  <2> HIDE DEF line, new
  <2>3. /\ made \in Seq(Sent) /\ answered \in Seq(Exchanges) /\ up \in Seq(Seq(Chars))
        /\ Len(made) = Len(answered) + Len(up)
        /\ Len(made) \in Nat /\ Len(answered) \in Nat /\ Len(up) \in Nat
    BY DEF Queue
  <2>4. /\ made' \in Seq(Sent) /\ answered' \in Seq(Exchanges) /\ up' \in Seq(Seq(Chars))
        /\ Len(made') = Len(answered') + Len(up')
        /\ Len(up') = Len(up) + 1 /\ up'[Len(up) + 1] = line
        /\ \A i \in 1..Len(up) : up'[i] = up[i]
        /\ made'[Len(made) + 1] = new
        /\ \A i \in 1..Len(made) : made'[i] = made[i]
    <3>1. /\ made' \in Seq(Sent) /\ Len(made') = Len(made) + 1
          /\ made'[Len(made) + 1] = new /\ \A i \in 1..Len(made) : made'[i] = made[i]
      <4>1. made' = Append(made, new) /\ made \in Seq(Sent) /\ new \in Sent
        BY <2>1, <2>2, <2>3
      <4> QED BY <4>1, AppendProperties
    <3>2. /\ up' \in Seq(Seq(Chars)) /\ Len(up') = Len(up) + 1
          /\ up'[Len(up) + 1] = line /\ \A i \in 1..Len(up) : up'[i] = up[i]
      BY <2>1, <2>2, <2>3, AppendProperties
    <3> QED BY <2>1, <2>3, <3>1, <3>2
  <2>5. ASSUME NEW i \in 1..Len(up'), made'[Len(answered') + i] # Torn
        PROVE  up'[i] = CommandLine(made'[Len(answered') + i])
    <3>1. i \in 1..Len(up) \/ i = Len(up) + 1
      BY <2>3, <2>4
    <3>2. CASE i \in 1..Len(up)
      <4>1. made[Len(answered) + i] # Torn => up[i] = CommandLine(made[Len(answered) + i])
        BY <3>2 DEF Queue
      <4>2. Len(answered) + i \in 1..Len(made)
        BY <2>3, <3>2
      <4> QED BY <2>1, <2>4, <2>5, <3>2, <4>1, <4>2
    <3>3. CASE i = Len(up) + 1
      <4>1. Len(answered') + i = Len(made) + 1
        BY <2>1, <2>3, <3>3
      <4>2. made'[Len(answered') + i] = new
        BY <2>4, <4>1
      <4>3. up'[i] = line
        BY <2>4, <3>3
      <4> QED BY <2>2, <2>5, <4>2, <4>3
    <3> QED BY <3>1, <3>2, <3>3
  <2>6. ASSUME NEW i \in 1..Len(answered'), made'[i] # Torn
        PROVE  ReadAs(answered'[i], made'[i])
    <3>1. i \in 1..Len(made) /\ made'[i] = made[i]
      BY <2>1, <2>3, <2>4
    <3>2. ReadAs(answered[i], made[i])
      BY <2>1, <2>6, <3>1 DEF Queue
    <3> QED BY <2>1, <3>1, <3>2
  <2>7. ASSUME ~astray', NEW i \in 1..Len(made')
        PROVE  made'[i] # Torn
    <3>1. ~astray
      BY <2>1, <2>7
    <3>2. i \in 1..Len(made) \/ i = Len(made) + 1
      BY <2>1, <2>3, <2>4
    <3> QED BY <2>2, <2>4, <3>1, <3>2 DEF Queue
  <2>8. half' = <<>> /\ half' \in Seq(Chars) /\ astray' \in BOOLEAN
    BY <2>1 DEF Queue
  <2> QED BY <2>4, <2>5, <2>6, <2>7, <2>8 DEF Queue
<1> QED BY <1>1, <1>2

\* The server reads the first line under way as the command it was made from.
LEMMA ServerQueue ==
    ASSUME Queue, ServerAnswers
    PROVE  /\ Queue' /\ Len(answered') = Len(answered) + 1
           /\ \A i \in 1..Len(answered) : answered'[i] = answered[i]
           /\ ~astray =>
                 /\ made[Len(answered')] \in Commands
                 /\ LET c == made[Len(answered')]
                        answer == answered'[Len(answered')].answer
                    IN answer \in Answers[c.op] /\ pending' = AnswerLines(c.op, answer)
<1> DEFINE command == ReadCommand(Head(up))
           n == Len(answered) + 1
           c == made[n]
<1>1. PICK answer \in AnswersTo(command.op) :
         /\ answered' = Append(answered, [command |-> command, answer |-> answer])
         /\ pending' = AnswerLines(command.op, answer)
  BY DEF ServerAnswers
<1>2. up # <<>> /\ up' = Tail(up) /\ made' = made /\ half' = half /\ astray' = astray
  BY DEF ServerAnswers
<1>3. /\ made \in Seq(Sent) /\ answered \in Seq(Exchanges) /\ up \in Seq(Seq(Chars))
      /\ Len(made) = Len(answered) + Len(up)
      /\ Len(made) \in Nat /\ Len(answered) \in Nat /\ Len(up) \in Nat
  BY DEF Queue
<1>4. /\ Len(up) >= 1 /\ Head(up) = up[1] /\ up[1] \in Seq(Chars) /\ Tail(up) \in Seq(Seq(Chars))
      /\ Len(Tail(up)) = Len(up) - 1 /\ \A i \in 1..(Len(up) - 1) : Tail(up)[i] = up[i + 1]
  BY <1>2, <1>3
<1>5. c \in Sent /\ (c # Torn => c \in Commands /\ up[1] = CommandLine(c)) /\ (~astray => c # Torn)
  <2>1. n \in 1..Len(made) /\ 1 \in 1..Len(up)
    BY <1>3, <1>4
  <2> QED BY <1>3, <2>1 DEF Queue, Sent
<1>6. /\ command.op \in DOMAIN Words \cup {"unknown"} /\ command.params \in Seq(Seq(Chars))
      /\ command = [op |-> command.op, params |-> command.params]
  BY <1>4, AnyLineRead
<1>6a. c # Torn => /\ c.op \in DOMAIN Words /\ command.op = c.op
                   /\ Protected(c) => command.params = c.params
  <2> HIDE DEF c
  <2> QED BY <1>4, <1>5, CommandRead
<1> HIDE DEF command
<1> DEFINE new == [command |-> command, answer |-> answer]
<1>6b. c # Torn => answer \in Answers[c.op]
  <2> HIDE DEF c
  <2>1. "unknown" \notin DOMAIN Words
    BY DEF Words
  <2> QED BY <1>1, <1>6a, <2>1 DEF AnswersTo
<1>7. new \in Exchanges /\ (c # Torn => ReadAs(new, c))
  <2>1. command \in [op : DOMAIN Words \cup {"unknown"}, params : Seq(Seq(Chars))]
    BY <1>6
  <2>3. answer \in {Unrecognised} \cup UNION {Answers[op] : op \in DOMAIN Words}
    BY <1>1, <1>6 DEF AnswersTo
  <2> HIDE DEF c
  <2>4. new \in Exchanges
    BY <2>1, <2>3 DEF Exchanges
  <2>5. new.command = command /\ new.answer = answer
    OBVIOUS
  <2> HIDE DEF new
  <2> QED BY <1>6a, <1>6b, <2>4, <2>5 DEF ReadAs
<1>8. answered' = Append(answered, new)
  BY <1>1
<1>8a. new.answer = answer
  OBVIOUS
<1> HIDE DEF new
<1>9. /\ answered' \in Seq(Exchanges) /\ Len(answered') = n /\ answered'[n] = new
      /\ \A i \in 1..Len(answered) : answered'[i] = answered[i]
  BY <1>3, <1>7, <1>8
<1>10. ASSUME NEW i \in 1..Len(up'), made'[Len(answered') + i] # Torn
       PROVE  up'[i] = CommandLine(made'[Len(answered') + i])
  <2>1. i + 1 \in 1..Len(up) /\ up'[i] = up[i + 1]
    BY <1>2, <1>3, <1>4
  <2>2. Len(answered) + (i + 1) = Len(answered') + i
    BY <1>3, <1>9
  <2>3. made[Len(answered) + (i + 1)] # Torn => up[i + 1] = CommandLine(made[Len(answered) + (i + 1)])
    BY <2>1 DEF Queue
  <2> QED BY <1>2, <1>10, <2>1, <2>2, <2>3
<1>11. ASSUME NEW i \in 1..Len(answered'), made'[i] # Torn
       PROVE  ReadAs(answered'[i], made'[i])
  <2>1. i \in 1..Len(answered) \/ i = n
    BY <1>3, <1>9
  <2>2. CASE i \in 1..Len(answered)
    <3>1. ReadAs(answered[i], made[i])
      BY <1>2, <1>11, <2>2 DEF Queue
    <3> QED BY <1>2, <1>9, <2>2, <3>1
  <2>3. CASE i = n
    BY <1>2, <1>7, <1>9, <1>11, <2>3
  <2> QED BY <2>1, <2>2, <2>3
<1>12. Len(made') = Len(answered') + Len(up')
  BY <1>2, <1>3, <1>4, <1>9
<1>12a. /\ half' \in Seq(Chars) /\ astray' \in BOOLEAN
        /\ ~astray' => half' = <<>> /\ \A i \in 1..Len(made') : made'[i] # Torn
  BY <1>2 DEF Queue
<1>13. Queue'
  BY <1>2, <1>3, <1>4, <1>9, <1>10, <1>11, <1>12, <1>12a DEF Queue
<1>14. c # Torn => answer \in Answers[c.op] /\ pending' = AnswerLines(c.op, answer)
  BY <1>1, <1>6a, <1>6b
<1> HIDE DEF c
<1>15. answered'[Len(answered')].answer = answer /\ made[Len(answered')] = c
  BY <1>8a, <1>9 DEF c
<1> QED BY <1>5, <1>9, <1>13, <1>14, <1>15

\* A call dropped while it was writing leaves the session astray, or nothing.
LEMMA DropSendQueue ==
    ASSUME Queue, NEW command \in Commands, DropSend(command)
    PROVE  Queue'
<1> DEFINE a == CommandLine(command)
           b == Append(a, CR)
<1>1. PICK k \in Cuts : k <= Len(a) + 1 /\ half' = SubSeq(b, 1, k) /\ astray' = (k > 0)
  BY DEF DropSend
<1>2. UNCHANGED <<up, answered, made>> /\ ~astray
  BY DEF DropSend
<1>3. a \in Seq(Chars) /\ CR \in Chars /\ k \in Nat
  BY CommandRead, DictAssumption DEF Chars
<1> HIDE DEF a
<1>4. b \in Seq(Chars) /\ Len(b) = Len(a) + 1
  BY <1>3
<1> HIDE DEF b
<1>5. half' \in Seq(Chars) /\ (~(k > 0) => half' = <<>>)
  <2>1. half' = SubSeq(b, 1, k) /\ k \in 0..Len(b)
    BY <1>1, <1>3, <1>4
  <2>2. SubSeq(b, 1, k) \in Seq(Chars)
    BY <1>4, <2>1
  <2>3. ~(k > 0) => SubSeq(b, 1, k) = <<>>
    <3>1. ~(k > 0) => k = 0
      BY <1>3
    <3> QED BY <3>1, SubSeqEmpty
  <2> QED BY <2>1, <2>2, <2>3
<1>6. astray' \in BOOLEAN /\ (~astray' => half' = <<>>)
  <2>1. CASE k > 0
    BY <1>1, <2>1
  <2>2. CASE ~(k > 0)
    BY <1>1, <1>5, <2>2
  <2> QED BY <2>1, <2>2
<1>7. \A i \in 1..Len(made) : made[i] # Torn
  BY <1>2 DEF Queue
<1> QED BY <1>2, <1>5, <1>6, <1>7 DEF Queue, ReadAs, Protected

\* The other steps leave the commands where they are.
LEMMA NextQueue == Queue /\ [Next]_vars => Queue'
<1> SUFFICES ASSUME Queue, [Next]_vars PROVE Queue'
  OBVIOUS
<1>1. ASSUME NEW command \in Commands, Send(command) PROVE Queue'
  BY <1>1, SendQueue
<1>2. CASE ServerAnswers
  BY <1>2, ServerQueue
<1>2a. ASSUME NEW command \in Commands, DropSend(command) PROVE Queue'
  BY <1>2a, DropSendQueue
<1>3. ASSUME UNCHANGED <<up, half, answered, made>>, astray' = TRUE \/ astray' = astray
      PROVE  Queue'
  BY <1>3 DEF Queue, ReadAs, Protected
<1>4. ASSUME NEW command \in Commands, SendFails(command) PROVE Queue'
  BY <1>3, <1>4 DEF SendFails
<1>5. CASE Read
  <2>1. astray' = TRUE \/ astray' = astray
    BY <1>5 DEF Read, ReadBanner, ReadFirst, ReadBlock, ReadDefinition, ReadClosing, InStep,
                LosesStep
  <2> QED BY <1>3, <1>5, <2>1 DEF Read
<1>6. CASE ReadEnd
  BY <1>3, <1>6 DEF ReadEnd, LosesStep
<1>7. CASE Drop
  BY <1>3, <1>7 DEF Drop, LosesStep
<1>8. CASE ServerWrites
  BY <1>3, <1>8 DEF ServerWrites
<1>9. CASE ServerCloses
  BY <1>3, <1>9 DEF ServerCloses
<1>10. CASE UNCHANGED vars
  BY <1>3, <1>10 DEF vars
<1> QED BY <1>1, <1>2, <1>2a, <1>4, <1>5, <1>6, <1>7, <1>8, <1>9, <1>10 DEF Next

\* A server that reads by RFC 2229 reads the command that Session was asked for, in every
\* session, and whatever calls were dropped before: the words of it always, and the
\* parameters when each is protected by quote, or holds neither an apostrophe nor a
\* backslash. The exception is a line that a call dropped while writing has begun.
THEOREM CommandsAreRead == Spec => []CommandAsMeant
<1>1. Queue => CommandAsMeant
  <2> SUFFICES ASSUME Queue, NEW i \in DOMAIN answered, made[i] # Torn
               PROVE  /\ answered[i].command.op = made[i].op
                      /\ Protected(made[i]) => answered[i].command.params = made[i].params
    BY DEF CommandAsMeant, Protected
  <2>1. i \in 1..Len(answered)
    BY DEF Queue
  <2>2. ReadAs(answered[i], made[i])
    BY <2>1 DEF Queue
  <2> QED BY <2>2 DEF ReadAs
<1> QED BY <1>1, InitQueue, NextQueue, PTL DEF Spec

----------------------------------------------------------------------------
(* What a call makes of the lines of its response.                         *)

\* A call within its response.
Calls == [pc : {"status", "block", "definitions", "closing"}, command : Commands,
          lines : Seq(Seq(Chars)), header : Seq(Seq(Chars)), definitions : Seq(DefinitionRecord),
          result : {More}]
Begun(command) == [Idle(More) EXCEPT !.pc = "status", !.command = command]

\* A line takes a call from s to t,
Goes(s, line, t) ==
    \/ /\ s.pc = "status" /\ IsStatus(line) /\ s.command.op \in DOMAIN Follows
       /\ Code(line) = Follows[s.command.op] /\ t = [s EXCEPT !.pc = "block"]
    \/ /\ s.pc = "status" /\ IsStatus(line) /\ s.command.op = "define"
       /\ Code(line) = DefinitionsFollow /\ t = [s EXCEPT !.pc = "definitions"]
    \/ /\ s.pc = "block" /\ IsTerminator(line) /\ s.command.op = "define"
       /\ t = [s EXCEPT !.pc = "definitions", !.lines = <<>>,
                        !.definitions = Append(@, Definition(s.header, s.lines))]
    \/ /\ s.pc = "block" /\ IsTerminator(line) /\ s.command.op # "define"
       /\ t = [s EXCEPT !.pc = "closing"]
    \/ /\ s.pc = "block" /\ ~IsTerminator(line)
       /\ t = [s EXCEPT !.lines = Append(@, Unstuff(line))]
    \/ /\ s.pc = "definitions" /\ IsStatus(line) /\ Code(line) = DefinitionFollows
       /\ GoodHeader(SplitParams(Text(line)))
       /\ t = [s EXCEPT !.pc = "block", !.header = SplitParams(Text(line))]

\* is its last and gives the result,
Concludes(s, line, result) ==
    LET op == s.command.op
        code == Code(line)
    IN /\ IsStatus(line)
       /\ \/ /\ s.pc = "status" /\ (op \in DOMAIN Follows => code # Follows[op])
             /\ op = "define" => code # DefinitionsFollow
             /\ result = IF \/ op \in DOMAIN Nothing /\ code = Nothing[op]
                            \/ op \in {"announce", "quit"} /\ IsSuccess(code)
                         THEN Ok(<<>>) ELSE Refused(code)
          \/ /\ s.pc = "definitions" /\ code # DefinitionFollows
             /\ result = IF IsSuccess(code) THEN Ok(s.definitions) ELSE Refused(code)
          \/ /\ s.pc = "closing"
             /\ result = IF IsSuccess(code) THEN Ok(ParseEntries(op, s.lines)) ELSE Refused(code)

\* or makes it fail within the response.
Strays(s, line) ==
    \/ s.pc \in {"status", "definitions", "closing"} /\ ~IsStatus(line)
    \/ /\ s.pc = "definitions" /\ IsStatus(line) /\ Code(line) = DefinitionFollows
       /\ ~GoodHeader(SplitParams(Text(line)))

\* No part of the line is taken for the last of the response.
Uncut(s, line) ==
    s.pc = "block" \/ Len(line) = 3 \/ ~IsStatus(line)
        \/ (s.pc = "definitions" /\ Code(line) = DefinitionFollows)

\* Lines that take a call from s to t.
Moves(s, line, t) == Goes(s, line, t) /\ Uncut(s, line)
Walks(st, lines) == \A i \in 1..Len(lines) : Moves(st[i - 1], lines[i], st[i])
Path(s, lines, t) ==
    \E st : /\ st \in [0..Len(lines) -> Calls] /\ st[0] = s /\ st[Len(lines)] = t
            /\ Walks(st, lines)

\* One line is a path,
LEMMA PathOne ==
    ASSUME NEW s \in Calls, NEW t \in Calls, NEW line \in Seq(Chars), Moves(s, line, t)
    PROVE  Path(s, <<line>>, t)
<1> DEFINE st == [i \in 0..1 |-> IF i = 0 THEN s ELSE t]
           one == <<line>>
<1>1. Len(one) = 1 /\ one[1] = line
  OBVIOUS
<1>2. st \in [0..1 -> Calls] /\ st[0] = s /\ st[1] = t
  OBVIOUS
<1> HIDE DEF st, one
<1>3. Walks(st, one)
  BY <1>1, <1>2 DEF Walks
<1> QED BY <1>1, <1>2, <1>3 DEF Path, one

\* and a path can be continued.
LEMMA PathConcat ==
    ASSUME NEW s, NEW a \in Seq(Seq(Chars)), NEW t, Path(s, a, t),
           NEW b \in Seq(Seq(Chars)), NEW u, Path(t, b, u)
    PROVE  Path(s, a \o b, u)
<1>1. PICK g : g \in [0..Len(a) -> Calls] /\ g[0] = s /\ g[Len(a)] = t /\ Walks(g, a)
  BY DEF Path
<1>2. PICK h : h \in [0..Len(b) -> Calls] /\ h[0] = t /\ h[Len(b)] = u /\ Walks(h, b)
  BY DEF Path
<1> DEFINE m == Len(a)
           n == Len(b)
           ab == a \o b
           st == [i \in 0..(m + n) |-> IF i <= m THEN g[i] ELSE h[i - m]]
<1>3. /\ m \in Nat /\ n \in Nat /\ Len(ab) = m + n
      /\ \A i \in 1..m : ab[i] = a[i]
      /\ \A i \in (m + 1)..(m + n) : ab[i] = b[i - m]
  OBVIOUS
<1> HIDE DEF ab, m, n
<1>4. st \in [0..(m + n) -> Calls]
  BY <1>1, <1>2, <1>3 DEF m, n
<1>5. /\ \A i \in 0..m : st[i] = g[i]
      /\ \A i \in m..(m + n) : st[i] = h[i - m]
  <2>1. \A i \in 0..m : st[i] = g[i]
    BY <1>3
  <2>2. ASSUME NEW i \in m..(m + n)
        PROVE  st[i] = h[i - m]
    <3>1. i \in 0..(m + n) /\ (i = m \/ i > m)
      BY <1>3
    <3>2. CASE i = m
      <4>1. i - m = 0 /\ st[i] = g[m]
        BY <1>3, <3>1, <3>2
      <4> QED BY <1>1, <1>2, <4>1 DEF m
    <3>3. CASE i > m
      BY <1>3, <3>1, <3>3
    <3> QED BY <3>1, <3>2, <3>3
  <2> QED BY <2>1, <2>2
<1> HIDE DEF st
<1>6. ASSUME NEW i \in 1..Len(ab)
      PROVE  Moves(st[i - 1], ab[i], st[i])
  <2>1. CASE i <= m
    <3>1. i \in 1..m /\ i - 1 \in 0..m /\ i \in 0..m
      BY <1>3, <2>1
    <3>2. Moves(g[i - 1], a[i], g[i])
      BY <1>1, <3>1 DEF Walks, m
    <3> QED BY <1>3, <1>5, <3>1, <3>2
  <2>2. CASE i > m
    <3>1. /\ i \in (m + 1)..(m + n) /\ i - 1 \in m..(m + n) /\ i \in m..(m + n)
          /\ i - m \in 1..n /\ (i - 1) - m = (i - m) - 1
      BY <1>3, <2>2
    <3>2. Moves(h[(i - m) - 1], b[i - m], h[i - m])
      BY <1>2, <3>1 DEF Walks, n
    <3> QED BY <1>3, <1>5, <3>1, <3>2
  <2> QED BY <1>3, <2>1, <2>2
<1>7. st[0] = s /\ st[m + n] = u
  <2>1. 0 \in 0..m /\ m + n \in m..(m + n) /\ (m + n) - m = n
    BY <1>3
  <2> QED BY <1>1, <1>2, <1>5, <2>1 DEF n
<1>8. Walks(st, ab)
  BY <1>6 DEF Walks
<1> QED BY <1>3, <1>4, <1>7, <1>8 DEF Path, ab

\* Stuffing is undone, and what is stuffed is never the terminator.
LEMMA Unstuffed ==
    ASSUME NEW line \in Seq(Chars)
    PROVE  /\ Stuff(line) \in Seq(Chars) /\ ~IsTerminator(Stuff(line))
           /\ Unstuff(Stuff(line)) = line
<1>1. CASE line # <<>> /\ Head(line) = Dot
  <2> DEFINE stuffed == <<Dot>> \o line
  <2>1. /\ stuffed \in Seq(Chars) /\ Len(stuffed) = Len(line) + 1 /\ Len(line) >= 1
        /\ stuffed[1] = Dot /\ stuffed[2] = Dot
    BY <1>1 DEF Chars
  <2>2. Tail(stuffed) = line
    BY <1>1
  <2>3. Stuff(line) = stuffed
    BY <1>1 DEF Stuff
  <2>4. Len(<<Dot>>) = 1
    OBVIOUS
  <2> HIDE DEF stuffed
  <2>5. Unstuff(stuffed) = Tail(stuffed)
    BY <2>1 DEF Unstuff
  <2>6. ~IsTerminator(stuffed)
    BY <2>1, <2>4 DEF IsTerminator
  <2> QED BY <2>1, <2>2, <2>3, <2>5, <2>6
<1>2. CASE ~(line # <<>> /\ Head(line) = Dot)
  <2>1. Stuff(line) = line
    BY <1>2 DEF Stuff
  <2>2. ~(Len(line) >= 2 /\ line[1] = Dot /\ line[2] = Dot)
    BY <1>2
  <2>3. Unstuff(line) = line
    BY <2>2 DEF Unstuff
  <2>4. line # <<Dot>>
    BY <1>2
  <2> QED BY <2>1, <2>3, <2>4 DEF IsTerminator
<1> QED BY <1>1, <1>2

\* A block that has not begun collects the lines of a text.
Stuffed(text) == [i \in DOMAIN text |-> Stuff(text[i])]

\* The lines of a text.
LEMMA PathText ==
    ASSUME NEW s \in Calls, s.pc = "block", s.lines = <<>>, NEW text \in Seq(Seq(Chars))
    PROVE  /\ Stuffed(text) \in Seq(Seq(Chars)) /\ [s EXCEPT !.lines = text] \in Calls
           /\ Path(s, Stuffed(text), [s EXCEPT !.lines = text])
<1> DEFINE N == Len(text)
           L == Stuffed(text)
           st == [i \in 0..N |-> [s EXCEPT !.lines = SubSeq(text, 1, i)]]
<1>1. N \in Nat /\ DOMAIN text = 1..N /\ \A i \in 1..N : text[i] \in Seq(Chars)
  OBVIOUS
<1>2. /\ L \in Seq(Seq(Chars)) /\ Len(L) = N /\ \A i \in 1..N : L[i] = Stuff(text[i])
  <2>1. L = [i \in 1..N |-> Stuff(text[i])]
    BY <1>1 DEF Stuffed
  <2>2. \A i \in 1..N : Stuff(text[i]) \in Seq(Chars)
    BY <1>1, Unstuffed
  <2> HIDE DEF L
  <2> QED BY <1>1, <2>1, <2>2
<1>3. \A i \in 0..N : SubSeq(text, 1, i) \in Seq(Seq(Chars))
  BY <1>1
<1>4. SubSeq(text, 1, 0) = <<>> /\ SubSeq(text, 1, N) = text
  BY SubSeqEmpty, SubSeqFull
<1>5. \A x \in Seq(Seq(Chars)) : [s EXCEPT !.lines = x] \in Calls
  BY DEF Calls
<1>6. st \in [0..N -> Calls]
  BY <1>3, <1>5
<1>7. [s EXCEPT !.lines = <<>>] = s
  BY DEF Calls
<1>8. st[0] = s /\ st[N] = [s EXCEPT !.lines = text]
  <2>1. /\ st[0] = [s EXCEPT !.lines = SubSeq(text, 1, 0)]
        /\ st[N] = [s EXCEPT !.lines = SubSeq(text, 1, N)]
    BY <1>1
  <2> HIDE DEF st, N
  <2> QED BY <1>4, <1>7, <2>1
<1>9. ASSUME NEW i \in 1..N
      PROVE  Moves(st[i - 1], L[i], st[i])
  <2> DEFINE before == SubSeq(text, 1, i - 1)
             after == SubSeq(text, 1, i)
             p == [s EXCEPT !.lines = before]
  <2>1. before \in Seq(Seq(Chars)) /\ after = Append(before, text[i])
    BY <1>1
  <2>2. st[i - 1] = p /\ st[i] = [s EXCEPT !.lines = after]
    BY <1>1
  <2> HIDE DEF before, after
  <2>3. p.pc = "block" /\ p.lines = before
    BY DEF Calls
  <2>4. [p EXCEPT !.lines = Append(@, text[i])] = [s EXCEPT !.lines = after]
    BY <2>1 DEF Calls
  <2>5. ~IsTerminator(L[i]) /\ Unstuff(L[i]) = text[i]
    BY <1>1, <1>2, Unstuffed
  <2> HIDE DEF p, L, st
  <2>6. Goes(p, L[i], st[i])
    BY <2>2, <2>3, <2>4, <2>5 DEF Goes
  <2> QED BY <2>2, <2>3, <2>6 DEF Moves, Uncut
<1> HIDE DEF L, st
<1>10. Walks(st, L)
  BY <1>2, <1>9 DEF Walks
<1>11. Path(s, L, [s EXCEPT !.lines = text])
  BY <1>2, <1>6, <1>8, <1>10 DEF Path
<1> QED BY <1>2, <1>5, <1>11 DEF L

\* The terminator after it: a definition is complete,
LEMMA PathDefined ==
    ASSUME NEW s \in Calls, s.pc = "block", s.lines = <<>>, s.command.op = "define",
           Len(s.header) = 3, NEW text \in Seq(Seq(Chars))
    PROVE  LET t == [s EXCEPT !.pc = "definitions",
                              !.definitions = Append(@, Definition(s.header, text))]
           IN /\ Block(text) \in Seq(Seq(Chars)) /\ t \in Calls
              /\ Definition(s.header, text)
                     = [word |-> s.header[1], database |-> s.header[2],
                        description |-> s.header[3], text |-> text]
              /\ Path(s, Block(text), t)
<1> DEFINE d == Definition(s.header, text)
           t == [s EXCEPT !.pc = "definitions", !.definitions = Append(@, d)]
           u == [s EXCEPT !.lines = text]
           dot == <<Dot>>
<1>1. /\ s.header \in Seq(Seq(Chars)) /\ s.definitions \in Seq(DefinitionRecord)
      /\ \A i \in 1..3 : s.header[i] \in Seq(Chars)
  BY DEF Calls
<1>2. d = [word |-> s.header[1], database |-> s.header[2], description |-> s.header[3],
           text |-> text]
  BY DEF Definition, Param
<1>3. d \in DefinitionRecord
  <2>1. s.header[1] \in Seq(Chars) /\ s.header[2] \in Seq(Chars) /\ s.header[3] \in Seq(Chars)
    BY <1>1
  <2> HIDE DEF d
  <2> QED BY <1>2, <2>1 DEF DefinitionRecord
<1> HIDE DEF d
<1>4. t \in Calls
  <2>1. Append(s.definitions, d) \in Seq(DefinitionRecord)
    BY <1>1, <1>3
  <2> QED BY <2>1 DEF Calls
<1>5. /\ Stuffed(text) \in Seq(Seq(Chars)) /\ u \in Calls /\ Path(s, Stuffed(text), u)
  BY PathText
<1>6. dot \in Seq(Chars) /\ IsTerminator(dot) /\ <<dot>> \in Seq(Seq(Chars))
  BY DEF Chars, IsTerminator
<1>7. u.pc = "block" /\ u.command = s.command /\ u.header = s.header /\ u.lines = text
  BY DEF Calls
<1>8. [u EXCEPT !.pc = "definitions", !.lines = <<>>,
                !.definitions = Append(@, Definition(u.header, u.lines))] = t
  BY <1>7 DEF Calls, d
<1>9. Block(text) = Stuffed(text) \o <<dot>>
  BY DEF Block, Stuffed
<1> HIDE DEF t, u, dot
<1>10. Goes(u, dot, t)
  BY <1>6, <1>7, <1>8 DEF Goes
<1>11. Path(u, <<dot>>, t)
  BY <1>4, <1>5, <1>6, <1>7, <1>10, PathOne DEF Moves, Uncut
<1>12. Path(s, Block(text), t) /\ Block(text) \in Seq(Seq(Chars))
  <2> DEFINE L == Stuffed(text)
             end == <<dot>>
  <2>1. L \in Seq(Seq(Chars)) /\ end \in Seq(Seq(Chars)) /\ Path(s, L, u) /\ Path(u, end, t)
    BY <1>5, <1>6, <1>11
  <2>2. Block(text) = L \o end
    BY <1>9
  <2> HIDE DEF L, end
  <2>3. Path(s, L \o end, t) /\ L \o end \in Seq(Seq(Chars))
    BY <2>1, PathConcat
  <2> QED BY <2>2, <2>3
<1> QED BY <1>2, <1>4, <1>12 DEF t, d

\* or the rows of a list are.
LEMMA PathListed ==
    ASSUME NEW s \in Calls, s.pc = "block", s.lines = <<>>, s.command.op # "define",
           NEW text \in Seq(Seq(Chars))
    PROVE  LET t == [s EXCEPT !.pc = "closing", !.lines = text]
           IN Block(text) \in Seq(Seq(Chars)) /\ t \in Calls /\ Path(s, Block(text), t)
<1> DEFINE t == [s EXCEPT !.pc = "closing", !.lines = text]
           u == [s EXCEPT !.lines = text]
           dot == <<Dot>>
<1>1. t \in Calls
  BY DEF Calls
<1>2. Stuffed(text) \in Seq(Seq(Chars)) /\ u \in Calls /\ Path(s, Stuffed(text), u)
  BY PathText
<1>3. dot \in Seq(Chars) /\ IsTerminator(dot) /\ <<dot>> \in Seq(Seq(Chars))
  BY DEF Chars, IsTerminator
<1>4. u.pc = "block" /\ u.command = s.command /\ [u EXCEPT !.pc = "closing"] = t
  BY DEF Calls
<1>5. Block(text) = Stuffed(text) \o <<dot>>
  BY DEF Block, Stuffed
<1> HIDE DEF t, u, dot
<1>6. Goes(u, dot, t)
  BY <1>3, <1>4 DEF Goes
<1>7. Path(u, <<dot>>, t)
  BY <1>1, <1>2, <1>3, <1>4, <1>6, PathOne DEF Moves, Uncut
<1>8. Path(s, Block(text), t) /\ Block(text) \in Seq(Seq(Chars))
  <2> DEFINE L == Stuffed(text)
             end == <<dot>>
  <2>1. L \in Seq(Seq(Chars)) /\ end \in Seq(Seq(Chars)) /\ Path(s, L, u) /\ Path(u, end, t)
    BY <1>2, <1>3, <1>7
  <2>2. Block(text) = L \o end
    BY <1>5
  <2> HIDE DEF L, end
  <2>3. Path(s, L \o end, t) /\ L \o end \in Seq(Seq(Chars))
    BY <2>1, PathConcat
  <2> QED BY <2>2, <2>3
<1> QED BY <1>1, <1>8 DEF t

\* The codes are three digits.
LEMMA Coded ==
    ASSUME NEW line \in {DatabasesFollow, StrategiesFollow, DefinitionsFollow, DefinitionFollows,
                         MatchesFollow}
    PROVE  /\ line \in Seq(Chars) /\ Len(line) = 3 /\ IsStatus(line) /\ Code(line) = line
           /\ line[1] = "1"
<1> DEFINE Good(s) == s \in Seq(Chars) /\ Len(s) = 3 /\ IsStatus(s) /\ Code(s) = s /\ s[1] = "1"
<1>1. ASSUME NEW b \in {"1", "5"}, NEW c \in {"0", "1", "2"}
      PROVE  Good(<<"1", b, c>>)
  <2> DEFINE s == <<"1", b, c>>
  <2>1. "1" \in Chars /\ b \in Chars /\ c \in Chars
    BY DEF Chars
  <2>2. IsDigit("1") /\ IsDigit(b) /\ IsDigit(c)
    BY DEF IsDigit
  <2>3. s \in Seq(Chars) /\ Len(s) = 3 /\ s[1] = "1" /\ s[2] = b /\ s[3] = c
    BY <2>1
  <2> HIDE DEF s
  <2>4. IsStatus(s)
    BY <2>2, <2>3 DEF IsStatus
  <2>5. Code(s) = s
    BY <2>3, SubSeqFull DEF Code
  <2> QED BY <2>3, <2>4, <2>5 DEF s
<1> HIDE DEF Good
<1>2. \/ line = <<"1", "1", "0">> \/ line = <<"1", "1", "1">> \/ line = <<"1", "5", "0">>
      \/ line = <<"1", "5", "1">> \/ line = <<"1", "5", "2">>
  BY DEF DatabasesFollow, StrategiesFollow, DefinitionsFollow, DefinitionFollows, MatchesFollow
<1>3. /\ Good(<<"1", "1", "0">>) /\ Good(<<"1", "1", "1">>) /\ Good(<<"1", "5", "0">>)
      /\ Good(<<"1", "5", "1">>) /\ Good(<<"1", "5", "2">>)
  BY <1>1
<1>4. Good(line)
  BY <1>2, <1>3
<1> QED BY <1>4 DEF Good

\* A code of three digits is its own code.
LEMMA OwnCode ==
    ASSUME NEW line \in Seq(Chars), Len(line) = 3
    PROVE  Code(line) = line
BY SubSeqFull DEF Code

\* A quoted parameter begins with a character that is no white space.
LEMMA QuoteHead ==
    ASSUME NEW p \in Seq(Chars)
    PROVE  Quote(p) \in Seq(Chars) /\ Len(Quote(p)) >= 1 /\ Quote(p)[1] \notin White
<1>1. Quote(p) \in Seq(Chars)
  BY QuoteTyped
<1> DEFINE raw == ~(p = <<>> \/ \E i \in DOMAIN p : p[i] \in White \cup {Quotation})
<1>2. CASE raw
  <2>1. Quote(p) = p
    BY <1>2 DEF Quote, Quoted
  <2>2. Len(p) >= 1 /\ 1 \in DOMAIN p
    BY <1>2
  <2>3. p[1] \notin White
    BY <1>2, <2>2
  <2> QED BY <1>1, <2>1, <2>2, <2>3
<1>3. CASE ~raw
  <2> DEFINE a == <<Quotation>>
             b == Escape(p)
             q == <<Quotation>>
  <2>1. Quote(p) = (a \o b) \o q
    BY <1>3 DEF Quote, Quoted
  <2>2. a \in Seq(Chars) /\ Len(a) = 1 /\ a[1] = Quotation
    BY DEF Chars
  <2>3. b \in Seq(Chars)
    <3> DEFINE s == [SplitStart EXCEPT !.within = Quotation]
    <3>1. s \in SplitRec /\ s.current = <<>> /\ s.within = Quotation /\ ~s.escaped
      <4>1. <<>> \in Seq(Seq(Chars))
        OBVIOUS
      <4>2. Fresh(SplitStart)
        BY <4>1, StartFresh
      <4> QED BY <4>2 DEF Fresh, SplitRec, Chars
    <3> HIDE DEF s
    <3> QED BY <3>1, EscapedRun, SurvivesClient
  <2> HIDE DEF a, b
  <2>4. q \in Seq(Chars) /\ Len(q) = 1
    BY DEF Chars
  <2> HIDE DEF q
  <2>5. Len((a \o b) \o q) >= 1 /\ ((a \o b) \o q)[1] = a[1]
    <3> DEFINE ab == a \o b
    <3>1. ab \in Seq(Chars) /\ Len(ab) >= 1 /\ ab[1] = a[1]
      BY <2>2, <2>3, ConcatProperties
    <3> HIDE DEF ab
    <3>2. Len(ab \o q) >= 1 /\ (ab \o q)[1] = ab[1]
      BY <2>4, <3>1, ConcatProperties
    <3> QED BY <3>1, <3>2 DEF ab
  <2>6. Quotation \notin White
    BY DEF Quotation, White, CR, LF, SP, TAB
  <2> QED BY <1>1, <2>1, <2>2, <2>5, <2>6
<1> QED BY <1>2, <1>3

\* White space before a text is trimmed.
LEMMA TrimsSpace ==
    ASSUME NEW gap \in Seq(Chars), Len(gap) = 1, gap[1] \in White,
           NEW body \in Seq(Chars), Len(body) >= 1, body[1] \notin White
    PROVE  TrimStart(gap \o body, White) = body
<1> DEFINE s == gap \o body
           at == {i \in DOMAIN s : s[i] \notin White}
<1>1. /\ s \in Seq(Chars) /\ DOMAIN s = 1..Len(s) /\ Len(s) = Len(body) + 1 /\ Len(body) \in Nat
      /\ s[1] = gap[1] /\ s[2] = body[1]
  <2>1. /\ s \in Seq(Chars) /\ Len(s) = Len(gap) + Len(body) /\ Len(body) \in Nat
        /\ DOMAIN s = 1..(Len(gap) + Len(body))
    BY Joined
  <2>2. s[1] = gap[1]
    <3>1. 1 \in 1..Len(gap)
      OBVIOUS
    <3> QED BY <3>1, Joined
  <2>3. s[Len(gap) + 1] = body[1]
    <3>1. 1 \in 1..Len(body)
      BY <2>1
    <3> QED BY <3>1, Joined
  <2> HIDE DEF s
  <2> QED BY <2>1, <2>2, <2>3
<1>2. SubSeq(s, 2, Len(s)) = body
  BY <1>1
<1> HIDE DEF s
<1>3. 2 \in at /\ 1 \notin at /\ at \in SUBSET (1..Len(s))
  BY <1>1
<1>4. \A j \in at : 2 <= j /\ j \in Nat
  BY <1>1, <1>3
<1> HIDE DEF at
<1>5. FirstOf(at) = 2
  <2>1. FirstOf(at) = CHOOSE i \in at : \A j \in at : i <= j
    BY <1>3 DEF FirstOf
  <2>2. \A i \in at : (\A j \in at : i <= j) => i = 2
    BY <1>3, <1>4
  <2>3. \A j \in at : 2 <= j
    BY <1>4
  <2> QED BY <1>3, <2>1, <2>2, <2>3
<1>6. TrimStart(s, White) = LET k == FirstOf(at) IN IF k = 0 THEN <<>> ELSE From(s, k)
  BY DEF TrimStart, at
<1>7. TrimStart(s, White) = From(s, 2)
  BY <1>5, <1>6
<1> QED BY <1>2, <1>7 DEF From, s

\* The first line of a definition.
HeaderLine(d) ==
    DefinitionFollows \o <<SP>> \o Quote(d.word) \o <<SP>> \o Quote(d.database)
        \o <<SP>> \o Quote(d.description)
Header(d) == Append(Append(<<d.word>>, d.database), d.description)

\* Its parts.
LEMMA HeaderParts ==
    ASSUME NEW d \in DefinitionRecord
    PROVE  /\ Header(d) \in Seq(Seq(Chars)) /\ Len(Header(d)) = 3
           /\ Header(d)[1] = d.word /\ Header(d)[2] = d.database /\ Header(d)[3] = d.description
<1> DEFINE one == <<d.word>>
           two == Append(one, d.database)
<1>1. d.word \in Seq(Chars) /\ d.database \in Seq(Chars) /\ d.description \in Seq(Chars)
  BY DEF DefinitionRecord
<1>2. one \in Seq(Seq(Chars)) /\ Len(one) = 1 /\ one[1] = d.word
  BY <1>1
<1> HIDE DEF one
<1>3. two \in Seq(Seq(Chars)) /\ Len(two) = 2 /\ two[1] = d.word /\ two[2] = d.database
  <2> DEFINE y == d.database
  <2>1. y \in Seq(Chars)
    BY <1>1
  <2> HIDE DEF y
  <2>2. /\ Append(one, y) \in Seq(Seq(Chars)) /\ Len(Append(one, y)) = 2
        /\ Append(one, y)[1] = one[1] /\ Append(one, y)[2] = y
    <3> DEFINE S == Seq(Chars)
    <3>1. one \in Seq(S) /\ y \in S
      BY <1>2, <2>1
    <3> HIDE DEF S
    <3>2. /\ Append(one, y) \in Seq(S) /\ Len(Append(one, y)) = Len(one) + 1
          /\ \A i \in 1..Len(one) : Append(one, y)[i] = one[i]
          /\ Append(one, y)[Len(one) + 1] = y
      BY <3>1, AppendProperties
    <3> QED BY <1>2, <3>2 DEF S
  <2> QED BY <1>2, <2>2 DEF y
<1>4. Header(d) = Append(two, d.description)
  BY DEF Header, one
<1> HIDE DEF two
<1> DEFINE z == d.description
<1>5. z \in Seq(Chars)
  BY <1>1
<1> HIDE DEF z
<1>6. /\ Append(two, z) \in Seq(Seq(Chars)) /\ Len(Append(two, z)) = 3
      /\ Append(two, z)[1] = two[1] /\ Append(two, z)[2] = two[2] /\ Append(two, z)[3] = z
  <2> DEFINE S == Seq(Chars)
  <2>1. two \in Seq(S) /\ z \in S
    BY <1>3, <1>5
  <2> HIDE DEF S
  <2>2. /\ Append(two, z) \in Seq(S) /\ Len(Append(two, z)) = Len(two) + 1
        /\ \A i \in 1..Len(two) : Append(two, z)[i] = two[i]
        /\ Append(two, z)[Len(two) + 1] = z
    BY <2>1, AppendProperties
  <2> QED BY <1>3, <2>2 DEF S
<1> QED BY <1>3, <1>4, <1>6 DEF z

\* It gives back the word, the database and its description.
LEMMA HeaderRead ==
    ASSUME NEW d \in DefinitionRecord
    PROVE  /\ HeaderLine(d) \in Seq(Chars) /\ IsStatus(HeaderLine(d))
           /\ Code(HeaderLine(d)) = DefinitionFollows
           /\ SplitParams(Text(HeaderLine(d))) = Header(d)
<1> DEFINE K == DefinitionFollows
           sp == <<SP>>
           q1 == Quote(d.word)
           q2 == Quote(d.database)
           q3 == Quote(d.description)
           body == (((q1 \o sp) \o q2) \o sp) \o q3
           line == HeaderLine(d)
<1>1. d.word \in Seq(Chars) /\ d.database \in Seq(Chars) /\ d.description \in Seq(Chars)
  BY DEF DefinitionRecord
<1>2. K \in Seq(Chars) /\ Len(K) = 3 /\ IsStatus(K) /\ Code(K) = K
  BY Coded
<1>3. sp \in Seq(Chars) /\ Len(sp) = 1 /\ sp[1] \in White
  BY DEF Chars, White
<1>4. q1 \in Seq(Chars) /\ q2 \in Seq(Chars) /\ q3 \in Seq(Chars) /\ Len(q1) >= 1 /\ q1[1] \notin White
  BY <1>1, QuoteHead
<1>5. Reads(ClientGrammar, body, Header(d))
  <2>1. Reads(ClientGrammar, q1, <<d.word>>)
    BY <1>1, ReadsFirst, SurvivesClient
  <2>2. Reads(ClientGrammar, (q1 \o sp) \o q2, Append(<<d.word>>, d.database))
    <3> HIDE DEF q1
    <3> QED BY <1>1, <2>1, ReadsNext, SurvivesClient
  <2> DEFINE two == (q1 \o sp) \o q2
             params == Append(<<d.word>>, d.database)
  <2>3. Reads(ClientGrammar, two, params)
    BY <2>2
  <2> HIDE DEF two, params
  <2>4. Reads(ClientGrammar, (two \o sp) \o q3, Append(params, d.description))
    BY <1>1, <2>3, ReadsNext, SurvivesClient
  <2>5. Append(params, d.description) = Header(d)
    BY DEF params, Header
  <2> QED BY <2>4, <2>5 DEF two
<1>6. line = (((((K \o sp) \o q1) \o sp) \o q2) \o sp) \o q3
  BY DEF HeaderLine
<1> HIDE DEF K, sp, q1, q2, q3, line
<1>7. /\ body \in Seq(Chars) /\ line = K \o (sp \o body) /\ Len(body) >= 1
      /\ body[1] = q1[1]
  <2>1. \A a, b, c \in Seq(Chars) : (a \o b) \o c = a \o (b \o c) /\ a \o b \in Seq(Chars)
    BY ConcatAssociative
  <2> DEFINE b1 == q1 \o sp
             b2 == b1 \o q2
             b3 == b2 \o sp
             P == K \o sp
  <2>2. b1 \in Seq(Chars) /\ b1 = q1 \o sp
    BY <1>3, <1>4
  <2>3. b1[1] = q1[1] /\ Len(b1) >= 1
    BY <1>3, <1>4
  <2> HIDE DEF b1
  <2>4. b2 \in Seq(Chars) /\ b2[1] = b1[1] /\ Len(b2) >= 1
    BY <1>4, <2>2, <2>3
  <2>4a. b2 = b1 \o q2
    OBVIOUS
  <2> HIDE DEF b2
  <2>5. b3 \in Seq(Chars) /\ b3[1] = b2[1] /\ Len(b3) >= 1
    BY <1>3, <2>4
  <2>5a. b3 = b2 \o sp
    OBVIOUS
  <2> HIDE DEF b3
  <2>6. body = b3 \o q3
    BY <2>2, <2>4a, <2>5a
  <2>7. body \in Seq(Chars) /\ body[1] = b3[1] /\ Len(body) >= 1
    BY <1>4, <2>5, <2>6
  <2> HIDE DEF body
  <2>8. P \in Seq(Chars)
    BY <1>2, <1>3
  <2>9. line = ((((P \o q1) \o sp) \o q2) \o sp) \o q3
    BY <1>6
  <2> DEFINE x1 == P \o q1
             x2 == x1 \o sp
             x3 == x2 \o q2
             x4 == x3 \o sp
  <2>10. P = K \o sp
    OBVIOUS
  <2> HIDE DEF P
  <2>11. x2 = P \o b1
    <3>1. (P \o q1) \o sp = P \o (q1 \o sp)
      BY <1>3, <1>4, <2>8, Regrouped
    <3> QED BY <2>2, <3>1
  <2> HIDE DEF x2
  <2>12. x3 = P \o b2
    <3>1. (P \o b1) \o q2 = P \o (b1 \o q2)
      BY <1>4, <2>2, <2>8, Regrouped
    <3>2. x3 = x2 \o q2
      OBVIOUS
    <3> HIDE DEF x3
    <3> QED BY <2>4a, <2>11, <3>1, <3>2
  <2> HIDE DEF x3
  <2>13. x4 = P \o b3
    BY <1>3, <2>1, <2>4, <2>5a, <2>8, <2>12
  <2>14. line = x4 \o q3
    BY <2>9 DEF x2, x3
  <2> HIDE DEF x4
  <2>15. line = P \o body
    BY <1>4, <2>1, <2>5, <2>6, <2>8, <2>13, <2>14
  <2>16. P \o body = K \o (sp \o body)
    BY <1>2, <1>3, <2>1, <2>7, <2>10
  <2> QED BY <2>3, <2>4, <2>5, <2>7, <2>15, <2>16
<1> HIDE DEF body
<1> DEFINE text == sp \o body
<1>8. text \in Seq(Chars) /\ line = K \o text
  BY <1>3, <1>7
<1>9. TrimStart(text, White) = body
  BY <1>3, <1>4, <1>7, TrimsSpace
<1> HIDE DEF text
<1>10. /\ line \in Seq(Chars) /\ Len(line) = 3 + Len(text) /\ Len(text) \in Nat
       /\ \A i \in 1..3 : line[i] = K[i]
  <2>1. \A i \in 1..Len(K) : (K \o text)[i] = K[i]
    BY <1>2, <1>8, Joined
  <2>2. /\ K \o text \in Seq(Chars) /\ Len(K \o text) = Len(K) + Len(text)
        /\ Len(text) \in Nat
    BY <1>2, <1>8, Joined
  <2>3. \A i \in 1..3 : line[i] = K[i]
    BY <1>2, <1>8, <2>1
  <2>4. line \in Seq(Chars) /\ Len(line) = 3 + Len(text)
    BY <1>2, <1>8, <2>2
  <2> QED BY <2>2, <2>3, <2>4
<1>11. IsStatus(line)
  BY <1>2, <1>10 DEF IsStatus
<1>12. Code(line) = K
  <2>1. SubSeq(line, 1, 3) = K
    BY <1>2, <1>8, <1>10
  <2> QED BY <2>1 DEF Code
<1>13. Text(line) = body
  <2>1. SubSeq(line, 4, Len(line)) = text
    BY <1>2, <1>8, <1>10
  <2> QED BY <1>9, <2>1 DEF Text, From
<1>14. SplitParams(body) = Header(d)
  <2>1. ClientGrammar \in Grammars
    BY DEF Grammars
  <2>2. SplitAs(ClientGrammar, body) = Header(d)
    BY <1>5, <2>1, ReadsParams
  <2> QED BY <2>2 DEF SplitParams
<1> QED BY <1>10, <1>11, <1>12, <1>13, <1>14 DEF line, K

\* The rows of a list.
RowsOf(list) == [i \in DOMAIN list |-> Row(list[i])]
EntryRecord == [name : Seq(Chars), text : Seq(Chars)]

\* A row is read as the name and the text that it was made from.
LEMMA RowRead ==
    ASSUME NEW e \in EntryRecord
    PROVE  /\ Row(e) \in Seq(Chars) /\ Len(SplitParams(Row(e))) = 2
           /\ SplitParams(Row(e))[1] = e.name /\ SplitParams(Row(e))[2] = e.text
<1> DEFINE x == e.name
           y == e.text
           one == <<x>>
           S == Seq(Chars)
<1>1. x \in S /\ y \in S
  BY DEF EntryRecord
<1>2. Reads(ClientGrammar, Quote(x), one)
  BY <1>1, ReadsFirst, SurvivesClient
<1>3. Row(e) = (Quote(x) \o <<SP>>) \o Quote(y)
  BY DEF Row
<1>4. one \in Seq(S) /\ Len(one) = 1 /\ one[1] = x
  BY <1>1
<1> HIDE DEF x, y, one
<1>5. Reads(ClientGrammar, Row(e), Append(one, y))
  BY <1>1, <1>2, <1>3, ReadsNext, SurvivesClient
<1>6. SplitParams(Row(e)) = Append(one, y) /\ Row(e) \in Seq(Chars)
  <2>1. Row(e) \in Seq(Chars)
    BY <1>5 DEF Reads
  <2>2. ClientGrammar \in Grammars
    BY DEF Grammars
  <2>3. SplitAs(ClientGrammar, Row(e)) = Append(one, y)
    BY <1>5, <2>2, ReadsParams
  <2> QED BY <2>1, <2>3 DEF SplitParams
<1> HIDE DEF S
<1>7. /\ Len(Append(one, y)) = Len(one) + 1
      /\ \A i \in 1..Len(one) : Append(one, y)[i] = one[i]
      /\ Append(one, y)[Len(one) + 1] = y
  <2>1. one \in Seq(S) /\ y \in S
    BY <1>1, <1>4
  <2> QED BY <2>1, AppendProperties
<1>8. Len(Append(one, y)) = 2 /\ Append(one, y)[1] = x /\ Append(one, y)[2] = y
  BY <1>4, <1>7
<1> QED BY <1>6, <1>8 DEF x, y

\* The rows of a list are parsed as the list they were made from.
LEMMA EntriesRead ==
    ASSUME NEW op, NEW list \in Seq(EntryRecord),
           op # "matches" => \A i \in DOMAIN list : list[i].name # <<>>
    PROVE  RowsOf(list) \in Seq(Seq(Chars)) /\ ParseEntries(op, RowsOf(list)) = list
<1> DEFINE N == Len(list)
           rows == RowsOf(list)
           Adds(v, i) == LET params == SplitParams(rows[i])
                         IN IF Keeps(op, params)
                            THEN Append(v, Entry(params[1], Param(params, 2))) ELSE v
           Walk(g) == [i \in 0..N |-> IF i = 0 THEN <<>> ELSE Adds(g[i - 1], i)]
           walked == CHOOSE entries : entries = Walk(entries)
           g == [i \in 0..N |-> SubSeq(list, 1, i)]
<1>1. N \in Nat /\ DOMAIN list = 1..N /\ \A i \in 1..N : list[i] \in EntryRecord
  OBVIOUS
<1>2. /\ rows \in Seq(Seq(Chars)) /\ Len(rows) = N /\ \A i \in 1..N : rows[i] = Row(list[i])
  <2>1. rows = [i \in 1..N |-> Row(list[i])]
    BY <1>1 DEF RowsOf
  <2>2. \A i \in 1..N : Row(list[i]) \in Seq(Chars)
    BY <1>1, RowRead
  <2> HIDE DEF rows
  <2> QED BY <1>1, <2>1, <2>2
<1>3. ParseEntries(op, rows) = walked[N]
  BY <1>2 DEF ParseEntries
<1> HIDE DEF rows
<1>4. ASSUME NEW i \in 1..N, NEW v
      PROVE  Adds(v, i) = Append(v, list[i])
  <2> DEFINE e == list[i]
             params == SplitParams(rows[i])
  <2>1. Len(params) = 2 /\ params[1] = e.name /\ params[2] = e.text
    BY <1>1, <1>2, RowRead
  <2>2. e \in EntryRecord /\ (op # "matches" => e.name # <<>>)
    BY <1>1
  <2> HIDE DEF e, params
  <2>3. e = [name |-> e.name, text |-> e.text]
    BY <2>2 DEF EntryRecord
  <2>4. Keeps(op, params)
    <3>1. params # <<>>
      BY <2>1
    <3> QED BY <2>1, <2>2, <3>1 DEF Keeps
  <2>5. Param(params, 2) = e.text
    BY <2>1 DEF Param
  <2>6. Entry(params[1], Param(params, 2)) = e
    BY <2>1, <2>3, <2>5 DEF Entry
  <2>7. Adds(v, i) = Append(v, Entry(params[1], Param(params, 2)))
    BY <2>4 DEF params
  <2> QED BY <2>6, <2>7 DEF e
<1> HIDE DEF Adds
<1>5. g \in [0..N -> Seq(EntryRecord)] /\ g[0] = <<>> /\ g[N] = list
  <2>1. \A i \in 0..N : SubSeq(list, 1, i) \in Seq(EntryRecord)
    BY <1>1
  <2>2. SubSeq(list, 1, 0) = <<>> /\ SubSeq(list, 1, N) = list
    BY SubSeqEmpty, SubSeqFull
  <2>3. g[0] = SubSeq(list, 1, 0) /\ g[N] = SubSeq(list, 1, N)
    BY <1>1
  <2>4. g \in [0..N -> Seq(EntryRecord)]
    BY <2>1
  <2> HIDE DEF g
  <2> QED BY <2>2, <2>3, <2>4
<1>6. ASSUME NEW i \in 1..N
      PROVE  g[i] = Append(g[i - 1], list[i])
  <2>1. g[i] = SubSeq(list, 1, i) /\ g[i - 1] = SubSeq(list, 1, i - 1)
    BY <1>1
  <2>2. SubSeq(list, 1, i) = Append(SubSeq(list, 1, i - 1), list[i])
    BY <1>1
  <2> HIDE DEF g
  <2> QED BY <2>1, <2>2
<1> HIDE DEF g
<1>7. g = Walk(g)
  <2>1. ASSUME NEW i \in 0..N
        PROVE  g[i] = Walk(g)[i]
    <3>1. CASE i = 0
      BY <1>5, <3>1
    <3>2. CASE i # 0
      <4>1. i \in 1..N
        BY <1>1, <3>2
      <4>2. g[i] = Adds(g[i - 1], i)
        BY <1>4, <1>6, <4>1
      <4> QED BY <3>2, <4>2
    <3> QED BY <3>1, <3>2
  <2> QED BY <1>5, <2>1
<1>8. walked = Walk(walked)
  <2> HIDE DEF Walk
  <2> QED BY <1>7
<1> HIDE DEF walked
<1>9. \A i \in 0..N : walked[i] = IF i = 0 THEN <<>> ELSE Adds(walked[i - 1], i)
  <2> SUFFICES ASSUME NEW i \in 0..N
               PROVE  walked[i] = Walk(walked)[i]
    OBVIOUS
  <2> HIDE DEF Walk
  <2> QED BY <1>8
<1>10. walked[N] = g[N]
  <2> DEFINE Holds == {j \in 0..N : walked[j] = g[j]}
  <2>1. 0 \in Holds
    BY <1>1, <1>5, <1>9
  <2>2. ASSUME NEW i \in 1..N, i - 1 \in Holds
        PROVE  i \in Holds
    <3>1. walked[i - 1] = g[i - 1] /\ i \in 0..N /\ i # 0
      BY <1>1, <2>2
    <3>2. walked[i] = Adds(walked[i - 1], i)
      BY <1>9, <3>1
    <3>3. walked[i] = g[i]
      BY <1>4, <1>6, <3>1, <3>2
    <3> QED BY <3>1, <3>3
  <2> HIDE DEF Holds
  <2>3. \A i \in 0..N : i \in Holds
    BY <1>1, <2>1, <2>2, CountUp
  <2>4. N \in 0..N
    BY <1>1
  <2> QED BY <2>3, <2>4 DEF Holds
<1> QED BY <1>2, <1>3, <1>5, <1>10 DEF rows

\* No lines at all are a path.
LEMMA PathNone ==
    ASSUME NEW s \in Calls
    PROVE  Path(s, <<>>, s)
<1> DEFINE st == [i \in 0..0 |-> s]
           none == <<>>
<1>1. st \in [0..0 -> Calls] /\ st[0] = s
  OBVIOUS
<1>2. Len(none) = 0
  OBVIOUS
<1> HIDE DEF st, none
<1>3. Walks(st, none)
  BY <1>2 DEF Walks
<1> QED BY <1>1, <1>2, <1>3 DEF Path, none

\* The lines of a definition add it to the ones before.
LEMMA PathDefinition ==
    ASSUME NEW s \in Calls, s.pc = "definitions", s.lines = <<>>, s.command.op = "define",
           NEW d \in DefinitionRecord
    PROVE  LET t == [s EXCEPT !.header = Header(d), !.definitions = Append(@, d)]
           IN DefinitionLines(d) \in Seq(Seq(Chars)) /\ t \in Calls /\ Path(s, DefinitionLines(d), t)
<1> DEFINE t == [s EXCEPT !.header = Header(d), !.definitions = Append(@, d)]
           u == [s EXCEPT !.pc = "block", !.header = Header(d)]
           line == HeaderLine(d)
           first == <<line>>
           block == Block(d.text)
<1>1. /\ Header(d) \in Seq(Seq(Chars)) /\ Len(Header(d)) = 3
      /\ Header(d)[1] = d.word /\ Header(d)[2] = d.database /\ Header(d)[3] = d.description
  BY HeaderParts
<1>2. /\ line \in Seq(Chars) /\ IsStatus(line) /\ Code(line) = DefinitionFollows
      /\ SplitParams(Text(line)) = Header(d)
  BY HeaderRead
<1>3. d.text \in Seq(Seq(Chars))
  BY DEF DefinitionRecord
<1>4. d = [word |-> d.word, database |-> d.database, description |-> d.description, text |-> d.text]
  BY DEF DefinitionRecord
<1>5. /\ u \in Calls /\ u.pc = "block" /\ u.lines = <<>> /\ u.command.op = "define"
      /\ u.header = Header(d)
  BY <1>1 DEF Calls
<1>6. GoodHeader(Header(d))
  BY <1>1 DEF GoodHeader
<1> HIDE DEF line
<1>7. Goes(s, line, u)
  BY <1>2, <1>6 DEF Goes
<1>8. Uncut(s, line)
  BY <1>2 DEF Uncut
<1> HIDE DEF u
<1>9. Path(s, first, u) /\ first \in Seq(Seq(Chars))
  <2>1. Path(s, first, u)
    BY <1>2, <1>5, <1>7, <1>8, PathOne DEF Moves
  <2>2. first \in Seq(Seq(Chars))
    BY <1>2
  <2> QED BY <2>1, <2>2
<1>10. /\ block \in Seq(Seq(Chars)) /\ t \in Calls /\ Path(u, block, t)
  <2> DEFINE w == [u EXCEPT !.pc = "definitions",
                            !.definitions = Append(@, Definition(u.header, d.text))]
  <2>1. /\ block \in Seq(Seq(Chars)) /\ w \in Calls /\ Path(u, block, w)
        /\ Definition(u.header, d.text)
              = [word |-> u.header[1], database |-> u.header[2], description |-> u.header[3],
                 text |-> d.text]
    BY <1>1, <1>3, <1>5, PathDefined
  <2>2. Definition(u.header, d.text) = d
    BY <1>1, <1>4, <1>5, <2>1
  <2>3. w = t
    BY <2>2 DEF u, Calls
  <2> QED BY <2>1, <2>3
<1>11. DefinitionLines(d) = first \o block
  BY DEF DefinitionLines, HeaderLine, line
<1> HIDE DEF first, block, t
<1>12. Path(s, first \o block, t) /\ first \o block \in Seq(Seq(Chars))
  BY <1>9, <1>10, PathConcat
<1> QED BY <1>10, <1>11, <1>12 DEF t

\* The lines of all definitions.
LinesOf(list) == FlattenSeq([i \in DOMAIN list |-> DefinitionLines(list[i])])

\* They are collected.
LEMMA PathDefinitions ==
    ASSUME NEW s \in Calls, s.pc = "definitions", s.lines = <<>>, s.command.op = "define",
           s.definitions = <<>>, NEW list \in Seq(DefinitionRecord)
    PROVE  /\ LinesOf(list) \in Seq(Seq(Chars))
           /\ \E t \in Calls : /\ Path(s, LinesOf(list), t) /\ t.pc = "definitions"
                               /\ t.command = s.command /\ t.definitions = list
<1> DEFINE N == Len(list)
           pieces == [i \in DOMAIN list |-> DefinitionLines(list[i])]
           S == Seq(Chars)
<1>1. N \in Nat /\ DOMAIN list = 1..N /\ \A i \in 1..N : list[i] \in DefinitionRecord
  OBVIOUS
<1>2. \A i \in 1..N : DefinitionLines(list[i]) \in Seq(S)
  BY <1>1, PathDefinition
<1>3. /\ pieces \in Seq(Seq(S)) /\ Len(pieces) = N
      /\ \A i \in 1..N : pieces[i] = DefinitionLines(list[i])
  <2>1. pieces = [i \in 1..N |-> DefinitionLines(list[i])]
    BY <1>1
  <2> HIDE DEF pieces, S
  <2> QED BY <1>1, <1>2, <2>1
<1>4. LinesOf(list) = FlattenSeq(pieces)
  BY DEF LinesOf
<1> HIDE DEF pieces, S
<1>5. PICK f : /\ f \in [0..Len(pieces) -> Seq(S)] /\ f[0] = <<>>
               /\ \A i \in 1..Len(pieces) : f[i] = f[i - 1] \o pieces[i]
               /\ FlattenSeq(pieces) = f[Len(pieces)]
  BY <1>3, FlattenParts
<1>6. SubSeq(list, 1, 0) = <<>> /\ SubSeq(list, 1, N) = list
  BY SubSeqEmpty, SubSeqFull
<1> DEFINE Reaches(i) ==
             \E t \in Calls : /\ Path(s, f[i], t) /\ t.pc = "definitions" /\ t.lines = <<>>
                              /\ t.command = s.command /\ t.definitions = SubSeq(list, 1, i)
           Holds == {i \in 0..N : Reaches(i)}
<1>7. 0 \in Holds
  <2>1. Path(s, f[0], s)
    BY <1>5, PathNone
  <2>2. Reaches(0)
    BY <1>6, <2>1
  <2> QED BY <1>1, <2>2
<1>8. ASSUME NEW i \in 1..N, i - 1 \in Holds
      PROVE  i \in Holds
  <2>1. i - 1 \in 0..N /\ i \in 0..N /\ Reaches(i - 1) /\ list[i] \in DefinitionRecord
    BY <1>1, <1>8
  <2>2. PICK t \in Calls : /\ Path(s, f[i - 1], t) /\ t.pc = "definitions" /\ t.lines = <<>>
                           /\ t.command = s.command /\ t.definitions = SubSeq(list, 1, i - 1)
    BY <2>1
  <2> DEFINE d == list[i]
             u == [t EXCEPT !.header = Header(d), !.definitions = Append(@, d)]
  <2>3. d \in DefinitionRecord
    BY <2>1
  <2> HIDE DEF d
  <2>4. DefinitionLines(d) \in Seq(Seq(Chars)) /\ u \in Calls /\ Path(t, DefinitionLines(d), u)
    BY <2>2, <2>3, PathDefinition
  <2>5. /\ u.pc = "definitions" /\ u.lines = <<>> /\ u.command = s.command
        /\ u.definitions = Append(t.definitions, d)
    BY <2>2 DEF Calls
  <2> HIDE DEF u
  <2>6. f[i] = f[i - 1] \o DefinitionLines(d) /\ f[i - 1] \in Seq(Seq(Chars))
    BY <1>3, <1>5, <2>1 DEF S, d
  <2> DEFINE a == f[i - 1]
             b == DefinitionLines(d)
  <2>7. Path(s, a \o b, u)
    <3>1. a \in Seq(Seq(Chars)) /\ b \in Seq(Seq(Chars)) /\ Path(s, a, t) /\ Path(t, b, u)
      BY <2>2, <2>4, <2>6
    <3> HIDE DEF a, b
    <3> QED BY <3>1, PathConcat
  <2>8. SubSeq(list, 1, i) = Append(SubSeq(list, 1, i - 1), d)
    BY <1>1 DEF d
  <2>9. Reaches(i)
    BY <2>2, <2>4, <2>5, <2>6, <2>7, <2>8
  <2> HIDE DEF Reaches
  <2> QED BY <2>1, <2>9
<1>9. \A i \in 0..N : i \in Holds
  <2> HIDE DEF Holds
  <2> QED BY <1>1, <1>7, <1>8, CountUp
<1>10. N \in 0..N /\ f[N] = LinesOf(list) /\ f[N] \in Seq(S)
  <2>1. N \in Nat
    BY <1>1
  <2> HIDE DEF N, Reaches, Holds
  <2>2. N \in 0..N
    BY <2>1
  <2> QED BY <1>3, <1>4, <1>5, <2>2
<1>11. Reaches(N)
  BY <1>9, <1>10
<1> QED BY <1>6, <1>10, <1>11 DEF S

\* How a call goes through an answer: over n lines, after which one line more concludes it,
\* and is the last of the answer, or makes it fail.
Course(command, answer, n, st) ==
    LET A == AnswerLines(command.op, answer)
    IN /\ A \in Seq(Seq(Chars)) /\ n \in Nat /\ n < Len(A)
       /\ st \in [0..n -> Calls] /\ st[0] = Begun(command)
       /\ \A i \in 1..n : Moves(st[i - 1], A[i], st[i])
       /\ Uncut(st[n], A[n + 1])
       /\ \/ Len(A) = n + 1 /\ Concludes(st[n], A[n + 1], Meaning(command.op, answer))
          \/ Strays(st[n], A[n + 1])

\* A path over the first lines is one.
LEMMA PathCourse ==
    ASSUME NEW command, NEW answer, NEW A \in Seq(Seq(Chars)), A = AnswerLines(command.op, answer),
           NEW L \in Seq(Seq(Chars)), NEW s, Path(Begun(command), L, s), Len(L) < Len(A),
           \A i \in 1..Len(L) : A[i] = L[i], Uncut(s, A[Len(L) + 1]),
           \/ Len(A) = Len(L) + 1 /\ Concludes(s, A[Len(L) + 1], Meaning(command.op, answer))
           \/ Strays(s, A[Len(L) + 1])
    PROVE  \E n, st : Course(command, answer, n, st)
<1>1. PICK st : /\ st \in [0..Len(L) -> Calls] /\ st[0] = Begun(command) /\ st[Len(L)] = s
                /\ Walks(st, L)
  BY DEF Path
<1> DEFINE n == Len(L)
<1>2. n \in Nat
  OBVIOUS
<1>3. \A i \in 1..n : Moves(st[i - 1], A[i], st[i])
  BY <1>1 DEF Walks
<1> HIDE DEF n
<1>4. Course(command, answer, n, st)
  <2>1. st \in [0..n -> Calls] /\ st[0] = Begun(command) /\ st[n] = s /\ n < Len(A)
    BY <1>1 DEF n
  <2>2. /\ Uncut(st[n], A[n + 1])
        /\ \/ Len(A) = n + 1 /\ Concludes(st[n], A[n + 1], Meaning(command.op, answer))
           \/ Strays(st[n], A[n + 1])
    BY <2>1 DEF n
  <2> QED BY <1>2, <1>3, <2>1, <2>2 DEF Course
<1> QED BY <1>4

\* A call begins with its first status.
LEMMA BegunCall ==
    ASSUME NEW c \in Commands
    PROVE  /\ Begun(c) \in Calls /\ Begun(c).pc = "status" /\ Begun(c).command = c
           /\ Begun(c).lines = <<>> /\ Begun(c).definitions = <<>>
<1>1. Begun(c) = [pc |-> "status", command |-> c, lines |-> <<>>, header |-> <<>>,
                  definitions |-> <<>>, result |-> More]
  <2> DEFINE q == [op |-> "quit", params |-> <<>>]
             r == [pc |-> "idle", command |-> q, lines |-> <<>>, header |-> <<>>,
                   definitions |-> <<>>, result |-> More]
  <2>1. Begun(c) = [r EXCEPT !.pc = "status", !.command = c]
    BY DEF Begun, Idle
  <2> HIDE DEF q
  <2> QED BY <2>1
<1>2. /\ <<>> \in Seq(Seq(Chars)) /\ <<>> \in Seq(DefinitionRecord)
  OBVIOUS
<1>3. Begun(c) \in Calls
  BY <1>1, <1>2 DEF Calls
<1> QED BY <1>1, <1>3

\* An answer of one status.
LEMMA CodeCourse ==
    ASSUME NEW c \in Commands, NEW answer, InGrammar(c.op, answer), answer.kind = "code"
    PROVE  \E n, st : Course(c, answer, n, st)
<1> DEFINE end == answer.end
           A == <<end>>
           L == <<>>
           s == Begun(c)
<1>1. /\ end \in Seq(Chars) /\ Len(end) = 3 /\ IsStatus(end) /\ end # DefinitionsFollow
      /\ c.op \in DOMAIN Follows => end # Follows[c.op]
  BY DEF InGrammar
<1>2. Code(end) = end
  BY <1>1, OwnCode
<1>3. s \in Calls /\ s.pc = "status" /\ s.command = c
  BY BegunCall
<1> DEFINE Done == \/ c.op \in DOMAIN Nothing /\ end = Nothing[c.op]
                   \/ c.op \in {"announce", "quit"} /\ IsSuccess(end)
           result == IF Done THEN Ok(<<>>) ELSE Refused(end)
<1>4. Meaning(c.op, answer) = result
  <2>1. CASE Done
    BY <2>1 DEF Meaning
  <2>2. CASE ~Done
    BY <2>2 DEF Meaning
  <2> QED BY <2>1, <2>2
<1>5. AnswerLines(c.op, answer) = A
  BY DEF AnswerLines
<1> HIDE DEF end, s
<1>6. Concludes(s, end, Meaning(c.op, answer))
  <2>1. Concludes(s, end, result)
    BY <1>1, <1>2, <1>3 DEF Concludes
  <2> QED BY <1>4, <2>1
<1>7. Path(s, L, s)
  BY <1>3, PathNone
<1>8. L \in Seq(Seq(Chars)) /\ Len(L) = 0
  OBVIOUS
<1>9. A \in Seq(Seq(Chars)) /\ Len(A) = 1 /\ A[1] = end
  BY <1>1
<1>10. Uncut(s, end)
  BY <1>1 DEF Uncut
<1> HIDE DEF A, L
<1>11. /\ Len(L) < Len(A) /\ \A i \in 1..Len(L) : A[i] = L[i]
       /\ Uncut(s, A[Len(L) + 1]) /\ Len(A) = Len(L) + 1
       /\ Concludes(s, A[Len(L) + 1], Meaning(c.op, answer))
  BY <1>6, <1>8, <1>9, <1>10
<1> QED BY <1>5, <1>7, <1>8, <1>9, <1>11, PathCourse DEF s

\* Three parts of an answer.
LEMMA Parts ==
    ASSUME NEW S, NEW a \in Seq(S), NEW x \in S
    PROVE  /\ a \o <<x>> \in Seq(S) /\ Len(a \o <<x>>) = Len(a) + 1 /\ Len(a) \in Nat
           /\ (a \o <<x>>)[Len(a) + 1] = x /\ \A i \in 1..Len(a) : (a \o <<x>>)[i] = a[i]
<1>1. <<x>> \in Seq(S) /\ Len(<<x>>) = 1 /\ <<x>>[1] = x
  OBVIOUS
<1> DEFINE b == <<x>>
<1> HIDE DEF b
<1>2. b \in Seq(S) /\ Len(b) = 1 /\ b[1] = x
  BY <1>1 DEF b
<1>3. /\ a \o b \in Seq(S) /\ Len(a \o b) = Len(a) + 1 /\ Len(a) \in Nat
      /\ (a \o b)[Len(a) + 1] = x /\ \A i \in 1..Len(a) : (a \o b)[i] = a[i]
  <2>1. /\ a \o b \in Seq(S) /\ Len(a \o b) = Len(a) + Len(b)
        /\ \A i \in 1..(Len(a) + Len(b)) : (a \o b)[i] = IF i <= Len(a) THEN a[i] ELSE b[i - Len(a)]
    BY <1>2, ConcatProperties
  <2>2. Len(a) \in Nat
    OBVIOUS
  <2> QED BY <1>2, <2>1, <2>2
<1> QED BY <1>3 DEF b

\* A list.
LEMMA ListCourse ==
    ASSUME NEW c \in Commands, NEW answer, InGrammar(c.op, answer), answer.kind = "list"
    PROVE  \E n, st : Course(c, answer, n, st)
<1> DEFINE op == c.op
           end == answer.end
           list == answer.list
           rows == RowsOf(list)
           first == Follows[op]
           block == Block(rows)
           opening == <<first>>
           L == opening \o block
           A == L \o <<end>>
           s == Begun(c)
           t == [s EXCEPT !.pc = "block"]
           u == [t EXCEPT !.pc = "closing", !.lines = rows]
<1>1. /\ end \in Seq(Chars) /\ Len(end) = 3 /\ IsStatus(end) /\ op \in DOMAIN Follows
      /\ list \in Seq(EntryRecord)
      /\ op # "matches" => \A i \in DOMAIN list : list[i].name # <<>>
  BY DEF InGrammar, EntryRecord
<1>2. Code(end) = end
  BY <1>1, OwnCode
<1>3. s \in Calls /\ s.pc = "status" /\ s.command = c /\ s.lines = <<>>
  BY BegunCall
<1>4. Meaning(op, answer) = IF IsSuccess(end) THEN Ok(list) ELSE Refused(end)
  BY DEF Meaning
<1>5. rows \in Seq(Seq(Chars)) /\ ParseEntries(op, rows) = list
  <2> HIDE DEF op, list
  <2> QED BY <1>1, EntriesRead
<1>6. op # "define" /\ first \in {DatabasesFollow, StrategiesFollow, MatchesFollow}
  BY <1>1 DEF Follows
<1>7. first \in Seq(Chars) /\ Len(first) = 3 /\ IsStatus(first) /\ Code(first) = first
  <2> HIDE DEF first
  <2> QED BY <1>6, Coded
<1>8. AnswerLines(op, answer) = A
  BY DEF AnswerLines, RowsOf
<1> HIDE DEF end, list, rows, s
<1>9. /\ t \in Calls /\ t.pc = "block" /\ t.lines = <<>> /\ t.command = c
  BY <1>3 DEF Calls
<1>10. Goes(s, first, t)
  BY <1>1, <1>3, <1>7 DEF Goes
<1> HIDE DEF first
<1>11. Path(s, opening, t) /\ opening \in Seq(Seq(Chars))
  <2>1. Path(s, opening, t)
    <3> HIDE DEF t
    <3> QED BY <1>3, <1>7, <1>9, <1>10, PathOne DEF Moves, Uncut
  <2> QED BY <1>7, <2>1
<1>12. u.pc = "closing" /\ u.lines = rows /\ u.command = c
  BY <1>9 DEF Calls
<1>13. block \in Seq(Seq(Chars)) /\ u \in Calls /\ Path(t, block, u)
  <2> HIDE DEF t
  <2> QED BY <1>5, <1>6, <1>9, PathListed
<1> HIDE DEF t, u, block, opening
<1>14. Path(s, L, u) /\ L \in Seq(Seq(Chars))
  BY <1>11, <1>13, PathConcat
<1>15. Concludes(u, end, Meaning(op, answer))
  BY <1>1, <1>2, <1>4, <1>5, <1>12 DEF Concludes
<1>16. Uncut(u, end)
  BY <1>1 DEF Uncut
<1> HIDE DEF L, op
<1>17. /\ A \in Seq(Seq(Chars)) /\ Len(A) = Len(L) + 1 /\ Len(L) \in Nat /\ A[Len(L) + 1] = end
       /\ \A i \in 1..Len(L) : A[i] = L[i]
  <2> DEFINE S == Seq(Chars)
  <2>1. L \in Seq(S) /\ end \in S
    BY <1>1, <1>14
  <2> HIDE DEF S
  <2>2. /\ A \in Seq(S) /\ Len(A) = Len(L) + 1 /\ Len(L) \in Nat /\ A[Len(L) + 1] = end
        /\ \A i \in 1..Len(L) : A[i] = L[i]
    BY <2>1, Parts
  <2> QED BY <2>2 DEF S
<1> HIDE DEF A
<1>18. Len(L) < Len(A)
  BY <1>17
<1> QED BY <1>8, <1>14, <1>15, <1>16, <1>17, <1>18, PathCourse DEF s, op

\* Definitions.
LEMMA DefinitionsCourse ==
    ASSUME NEW c \in Commands, NEW answer, InGrammar(c.op, answer), answer.kind = "definitions"
    PROVE  \E n, st : Course(c, answer, n, st)
<1> DEFINE op == c.op
           end == answer.end
           list == answer.list
           first == DefinitionsFollow
           block == LinesOf(list)
           opening == <<first>>
           L == opening \o block
           A == L \o <<end>>
           s == Begun(c)
           t == [s EXCEPT !.pc = "definitions"]
<1>1. /\ end \in Seq(Chars) /\ Len(end) = 3 /\ IsStatus(end) /\ op = "define"
      /\ list \in Seq(DefinitionRecord) /\ end # DefinitionFollows
  BY DEF InGrammar
<1>2. Code(end) = end
  BY <1>1, OwnCode
<1>3. /\ s \in Calls /\ s.pc = "status" /\ s.command = c /\ s.lines = <<>>
      /\ s.definitions = <<>>
  BY BegunCall
<1>4. Meaning(op, answer) = IF IsSuccess(end) THEN Ok(list) ELSE Refused(end)
  BY DEF Meaning
<1>5. first \in Seq(Chars) /\ Len(first) = 3 /\ IsStatus(first) /\ Code(first) = first
  BY Coded
<1>6. AnswerLines(op, answer) = A
  BY DEF AnswerLines, LinesOf
<1> HIDE DEF end, list, s
<1>7. /\ t \in Calls /\ t.pc = "definitions" /\ t.lines = <<>> /\ t.command = c
      /\ t.definitions = <<>>
  BY <1>3 DEF Calls
<1>8. Goes(s, first, t)
  BY <1>1, <1>3, <1>5 DEF Goes
<1> HIDE DEF first, t
<1>9. Path(s, opening, t) /\ opening \in Seq(Seq(Chars))
  <2>1. Path(s, opening, t)
    BY <1>3, <1>5, <1>7, <1>8, PathOne DEF Moves, Uncut
  <2> QED BY <1>5, <2>1
<1>10. PICK u \in Calls : /\ Path(t, block, u) /\ u.pc = "definitions" /\ u.command = c
                          /\ u.definitions = list
  BY <1>1, <1>7, PathDefinitions
<1>11. block \in Seq(Seq(Chars))
  BY <1>1, <1>7, PathDefinitions
<1> HIDE DEF block, opening
<1>12. Path(s, L, u) /\ L \in Seq(Seq(Chars))
  BY <1>9, <1>10, <1>11, PathConcat
<1>13. Concludes(u, end, Meaning(op, answer))
  BY <1>1, <1>2, <1>4, <1>10 DEF Concludes
<1>14. Uncut(u, end)
  BY <1>1 DEF Uncut
<1> HIDE DEF L, op
<1>15. /\ A \in Seq(Seq(Chars)) /\ Len(A) = Len(L) + 1 /\ Len(L) \in Nat /\ A[Len(L) + 1] = end
       /\ \A i \in 1..Len(L) : A[i] = L[i]
  <2> DEFINE S == Seq(Chars)
  <2>1. L \in Seq(S) /\ end \in S
    BY <1>1, <1>12
  <2> HIDE DEF S
  <2>2. /\ A \in Seq(S) /\ Len(A) = Len(L) + 1 /\ Len(L) \in Nat /\ A[Len(L) + 1] = end
        /\ \A i \in 1..Len(L) : A[i] = L[i]
    BY <2>1, Parts
  <2> QED BY <2>2 DEF S
<1> HIDE DEF A
<1>16. Len(L) < Len(A)
  BY <1>15
<1> QED BY <1>6, <1>12, <1>13, <1>14, <1>15, <1>16, PathCourse DEF s, op

\* A response that goes wrong.
LEMMA BrokenCourse ==
    ASSUME NEW c \in Commands, NEW answer, OutOfGrammar(c.op, answer)
    PROVE  \E n, st : Course(c, answer, n, st)
<1> DEFINE A == answer.lines
           s == Begun(c)
<1>1. A \in Seq(Seq(Chars)) /\ A # <<>> /\ AnswerLines(c.op, answer) = A
  BY DEF OutOfGrammar, AnswerLines
<1>2. s \in Calls /\ s.pc = "status" /\ s.command = c
  BY BegunCall
<1>3. CASE ~IsStatus(A[1])
  <2> DEFINE L == <<>>
  <2>1. L \in Seq(Seq(Chars)) /\ Len(L) = 0 /\ Len(A) > 0
    BY <1>1
  <2> HIDE DEF A, s, L
  <2>2. Uncut(s, A[1]) /\ Strays(s, A[1])
    BY <1>2, <1>3 DEF Uncut, Strays
  <2>3. Path(s, L, s)
    BY <1>2, PathNone DEF L
  <2>4. /\ Len(L) < Len(A) /\ \A i \in 1..Len(L) : A[i] = L[i]
        /\ Uncut(s, A[Len(L) + 1]) /\ Strays(s, A[Len(L) + 1])
    BY <2>1, <2>2
  <2> QED BY <1>1, <2>1, <2>3, <2>4, PathCourse DEF s
<1>4. CASE IsStatus(A[1])
  <2> DEFINE first == DefinitionsFollow
             L == <<first>>
             t == [s EXCEPT !.pc = "definitions"]
  <2>1. /\ c.op = "define" /\ A[1] = first /\ Len(A) >= 2
        /\ \/ ~IsStatus(A[2])
           \/ Code(A[2]) = DefinitionFollows /\ ~GoodHeader(SplitParams(Text(A[2])))
    BY <1>4 DEF OutOfGrammar
  <2>2. first \in Seq(Chars) /\ Len(first) = 3 /\ IsStatus(first) /\ Code(first) = first
    BY Coded
  <2>3. t \in Calls /\ t.pc = "definitions"
    BY <1>2 DEF Calls
  <2> HIDE DEF A, s
  <2>4. Goes(s, first, t)
    BY <1>2, <2>1, <2>2 DEF Goes
  <2> HIDE DEF first, t
  <2>5. Path(s, L, t)
    BY <1>2, <2>2, <2>3, <2>4, PathOne DEF Moves, Uncut
  <2>6. L \in Seq(Seq(Chars)) /\ Len(L) = 1 /\ L[1] = first
    BY <2>2
  <2>7. Uncut(t, A[2]) /\ Strays(t, A[2])
    BY <2>1, <2>3 DEF Uncut, Strays
  <2> HIDE DEF L
  <2>8. /\ Len(L) < Len(A) /\ \A i \in 1..Len(L) : A[i] = L[i]
        /\ Uncut(t, A[Len(L) + 1]) /\ Strays(t, A[Len(L) + 1])
    BY <1>1, <2>1, <2>6, <2>7
  <2> QED BY <1>1, <2>5, <2>6, <2>8, PathCourse DEF s
<1> QED BY <1>3, <1>4

\* A call goes through any answer to its end, where it returns what the answer means, or
\* to where the answer leaves the grammar.
LEMMA AnswerCourse ==
    ASSUME NEW c \in Commands, NEW answer \in Answers[c.op]
    PROVE  \E n, st : Course(c, answer, n, st)
<1>1. c.op \in DOMAIN Words
  BY CommandRead
<1>2. InGrammar(c.op, answer) \/ OutOfGrammar(c.op, answer)
  BY <1>1, AnswersAssumption
<1>3. InGrammar(c.op, answer) => answer.kind \in {"code", "list", "definitions"}
  BY DEF InGrammar
<1> QED BY <1>2, <1>3, CodeCourse, ListCourse, DefinitionsCourse, BrokenCourse

----------------------------------------------------------------------------
(* A call and the lines under way to it.                                   *)

\* Part of a line.
Cut(x, line) == \E k \in 1..(Len(line) - 1) : x = SubSeq(line, 1, k)

\* The lines under way are those of A after the first j; when the stream has ended, the
\* last of them may be part of one.
Within(lines, ended, rest, A, j) ==
    /\ Len(lines) + Len(rest) <= Len(A) - j
    /\ \A i \in 1..Len(lines) :
          \/ lines[i] = A[j + i]
          \/ ended /\ i = Len(lines) /\ Cut(lines[i], A[j + i])
    /\ \A i \in 1..Len(rest) : rest[i] = A[j + Len(lines) + i]
    /\ ended => rest = <<>>

\* A call s to the command c is within the answer.
At(c, answer, s, lines, ended, rest, n, st, j) ==
    /\ Course(c, answer, n, st) /\ j \in 0..n /\ s = st[j]
    /\ Within(lines, ended, rest, AnswerLines(c.op, answer), j)

\* Part of a line does not conclude a response.
LEMMA CutConcludesNothing ==
    ASSUME NEW s \in Calls, NEW line \in Seq(Chars), NEW x, Cut(x, line), Uncut(s, line), NEW result
    PROVE  ~Concludes(s, x, result)
<1> SUFFICES ASSUME Concludes(s, x, result) PROVE FALSE
  OBVIOUS
<1>1. PICK k \in 1..(Len(line) - 1) : x = SubSeq(line, 1, k)
  BY DEF Cut
<1>2. /\ Len(line) \in Nat /\ k \in Nat /\ k < Len(line) /\ x \in Seq(Chars) /\ Len(x) = k
      /\ \A i \in 1..k : x[i] = line[i]
  <2>1. Len(line) \in Nat
    OBVIOUS
  <2>2. k \in Nat /\ k < Len(line) /\ k >= 1
    BY <2>1
  <2>3. /\ SubSeq(line, 1, k) \in Seq(Chars) /\ Len(SubSeq(line, 1, k)) = k
        /\ \A i \in 1..k : SubSeq(line, 1, k)[i] = line[i]
    BY <2>1, <2>2
  <2> QED BY <1>1, <2>1, <2>2, <2>3
<1>3. IsStatus(x) /\ s.pc \in {"status", "definitions", "closing"}
  BY DEF Concludes
<1>4. k >= 3 /\ \A i \in 1..3 : IsDigit(x[i])
  BY <1>2, <1>3 DEF IsStatus
<1>5. \A i \in 1..3 : x[i] = line[i]
  BY <1>2, <1>4
<1>6. IsStatus(line) /\ Len(line) # 3
  BY <1>2, <1>4, <1>5 DEF IsStatus
<1>7. s.pc = "definitions" /\ Code(line) = DefinitionFollows
  BY <1>3, <1>6 DEF Uncut
<1>8. Code(x) = Code(line)
  <2>1. /\ SubSeq(x, 1, 3) \in Seq(Chars) /\ Len(SubSeq(x, 1, 3)) = 3
        /\ \A i \in 1..3 : SubSeq(x, 1, 3)[i] = x[i]
    BY <1>2, <1>4
  <2>2. /\ SubSeq(line, 1, 3) \in Seq(Chars) /\ Len(SubSeq(line, 1, 3)) = 3
        /\ \A i \in 1..3 : SubSeq(line, 1, 3)[i] = line[i]
    BY <1>2, <1>4
  <2> DEFINE a == SubSeq(x, 1, 3)
             b == SubSeq(line, 1, 3)
  <2>3. a \in Seq(Chars) /\ b \in Seq(Chars) /\ Len(a) = Len(b) /\ \A i \in 1..Len(a) : a[i] = b[i]
    BY <1>5, <2>1, <2>2
  <2> HIDE DEF a, b
  <2>4. a = b
    BY <2>3, SeqEqual
  <2> QED BY <2>4 DEF a, b, Code
<1> QED BY <1>7, <1>8 DEF Concludes

\* A line takes a call on, concludes its response, or makes it fail.
LEMMA Reaction ==
    ASSUME NEW s \in Calls, NEW line
    PROVE  \/ \E t : Goes(s, line, t)
           \/ \E result : Concludes(s, line, result)
           \/ Strays(s, line)
<1> DEFINE op == s.command.op
           code == Code(line)
           params == SplitParams(Text(line))
<1>1. CASE s.pc \in {"status", "definitions", "closing"} /\ ~IsStatus(line)
  BY <1>1 DEF Strays
<1>2. CASE s.pc = "block"
  <2>1. IsTerminator(line) \/ ~IsTerminator(line)
    OBVIOUS
  <2> QED BY <1>2, <2>1 DEF Goes
<1>3. CASE s.pc = "status" /\ IsStatus(line)
  <2>1. CASE op \in DOMAIN Follows /\ code = Follows[op]
    BY <1>3, <2>1 DEF Goes
  <2>2. CASE op = "define" /\ code = DefinitionsFollow
    BY <1>3, <2>2 DEF Goes
  <2>3. CASE (op \in DOMAIN Follows => code # Follows[op]) /\ (op = "define" => code # DefinitionsFollow)
    BY <1>3, <2>3 DEF Concludes
  <2> QED BY <2>1, <2>2, <2>3
<1>4. CASE s.pc = "definitions" /\ IsStatus(line)
  <2>1. CASE code = DefinitionFollows /\ GoodHeader(params)
    BY <1>4, <2>1 DEF Goes
  <2>2. CASE code = DefinitionFollows /\ ~GoodHeader(params)
    BY <1>4, <2>2 DEF Strays
  <2>3. CASE code # DefinitionFollows
    BY <1>4, <2>3 DEF Concludes
  <2> QED BY <2>1, <2>2, <2>3
<1>5. CASE s.pc = "closing" /\ IsStatus(line)
  BY <1>5 DEF Concludes
<1>6. s.pc \in {"status", "block", "definitions", "closing"}
  BY DEF Calls
<1> QED BY <1>1, <1>2, <1>3, <1>4, <1>5, <1>6

\* What a call within an answer makes of the next line.
LEMMA ReadOn ==
    ASSUME NEW c, NEW answer, NEW s, NEW lines \in Seq(Seq(Chars)), NEW ended \in BOOLEAN,
           NEW rest \in Seq(Seq(Chars)), NEW n, NEW st, NEW j,
           At(c, answer, s, lines, ended, rest, n, st, j), lines # <<>>
    PROVE  /\ s \in Calls
           /\ \/ \E t : /\ Goes(s, Head(lines), t)
                        /\ At(c, answer, t, Tail(lines), ended, rest, n, st, j + 1)
              \/ /\ Concludes(s, Head(lines), Meaning(c.op, answer))
                 /\ Tail(lines) = <<>> /\ rest = <<>>
              \/ Strays(s, Head(lines))
              \/ /\ \E t : Goes(s, Head(lines), t)
                 /\ ended /\ Tail(lines) = <<>> /\ rest = <<>>
<1> DEFINE A == AnswerLines(c.op, answer)
           m == Len(lines)
           r == Len(rest)
           line == Head(lines)
           tail == Tail(lines)
<1>1. /\ A \in Seq(Seq(Chars)) /\ n \in Nat /\ n < Len(A) /\ st \in [0..n -> Calls]
      /\ \A i \in 1..n : Moves(st[i - 1], A[i], st[i])
      /\ Uncut(st[n], A[n + 1])
      /\ \/ Len(A) = n + 1 /\ Concludes(st[n], A[n + 1], Meaning(c.op, answer))
         \/ Strays(st[n], A[n + 1])
  BY DEF At, Course
<1>2. j \in 0..n /\ s = st[j] /\ Within(lines, ended, rest, A, j)
  BY DEF At
<1>3. /\ m \in Nat /\ r \in Nat /\ m >= 1 /\ line = lines[1] /\ tail \in Seq(Seq(Chars))
      /\ Len(tail) = m - 1 /\ \A i \in 1..(m - 1) : tail[i] = lines[i + 1]
  OBVIOUS
<1>4. /\ m + r <= Len(A) - j
      /\ \A i \in 1..m : lines[i] = A[j + i] \/ (ended /\ i = m /\ Cut(lines[i], A[j + i]))
      /\ \A i \in 1..r : rest[i] = A[j + m + i]
      /\ ended => rest = <<>>
  BY <1>2 DEF Within
<1>5. Len(A) \in Nat /\ j \in Nat /\ j <= n /\ j + 1 \in 1..Len(A) /\ A[j + 1] \in Seq(Chars)
  <2>1. Len(A) \in Nat /\ j \in Nat /\ j <= n /\ j + 1 \in 1..Len(A)
    BY <1>1, <1>2
  <2> QED BY <1>1, <2>1
<1> HIDE DEF A, m, r, line, tail
<1>6. s \in Calls
  BY <1>1, <1>2
<1>7. Uncut(s, A[j + 1])
  <2>1. CASE j = n
    BY <1>1, <1>2, <2>1
  <2>2. CASE j < n
    <3>1. j + 1 \in 1..n /\ (j + 1) - 1 = j
      BY <1>1, <1>5, <2>2
    <3>2. Moves(st[(j + 1) - 1], A[j + 1], st[j + 1])
      BY <1>1, <3>1
    <3> QED BY <1>2, <3>1, <3>2 DEF Moves
  <2> QED BY <1>1, <1>5, <2>1, <2>2
<1>8. CASE line = A[j + 1] /\ j < n
  <2> DEFINE t == st[j + 1]
  <2>1. j + 1 \in 1..n /\ (j + 1) - 1 = j /\ j + 1 \in 0..n
    BY <1>1, <1>5, <1>8
  <2>2. Goes(s, line, t)
    <3>1. Moves(st[(j + 1) - 1], A[j + 1], st[j + 1])
      BY <1>1, <2>1
    <3> QED BY <1>2, <1>8, <2>1, <3>1 DEF Moves
  <2>3. Len(tail) + Len(rest) <= Len(A) - (j + 1)
    BY <1>3, <1>4, <1>5 DEF r
  <2>4. ASSUME NEW i \in 1..Len(tail)
        PROVE  \/ tail[i] = A[(j + 1) + i]
               \/ ended /\ i = Len(tail) /\ Cut(tail[i], A[(j + 1) + i])
    <3>1. /\ i + 1 \in 1..m /\ tail[i] = lines[i + 1] /\ j + (i + 1) = (j + 1) + i
          /\ i + 1 = m => i = Len(tail)
      BY <1>3, <1>5
    <3>2. \/ lines[i + 1] = A[j + (i + 1)]
          \/ ended /\ i + 1 = m /\ Cut(lines[i + 1], A[j + (i + 1)])
      BY <1>4, <3>1
    <3> QED BY <3>1, <3>2
  <2>5. ASSUME NEW i \in 1..Len(rest)
        PROVE  rest[i] = A[(j + 1) + Len(tail) + i]
    <3>1. i \in 1..r /\ (j + 1) + Len(tail) + i = j + m + i
      BY <1>3, <1>5 DEF r
    <3> QED BY <1>4, <3>1
  <2>6. Within(tail, ended, rest, A, j + 1)
    BY <1>4, <2>3, <2>4, <2>5 DEF Within
  <2>7. At(c, answer, t, tail, ended, rest, n, st, j + 1)
    BY <2>1, <2>6 DEF At, A
  <2> QED BY <1>6, <2>2, <2>7 DEF line, tail
<1>9. CASE line = A[j + 1] /\ j = n
  <2>1. CASE Strays(st[n], A[n + 1])
    BY <1>2, <1>6, <1>9, <2>1 DEF line
  <2>2. CASE Len(A) = n + 1 /\ Concludes(st[n], A[n + 1], Meaning(c.op, answer))
    <3>1. Concludes(s, line, Meaning(c.op, answer))
      BY <1>2, <1>9, <2>2
    <3>2. Len(tail) = 0 /\ Len(rest) = 0
      BY <1>3, <1>4, <1>5, <1>9, <2>2 DEF r
    <3>3. tail = <<>> /\ rest = <<>>
      BY <1>3, <3>2
    <3> QED BY <1>6, <3>1, <3>3 DEF line, tail
  <2> QED BY <1>1, <2>1, <2>2
<1>10. CASE line # A[j + 1]
  <2>1. 1 \in 1..m
    BY <1>3
  <2>2. ended /\ m = 1 /\ Cut(line, A[j + 1])
    BY <1>3, <1>4, <1>10, <2>1
  <2>3. tail = <<>> /\ rest = <<>>
    BY <1>3, <1>4, <2>2
  <2>4. \A result : ~Concludes(s, line, result)
    BY <1>5, <1>6, <1>7, <2>2, CutConcludesNothing
  <2>5. (\E t : Goes(s, line, t)) \/ Strays(s, line)
    BY <1>6, <2>4, Reaction
  <2> QED BY <1>6, <2>2, <2>3, <2>5 DEF line, tail
<1>11. j < n \/ j = n
  BY <1>1, <1>5
<1> QED BY <1>8, <1>9, <1>10, <1>11

\* The server writes a line more.
LEMMA WriteOn ==
    ASSUME NEW c, NEW answer, NEW s, NEW lines \in Seq(Seq(Chars)), NEW rest \in Seq(Seq(Chars)),
           NEW n, NEW st, NEW j, At(c, answer, s, lines, FALSE, rest, n, st, j), rest # <<>>
    PROVE  At(c, answer, s, Append(lines, Head(rest)), FALSE, Tail(rest), n, st, j)
<1> DEFINE A == AnswerLines(c.op, answer)
           S == Seq(Chars)
           x == Head(rest)
           more == Append(lines, x)
           tail == Tail(rest)
<1>1. /\ Len(lines) \in Nat /\ Len(rest) \in Nat /\ Len(rest) >= 1 /\ x = rest[1] /\ x \in S
      /\ Len(tail) = Len(rest) - 1 /\ \A i \in 1..(Len(rest) - 1) : tail[i] = rest[i + 1]
  OBVIOUS
<1>2. Course(c, answer, n, st) /\ j \in 0..n /\ s = st[j] /\ Within(lines, FALSE, rest, A, j)
  BY DEF At
<1>3. A \in Seq(S) /\ n \in Nat
  BY <1>2 DEF Course
<1>4. j \in Nat /\ Len(A) \in Nat
  BY <1>2, <1>3
<1> HIDE DEF A, S, x, tail
<1>5. /\ Len(more) = Len(lines) + 1 /\ more[Len(lines) + 1] = x
      /\ \A i \in 1..Len(lines) : more[i] = lines[i]
  <2>1. lines \in Seq(S)
    BY DEF S
  <2> QED BY <1>1, <2>1, AppendProperties
<1> HIDE DEF more
<1>6. Len(more) + Len(tail) <= Len(A) - j
  BY <1>1, <1>2, <1>4, <1>5 DEF Within
<1>7. ASSUME NEW i \in 1..Len(more)
      PROVE  more[i] = A[j + i]
  <2>1. i \in 1..Len(lines) \/ i = Len(lines) + 1
    BY <1>1, <1>5
  <2>2. CASE i \in 1..Len(lines)
    BY <1>2, <1>5, <2>2 DEF Within
  <2>3. CASE i = Len(lines) + 1
    <3>1. 1 \in 1..Len(rest) /\ j + Len(lines) + 1 = j + i
      BY <1>1, <1>4, <2>3
    <3>2. rest[1] = A[j + Len(lines) + 1]
      BY <1>2, <3>1 DEF Within
    <3> QED BY <1>1, <1>5, <2>3, <3>1, <3>2
  <2> QED BY <2>1, <2>2, <2>3
<1>8. ASSUME NEW i \in 1..Len(tail)
      PROVE  tail[i] = A[j + Len(more) + i]
  <2>1. i \in 1..(Len(rest) - 1) /\ i + 1 \in 1..Len(rest) /\ j + Len(lines) + (i + 1) = j + Len(more) + i
    BY <1>1, <1>4, <1>5
  <2>2. rest[i + 1] = A[j + Len(lines) + (i + 1)]
    BY <1>2, <2>1 DEF Within
  <2> QED BY <1>1, <2>1, <2>2
<1>9. Within(more, FALSE, tail, A, j)
  BY <1>6, <1>7, <1>8 DEF Within
<1> QED BY <1>2, <1>9 DEF At, A, more, x, tail

\* The stream ends between two lines,
LEMMA EndOn ==
    ASSUME NEW c, NEW answer, NEW s, NEW lines \in Seq(Seq(Chars)), NEW rest \in Seq(Seq(Chars)),
           NEW n, NEW st, NEW j, At(c, answer, s, lines, FALSE, rest, n, st, j)
    PROVE  At(c, answer, s, lines, TRUE, <<>>, n, st, j)
<1> DEFINE A == AnswerLines(c.op, answer)
           none == <<>>
<1>1. Course(c, answer, n, st) /\ j \in 0..n /\ s = st[j] /\ Within(lines, FALSE, rest, A, j)
  BY DEF At
<1>2. A \in Seq(Seq(Chars)) /\ n \in Nat
  BY <1>1 DEF Course
<1>3. j \in Nat /\ Len(A) \in Nat /\ Len(lines) \in Nat /\ Len(rest) \in Nat
  BY <1>1, <1>2
<1>4. Len(none) = 0
  OBVIOUS
<1> HIDE DEF A
<1>5. Within(lines, TRUE, none, A, j)
  <2>1. Len(lines) + Len(none) <= Len(A) - j
    BY <1>1, <1>3, <1>4 DEF Within
  <2>2. \A i \in 1..Len(lines) : lines[i] = A[j + i]
    BY <1>1 DEF Within
  <2>3. \A i \in 1..Len(none) : none[i] = A[j + Len(lines) + i]
    BY <1>4
  <2> QED BY <2>1, <2>2, <2>3 DEF Within
<1> QED BY <1>1, <1>5 DEF At, A

\* or within one.
LEMMA CutOn ==
    ASSUME NEW c, NEW answer, NEW s, NEW lines \in Seq(Seq(Chars)), NEW rest \in Seq(Seq(Chars)),
           NEW n, NEW st, NEW j, At(c, answer, s, lines, FALSE, rest, n, st, j), rest # <<>>,
           NEW k \in 1..Len(Head(rest))
    PROVE  At(c, answer, s, Append(lines, SubSeq(Head(rest), 1, k)), TRUE, <<>>, n, st, j)
<1> DEFINE x == Head(rest)
           y == SubSeq(x, 1, k)
           whole == Append(lines, x)
           more == Append(lines, y)
           tail == Tail(rest)
           A == AnswerLines(c.op, answer)
           S == Seq(Chars)
<1>1. At(c, answer, s, whole, FALSE, tail, n, st, j)
  BY WriteOn
<1>2. x \in S /\ tail \in Seq(S) /\ lines \in Seq(S)
  OBVIOUS
<1>3. y \in S /\ Len(x) \in Nat /\ (k = Len(x) => y = x)
  <2>1. x \in Seq(Chars) /\ k \in 1..Len(x)
    BY <1>2
  <2> HIDE DEF x
  <2>2. Len(x) \in Nat
    BY <2>1
  <2>3. k = Len(x) => SubSeq(x, 1, k) = x
    BY <2>1, SubSeqFull
  <2>4. SubSeq(x, 1, k) \in Seq(Chars)
    BY <2>1, <2>2
  <2> QED BY <2>2, <2>3, <2>4
<1>4. k \in 1..Len(x)
  OBVIOUS
<1>5. CASE k = Len(x)
  <2>1. more = whole
    BY <1>3, <1>5
  <2>2. whole \in Seq(Seq(Chars)) /\ tail \in Seq(Seq(Chars))
    BY <1>2
  <2> HIDE DEF whole, tail, more
  <2>3. At(c, answer, s, whole, TRUE, <<>>, n, st, j)
    BY <1>1, <2>2, EndOn
  <2> QED BY <2>1, <2>3 DEF more
<1>6. CASE k # Len(x)
  <2> DEFINE none == <<>>
  <2>1. Cut(y, x)
    <3>1. k \in 1..(Len(x) - 1)
      BY <1>3, <1>4, <1>6
    <3> HIDE DEF x
    <3> QED BY <3>1 DEF Cut
  <2> HIDE DEF S, x, y, tail
  <2>2. /\ Len(whole) = Len(lines) + 1 /\ whole[Len(lines) + 1] = x /\ Len(lines) \in Nat
        /\ \A i \in 1..Len(lines) : whole[i] = lines[i]
    BY <1>2, AppendProperties, LenProperties
  <2>3. /\ Len(more) = Len(lines) + 1 /\ more[Len(lines) + 1] = y
        /\ \A i \in 1..Len(lines) : more[i] = lines[i]
    BY <1>2, <1>3, AppendProperties
  <2> HIDE DEF whole, more
  <2>4. /\ Course(c, answer, n, st) /\ j \in 0..n /\ s = st[j] /\ Within(whole, FALSE, tail, A, j)
    BY <1>1 DEF At
  <2>5. A \in Seq(Seq(Chars)) /\ n \in Nat
    BY <2>4 DEF Course
  <2>6. j \in Nat /\ Len(A) \in Nat /\ Len(tail) \in Nat
    <3>1. Len(tail) \in Nat
      BY <1>2, LenProperties
    <3> QED BY <2>4, <2>5, <3>1
  <2>7. Len(none) = 0
    OBVIOUS
  <2> HIDE DEF A
  <2>8. Len(more) + Len(none) <= Len(A) - j
    BY <2>2, <2>3, <2>4, <2>6, <2>7 DEF Within
  <2>9. \A i \in 1..Len(whole) : whole[i] = A[j + i]
    BY <2>4 DEF Within
  <2>10. ASSUME NEW i \in 1..Len(more)
         PROVE  more[i] = A[j + i] \/ (i = Len(more) /\ Cut(more[i], A[j + i]))
    <3>1. i \in 1..Len(lines) \/ i = Len(lines) + 1
      BY <2>2, <2>3
    <3>2. CASE i \in 1..Len(lines)
      BY <2>2, <2>3, <2>9, <3>2
    <3>3. CASE i = Len(lines) + 1
      <4>1. A[j + i] = x
        BY <2>2, <2>9, <3>3
      <4> QED BY <2>1, <2>3, <3>3, <4>1
    <3> QED BY <3>1, <3>2, <3>3
  <2>11. \A i \in 1..Len(none) : none[i] = A[j + Len(more) + i]
    BY <2>7
  <2>12. Within(more, TRUE, none, A, j)
    BY <2>8, <2>10, <2>11 DEF Within
  <2> QED BY <2>4, <2>12 DEF At, A, more, y, x
<1> QED BY <1>5, <1>6

----------------------------------------------------------------------------
(* A call and the session.                                                 *)

\* The status that announces more is none that reports nothing.
LEMMA AnnouncedIsSomething ==
    /\ \A op \in DOMAIN Follows : op \in DOMAIN Nothing /\ Follows[op] # Nothing[op] /\ op # "define"
    /\ DefinitionsFollow # Nothing["define"] /\ "define" \in DOMAIN Nothing
    /\ \A op \in DOMAIN Nothing : op \notin {"announce", "quit"}
<1>1. /\ Follows["databases"] = <<"1", "1", "0">> /\ Follows["strategies"] = <<"1", "1", "1">>
      /\ Follows["matches"] = <<"1", "5", "2">> /\ DefinitionsFollow = <<"1", "5", "0">>
  BY DEF Follows, DatabasesFollow, StrategiesFollow, MatchesFollow, DefinitionsFollow
<1>2. /\ Nothing["databases"] = <<"5", "5", "4">> /\ Nothing["strategies"] = <<"5", "5", "5">>
      /\ Nothing["matches"] = <<"5", "5", "2">> /\ Nothing["define"] = <<"5", "5", "2">>
  BY DEF Nothing, NoMatch
<1>3. \A a, b, c, d : <<"1", a, b>> # <<"5", c, d>>
  OBVIOUS
<1>4. /\ DOMAIN Follows = {"databases", "strategies", "matches"}
      /\ DOMAIN Nothing = {"databases", "strategies", "matches", "define"}
  BY DEF Follows, Nothing
<1>5. /\ Follows["databases"] # Nothing["databases"] /\ Follows["strategies"] # Nothing["strategies"]
      /\ Follows["matches"] # Nothing["matches"] /\ DefinitionsFollow # Nothing["define"]
  BY <1>1, <1>2, <1>3
<1> QED BY <1>4, <1>5

\* The part of Read that a call takes.
LEMMA ReadPart ==
    ASSUME call \in Calls, Read
    PROVE  LET line == Head(down.lines)
           IN /\ call.pc = "status" => ReadFirst(line)
              /\ call.pc = "block" => ReadBlock(line)
              /\ call.pc = "definitions" => ReadDefinition(line)
              /\ call.pc = "closing" => ReadClosing(line)
BY DEF Read

\* A line that takes the call on does so in step,
LEMMA ReadGoes ==
    ASSUME call \in Calls, Read, NEW t, Goes(call, Head(down.lines), t)
    PROVE  call' = t /\ astray' = astray /\ t.command = call.command
           /\ t.pc \in {"status", "block", "definitions", "closing"}
<1> DEFINE line == Head(down.lines)
           op == call.command.op
           code == Code(line)
<1>0. Goes(call, line, t)
  OBVIOUS
<1>1. /\ call.pc = "status" => ReadFirst(line)
      /\ call.pc = "block" => ReadBlock(line)
      /\ call.pc = "definitions" => ReadDefinition(line)
      /\ call.pc = "closing" => ReadClosing(line)
  BY ReadPart
<1> HIDE DEF line
<1>2. t.command = call.command /\ t.pc \in {"status", "block", "definitions", "closing"}
  BY <1>0 DEF Goes, Calls
<1>3. CASE call.pc = "status"
  <2>1. ReadFirst(line) /\ IsStatus(line)
    BY <1>0, <1>1, <1>3 DEF Goes
  <2>2. astray' = astray
    BY <2>1 DEF ReadFirst, InStep
  <2>3. CASE op \in DOMAIN Follows /\ code = Follows[op] /\ t = [call EXCEPT !.pc = "block"]
    <3>1. op # "define" /\ ~(op \in DOMAIN Nothing /\ code = Nothing[op])
          /\ ~(op \in {"announce", "quit"} /\ IsSuccess(code))
      BY <2>3, AnnouncedIsSomething
    <3>2. call' = [call EXCEPT !.pc = "block"]
      BY <2>1, <2>3, <3>1 DEF ReadFirst
    <3> QED BY <1>2, <2>2, <2>3, <3>2
  <2>4. CASE op = "define" /\ code = DefinitionsFollow /\ t = [call EXCEPT !.pc = "definitions"]
    <3>1. op \notin DOMAIN Follows /\ ~(op \in DOMAIN Nothing /\ code = Nothing[op])
          /\ ~(op \in {"announce", "quit"} /\ IsSuccess(code))
      BY <2>4, AnnouncedIsSomething
    <3>2. call' = [call EXCEPT !.pc = "definitions"]
      BY <2>1, <2>4, <3>1 DEF ReadFirst
    <3> QED BY <1>2, <2>2, <2>4, <3>2
  <2> QED BY <1>0, <1>3, <2>3, <2>4 DEF Goes
<1>4. CASE call.pc = "block"
  <2>1. ReadBlock(line)
    BY <1>1, <1>4
  <2>2. astray' = astray
    BY <2>1 DEF ReadBlock, InStep
  <2>3. call' = t
    <3>1. CASE IsTerminator(line)
      <4>1. AfterBlock(call.lines)
        BY <2>1, <3>1 DEF ReadBlock
      <4> QED BY <1>0, <1>4, <3>1, <4>1 DEF AfterBlock, Goes
    <3>2. CASE ~IsTerminator(line)
      BY <1>0, <1>4, <2>1, <3>2 DEF ReadBlock, Goes
    <3> QED BY <3>1, <3>2
  <2> QED BY <1>2, <2>2, <2>3
<1>5. CASE call.pc = "definitions"
  <2>1. ReadDefinition(line)
    BY <1>1, <1>5
  <2>2. /\ IsStatus(line) /\ code = DefinitionFollows /\ GoodHeader(SplitParams(Text(line)))
        /\ t = [call EXCEPT !.pc = "block", !.header = SplitParams(Text(line))]
    BY <1>0, <1>5 DEF Goes
  <2> QED BY <1>2, <2>1, <2>2 DEF ReadDefinition, InStep
<1>6. CASE call.pc = "closing"
  BY <1>0, <1>6 DEF Goes
<1>7. call.pc \in {"status", "block", "definitions", "closing"}
  BY DEF Calls
<1> QED BY <1>3, <1>4, <1>5, <1>6, <1>7

\* the last line makes it return in step,
LEMMA ReadConcludes ==
    ASSUME call \in Calls, Read, NEW result, Concludes(call, Head(down.lines), result)
    PROVE  Return(result) /\ astray' = astray
<1> DEFINE line == Head(down.lines)
           op == call.command.op
           code == Code(line)
<1>0. Concludes(call, line, result)
  OBVIOUS
<1>1. /\ call.pc = "status" => ReadFirst(line)
      /\ call.pc = "block" => ReadBlock(line)
      /\ call.pc = "definitions" => ReadDefinition(line)
      /\ call.pc = "closing" => ReadClosing(line)
  BY ReadPart
<1> HIDE DEF line
<1>2. IsStatus(line) /\ call.pc \in {"status", "definitions", "closing"}
  BY <1>0 DEF Concludes
<1> HIDE DEF op, code
<1>3. CASE call.pc = "status"
  <2> DEFINE Done == \/ op \in DOMAIN Nothing /\ code = Nothing[op]
                     \/ op \in {"announce", "quit"} /\ IsSuccess(code)
  <2>1. ReadFirst(line)
    BY <1>1, <1>3
  <2>2. /\ op \in DOMAIN Follows => code # Follows[op]
        /\ op = "define" => code # DefinitionsFollow
        /\ result = IF Done THEN Ok(<<>>) ELSE Refused(code)
    BY <1>0, <1>3 DEF Concludes, op, code
  <2>3. astray' = astray
    BY <1>2, <2>1 DEF ReadFirst, InStep
  <2>4. CASE Done
    <3>1. Return(Ok(<<>>))
      BY <1>2, <2>1, <2>2, <2>4, AnnouncedIsSomething DEF ReadFirst, op, code
    <3> QED BY <2>2, <2>3, <2>4, <3>1
  <2>5. CASE ~Done
    <3>1. Return(Refused(code))
      BY <1>2, <2>1, <2>2, <2>5 DEF ReadFirst, op, code
    <3> QED BY <2>2, <2>3, <2>5, <3>1
  <2> QED BY <2>4, <2>5
<1>4. CASE call.pc = "definitions"
  <2>1. ReadDefinition(line)
    BY <1>1, <1>4
  <2>2. /\ code # DefinitionFollows
        /\ result = IF IsSuccess(code) THEN Ok(call.definitions) ELSE Refused(code)
    BY <1>0, <1>4 DEF Concludes, code
  <2> QED BY <1>2, <2>1, <2>2 DEF ReadDefinition, InStep, code
<1>5. CASE call.pc = "closing"
  <2>1. ReadClosing(line)
    BY <1>1, <1>5
  <2>2. result = IF IsSuccess(code) THEN Ok(ParseEntries(op, call.lines)) ELSE Refused(code)
    BY <1>0, <1>5 DEF Concludes, code, op
  <2> QED BY <1>2, <2>1, <2>2 DEF ReadClosing, InStep, code, op
<1> QED BY <1>2, <1>3, <1>4, <1>5

\* and one that it cannot use makes it lose its place.
LEMMA ReadStrays ==
    ASSUME call \in Calls, Read, Strays(call, Head(down.lines))
    PROVE  astray' = TRUE
<1> DEFINE line == Head(down.lines)
<1>0. Strays(call, line)
  OBVIOUS
<1>1. /\ call.pc = "status" => ReadFirst(line)
      /\ call.pc = "definitions" => ReadDefinition(line)
      /\ call.pc = "closing" => ReadClosing(line)
  BY ReadPart
<1> HIDE DEF line
<1> QED BY <1>0, <1>1 DEF Strays, ReadFirst, ReadDefinition, ReadClosing, LosesStep

\* What is on its way to the client is lines.
Streams ==
    pending \in Seq(Seq(Chars)) /\ down \in [lines : Seq(Seq(Chars)), ended : BOOLEAN]

\* The banner is to come, or it is there.
Greeting ==
    call.pc = "banner" /\ made = <<>> /\ up = <<>> /\ Len(down.lines) + Len(pending) <= 1

\* Between two calls nothing is under way, and the last call has returned its answer.
Rested ==
    /\ call.pc \in {"idle", "over"} /\ up = <<>> /\ down.lines = <<>> /\ pending = <<>>
    /\ call.result.kind \in {"ok", "refused"} =>
          /\ made # <<>>
          /\ call.result = Meaning(call.command.op, answered[Len(made)].answer)

\* A command is under way, and nothing else.
Asked ==
    /\ made # <<>> /\ Len(up) = 1 /\ call = Begun(made[Len(made)])
    /\ down.lines = <<>> /\ pending = <<>>

\* A call is within the answer to its own command.
Reading ==
    /\ made # <<>> /\ up = <<>> /\ call.command = made[Len(made)]
    /\ \E n, st, j : At(made[Len(made)], answered[Len(made)].answer, call, down.lines, down.ended,
                        pending, n, st, j)

\* The stream has ended within the answer, and what came of it is read.
Doomed ==
    /\ call.pc \in {"status", "block", "definitions", "closing"}
    /\ down.ended /\ down.lines = <<>> /\ pending = <<>>

Place == Greeting \/ Rested \/ Asked \/ Reading \/ Doomed

\* Unless a call has lost its place, the session has one.
Steady == Queue /\ (~astray => Streams /\ Place)

\* At first the banner is to come.
LEMMA InitSteady == Init => Steady
<1> SUFFICES ASSUME Init PROVE Steady
  OBVIOUS
<1>1. Queue
  BY InitQueue
<1>2. Banner \in Seq(Chars) /\ <<"5", "3", "0">> \in Seq(Chars)
  BY DEF Banner, Chars
<1>3. pending \in Seq(Seq(Chars)) /\ Len(pending) = 1
  <2>1. pending = <<Banner>> \/ pending = << <<"5", "3", "0">> >>
    BY DEF Init
  <2>2. PICK b \in Seq(Chars) : pending = <<b>>
    BY <1>2, <2>1
  <2> QED BY <2>2
<1>4. down = [lines |-> <<>>, ended |-> FALSE] /\ down.lines = <<>> /\ Len(down.lines) = 0
  BY DEF Init
<1>5. Streams
  BY <1>3, <1>4 DEF Streams
<1>6. call.pc = "banner" /\ made = <<>> /\ up = <<>> /\ astray = FALSE
  BY DEF Init, Idle
<1>7. Greeting
  BY <1>3, <1>4, <1>6 DEF Greeting
<1> QED BY <1>1, <1>5, <1>7 DEF Steady, Place

\* The last command of a session in step.
LEMMA LastMade ==
    ASSUME Queue, ~astray, made # <<>>
    PROVE  made[Len(made)] \in Commands
<1>1. made \in Seq(Sent) /\ Len(made) \in 1..Len(made)
  BY DEF Queue
<1>2. made[Len(made)] \in Sent /\ made[Len(made)] # Torn
  BY <1>1 DEF Queue
<1> QED BY <1>2 DEF Sent

\* The streams carry lines.
LEMMA NextStreams ==
    ASSUME Queue, ~astray, Streams, [Next]_vars
    PROVE  Streams'
<1>1. ASSUME UNCHANGED <<pending, down>> PROVE Streams'
  BY <1>1 DEF Streams
<1>2. ASSUME NEW command \in Commands, Send(command) \/ DropSend(command) \/ SendFails(command)
      PROVE  Streams'
  BY <1>1, <1>2 DEF Send, DropSend, SendFails
<1>3. CASE Read
  <2>1. down' = [down EXCEPT !.lines = Tail(@)] /\ pending' = pending /\ down.lines # <<>>
    BY <1>3 DEF Read
  <2>2. Tail(down.lines) \in Seq(Seq(Chars))
    BY <2>1 DEF Streams
  <2> QED BY <2>1, <2>2 DEF Streams
<1>4. CASE ReadEnd
  BY <1>1, <1>4 DEF ReadEnd
<1>5. CASE Drop
  BY <1>1, <1>5 DEF Drop
<1>6. CASE ServerAnswers
  <2> DEFINE c == made[Len(answered')]
             answer == answered'[Len(answered')].answer
  <2>1. c \in Commands /\ answer \in Answers[c.op] /\ pending' = AnswerLines(c.op, answer)
    BY <1>6, ServerQueue
  <2>2. down' = down
    BY <1>6 DEF ServerAnswers
  <2> HIDE DEF c, answer
  <2>3. PICK n, st : Course(c, answer, n, st)
    BY <2>1, AnswerCourse
  <2>4. pending' \in Seq(Seq(Chars))
    BY <2>1, <2>3 DEF Course
  <2> QED BY <2>2, <2>4 DEF Streams
<1>7. CASE ServerWrites
  <2>1. /\ down' = [down EXCEPT !.lines = Append(@, Head(pending))] /\ pending' = Tail(pending)
        /\ pending # <<>>
    BY <1>7 DEF ServerWrites
  <2>2. Head(pending) \in Seq(Chars) /\ Tail(pending) \in Seq(Seq(Chars))
    BY <2>1 DEF Streams
  <2>3. Append(down.lines, Head(pending)) \in Seq(Seq(Chars))
    BY <2>2 DEF Streams
  <2> QED BY <2>1, <2>2, <2>3 DEF Streams
<1>8. CASE ServerCloses
  <2>1. pending' = <<>> /\ <<>> \in Seq(Seq(Chars))
    BY <1>8 DEF ServerCloses
  <2>2. CASE down' = [down EXCEPT !.ended = TRUE]
    BY <2>1, <2>2 DEF Streams
  <2>3. CASE \E k \in 1..(IF pending = <<>> THEN 0 ELSE Len(Head(pending))) :
                down' = [lines |-> Append(down.lines, SubSeq(Head(pending), 1, k)), ended |-> TRUE]
    <3>1. PICK k \in 1..(IF pending = <<>> THEN 0 ELSE Len(Head(pending))) :
             down' = [lines |-> Append(down.lines, SubSeq(Head(pending), 1, k)), ended |-> TRUE]
      BY <2>3
    <3>2. pending # <<>>
      BY <3>1
    <3>3. Head(pending) \in Seq(Chars) /\ k \in 1..Len(Head(pending))
      BY <3>1, <3>2 DEF Streams
    <3> DEFINE x == Head(pending)
               y == SubSeq(x, 1, k)
    <3>4. y \in Seq(Chars)
      <4> HIDE DEF x
      <4> QED BY <3>3 DEF x
    <3> HIDE DEF y
    <3>5. Append(down.lines, y) \in Seq(Seq(Chars))
      BY <3>4 DEF Streams
    <3>6. down' = [lines |-> Append(down.lines, y), ended |-> TRUE]
      BY <3>1 DEF y
    <3> QED BY <2>1, <3>5, <3>6 DEF Streams
  <2> QED BY <1>8, <2>2, <2>3 DEF ServerCloses
<1>9. CASE UNCHANGED vars
  BY <1>1, <1>9 DEF vars
<1> QED BY <1>2, <1>3, <1>4, <1>5, <1>6, <1>7, <1>8, <1>9 DEF Next

\* A call that can begin finds the session at rest.
LEMMA SendingRested ==
    ASSUME Queue, ~astray, Place, Sending
    PROVE  Rested
<1>1. call.pc = "idle"
  BY DEF Sending
<1>2. ~Greeting /\ ~Doomed
  BY <1>1 DEF Greeting, Doomed
<1>3. ~Asked
  BY <1>1, LastMade, BegunCall DEF Asked
<1>4. ~Reading
  <2> SUFFICES ASSUME Reading PROVE FALSE
    OBVIOUS
  <2>1. PICK n, st, j : At(made[Len(made)], answered[Len(made)].answer, call, down.lines,
                           down.ended, pending, n, st, j)
    BY DEF Reading
  <2>2. j \in 0..n /\ call = st[j] /\ st \in [0..n -> Calls]
    BY <2>1 DEF At, Course
  <2>3. call \in Calls
    BY <2>2
  <2> QED BY <1>1, <2>3 DEF Calls
<1> QED BY <1>2, <1>3, <1>4 DEF Place

\* A call that gives an error before it has sent anything leaves the session at rest.
LEMMA GivesRested ==
    ASSUME Rested, NEW command, NEW kind, Gives(command, Err(kind)),
           UNCHANGED <<up, answered, pending, down, made>>
    PROVE  Rested'
<1>1. call'.pc \in {"idle", "over"} /\ call'.result.kind = "error"
  BY DEF Gives, Idle, Err
<1> QED BY <1>1 DEF Rested

\* A step that is not the client's last of a response keeps the place.
LEMMA SendPlace ==
    ASSUME Queue, ~astray, Place, NEW command \in Commands, Send(command)
    PROVE  Place'
<1>1. Sending /\ answered' = answered /\ pending' = pending /\ down' = down
  BY DEF Send
<1>2. Rested /\ up = <<>> /\ down.lines = <<>> /\ pending = <<>>
  BY <1>1, SendingRested DEF Rested
<1>3. CASE TooLong(command)
  <2>1. Gives(command, Err("protocol")) /\ up' = up /\ made' = made
    BY <1>3 DEF Send
  <2> QED BY <1>1, <1>2, <2>1, GivesRested DEF Place
<1>4. CASE ~TooLong(command)
  <2> DEFINE line == half \o CommandLine(command)
  <2>1. call' = Begun(command) /\ up' = Append(up, line) /\ half = <<>> /\ made' = Append(made, command)
    BY <1>4 DEF Send, Begun, Queue
  <2>2. line \in Seq(Chars)
    <3> DEFINE a == CommandLine(command)
    <3>1. a \in Seq(Chars) /\ half \in Seq(Chars)
      BY CommandRead DEF Queue
    <3> HIDE DEF a
    <3>2. half \o a \in Seq(Chars)
      BY <3>1
    <3> QED BY <3>2 DEF a
  <2> HIDE DEF line
  <2>3. Len(up') = 1
    BY <1>2, <2>1, <2>2
  <2>4. made' # <<>> /\ made'[Len(made')] = command
    <3>1. made \in Seq(Sent) /\ command \in Sent
      BY DEF Queue, Sent
    <3>2. /\ Append(made, command) # <<>> /\ Len(Append(made, command)) = Len(made) + 1
          /\ Append(made, command)[Len(made) + 1] = command
      BY <3>1, AppendProperties
    <3> QED BY <2>1, <3>2
  <2> QED BY <1>1, <1>2, <2>1, <2>3, <2>4 DEF Place, Asked
<1> QED BY <1>3, <1>4

\* A command that could not be written, or that nothing was written of.
LEMMA SendFailsPlace ==
    ASSUME Queue, ~astray, Place, NEW command \in Commands,
           SendFails(command) \/ DropSend(command)
    PROVE  Place'
<1>1. Sending /\ UNCHANGED <<up, answered, pending, down, made>>
  BY DEF SendFails, DropSend
<1>2. Gives(command, Err("io")) \/ Gives(command, Err("dropped"))
  BY DEF SendFails, DropSend
<1>3. Rested
  BY <1>1, SendingRested
<1> QED BY <1>1, <1>2, <1>3, GivesRested DEF Place

\* A call that has begun.
LEMMA AskedCall ==
    ASSUME Queue, ~astray, Asked
    PROVE  call \in Calls /\ call.pc = "status" /\ call.command = made[Len(made)]
<1>1. made # <<>> /\ call = Begun(made[Len(made)])
  BY DEF Asked
<1>2. made[Len(made)] \in Commands
  BY <1>1, LastMade
<1> QED BY <1>1, <1>2, BegunCall

\* The client reads a line.
LEMMA ReadPlace ==
    ASSUME Queue, ~astray, Streams, Place, Read
    PROVE  astray' = TRUE \/ (astray' = astray /\ Place')
<1> DEFINE line == Head(down.lines)
           tail == Tail(down.lines)
<1>1. /\ down.lines # <<>> /\ down' = [down EXCEPT !.lines = Tail(@)]
      /\ UNCHANGED <<up, answered, pending, made>>
  BY DEF Read
<1>2. down \in [lines : Seq(Seq(Chars)), ended : BOOLEAN] /\ pending \in Seq(Seq(Chars))
  BY DEF Streams
<1>3. down'.lines = tail /\ down'.ended = down.ended
  BY <1>1, <1>2
<1>4. ~Asked /\ ~Doomed
  BY <1>1 DEF Asked, Doomed
<1>5. CASE Greeting
  <2>1. call.pc = "banner" /\ Len(down.lines) + Len(pending) <= 1 /\ made = <<>> /\ up = <<>>
    BY <1>5 DEF Greeting
  <2>2. ReadBanner(line)
    BY <2>1 DEF Read
  <2>3. astray' = astray
    BY <2>2 DEF ReadBanner, InStep
  <2>4. call'.pc \in {"idle", "over"} /\ call'.result.kind \notin {"ok", "refused"}
    BY <2>2 DEF ReadBanner, Idle, Err, More
  <2>5. tail = <<>> /\ pending = <<>>
    <3>1. Len(down.lines) >= 1 /\ Len(pending) \in Nat /\ Len(down.lines) \in Nat
      BY <1>1, <1>2
    <3> DEFINE a == down.lines
               m == Len(a)
               p == Len(pending)
    <3>2. m >= 1 /\ m \in Nat /\ p \in Nat /\ m + p <= 1 /\ a \in Seq(Seq(Chars)) /\ a # <<>>
      BY <1>1, <1>2, <2>1, <3>1
    <3> HIDE DEF a
    <3>3. Len(Tail(a)) = m - 1 /\ Tail(a) \in Seq(Seq(Chars))
      BY <3>2
    <3> HIDE DEF m, p
    <3>4. m = 1 /\ p = 0
      BY <3>2
    <3>5. pending = <<>>
      BY <1>2, <3>4 DEF p
    <3>6. Tail(a) = <<>>
      <4> DEFINE b == Tail(a)
      <4>1. b \in Seq(Seq(Chars)) /\ Len(b) = 0
        BY <3>3, <3>4
      <4> HIDE DEF b
      <4>2. b = <<>>
        BY <4>1
      <4> QED BY <4>2 DEF b
    <3> QED BY <3>5, <3>6 DEF a
  <2>6. Rested'
    BY <1>1, <1>3, <2>1, <2>4, <2>5 DEF Rested
  <2> QED BY <2>3, <2>6 DEF Place
<1>6. CASE Rested
  BY <1>1, <1>6 DEF Rested
<1>7. CASE Reading
  <2> DEFINE c == made[Len(made)]
             answer == answered[Len(made)].answer
  <2>1. PICK n, st, j : At(c, answer, call, down.lines, down.ended, pending, n, st, j)
    BY <1>7 DEF Reading
  <2>2. made # <<>> /\ up = <<>> /\ call.command = c
    BY <1>7 DEF Reading
  <2>3. down.lines \in Seq(Seq(Chars)) /\ down.ended \in BOOLEAN
    BY <1>2
  <2>4. made' = made /\ answered' = answered /\ up' = up /\ pending' = pending
    BY <1>1
  <2>5. /\ call \in Calls
        /\ \/ \E t : /\ Goes(call, line, t)
                     /\ At(c, answer, t, tail, down.ended, pending, n, st, j + 1)
           \/ /\ Concludes(call, line, Meaning(c.op, answer))
              /\ tail = <<>> /\ pending = <<>>
           \/ Strays(call, line)
           \/ /\ \E t : Goes(call, line, t)
              /\ down.ended /\ tail = <<>> /\ pending = <<>>
    <3> HIDE DEF c, answer
    <3> QED BY <1>1, <1>2, <2>1, <2>3, ReadOn
  <2>6. CASE \E t : /\ Goes(call, line, t)
                    /\ At(c, answer, t, tail, down.ended, pending, n, st, j + 1)
    <3>1. PICK t : /\ Goes(call, line, t)
                   /\ At(c, answer, t, tail, down.ended, pending, n, st, j + 1)
      BY <2>6
    <3>2. call' = t /\ astray' = astray /\ t.command = call.command
      BY <2>5, <3>1, ReadGoes
    <3>3. At(made'[Len(made')], answered'[Len(made')].answer, call', down'.lines, down'.ended,
             pending', n, st, j + 1)
      BY <1>3, <2>4, <3>1, <3>2
    <3>4. Reading'
      BY <2>2, <2>4, <3>2, <3>3 DEF Reading
    <3> QED BY <3>2, <3>4 DEF Place
  <2>7. CASE /\ Concludes(call, line, Meaning(c.op, answer))
             /\ tail = <<>> /\ pending = <<>>
    <3> DEFINE result == Meaning(c.op, answer)
    <3>1. Return(result) /\ astray' = astray
      BY <2>5, <2>7, ReadConcludes
    <3> HIDE DEF result
    <3>2. /\ call'.pc \in {"idle", "over"} /\ call'.result = result
          /\ call'.command = call.command
      BY <3>1 DEF Return, Idle
    <3>3. call'.result = Meaning(call'.command.op, answered'[Len(made')].answer)
      BY <2>2, <2>4, <3>2 DEF result
    <3>4. Rested'
      BY <1>3, <2>2, <2>4, <2>7, <3>2, <3>3 DEF Rested
    <3> QED BY <3>1, <3>4 DEF Place
  <2>8. CASE Strays(call, line)
    BY <2>5, <2>8, ReadStrays
  <2>9. CASE /\ \E t : Goes(call, line, t)
             /\ down.ended /\ tail = <<>> /\ pending = <<>>
    <3>1. PICK t : Goes(call, line, t)
      BY <2>9
    <3>2. /\ call' = t /\ astray' = astray
          /\ t.pc \in {"status", "block", "definitions", "closing"}
      BY <2>5, <3>1, ReadGoes
    <3>3. Doomed'
      BY <1>3, <2>4, <2>9, <3>2 DEF Doomed
    <3> QED BY <3>2, <3>3 DEF Place
  <2> QED BY <2>5, <2>6, <2>7, <2>8, <2>9
<1> QED BY <1>4, <1>5, <1>6, <1>7 DEF Place

\* The server answers the command that is under way.
LEMMA AnswersPlace ==
    ASSUME Queue, ~astray, Streams, Place, ServerAnswers
    PROVE  Place'
<1>1. /\ up # <<>> /\ pending = <<>> /\ ~down.ended /\ up' = Tail(up)
      /\ UNCHANGED <<call, down, made>>
  BY DEF ServerAnswers
<1>2. Asked
  BY <1>1 DEF Place, Greeting, Rested, Reading, Doomed
<1>3. made # <<>> /\ Len(up) = 1 /\ call = Begun(made[Len(made)]) /\ down.lines = <<>>
  BY <1>2 DEF Asked
<1> DEFINE c == made[Len(made)]
           answer == answered'[Len(made)].answer
<1>4. Len(answered') = Len(made)
  <2>1. Len(answered') = Len(answered) + 1 /\ Len(made) = Len(answered) + Len(up)
    BY ServerQueue DEF Queue
  <2> QED BY <1>3, <2>1
<1>5. c \in Commands /\ answer \in Answers[c.op] /\ pending' = AnswerLines(c.op, answer)
  BY <1>4, ServerQueue
<1>6. call.command = c
  BY <1>2, AskedCall
<1>7. up' = <<>>
  <2>1. up \in Seq(Seq(Chars)) /\ Len(up) = 1 /\ up' = Tail(up)
    BY <1>1, <1>3 DEF Queue
  <2> QED BY <2>1
<1>8. down.ended = FALSE /\ Len(down.lines) = 0
  BY <1>1, <1>3 DEF Streams
<1> HIDE DEF c, answer
<1>9. PICK n, st : Course(c, answer, n, st)
  BY <1>5, AnswerCourse
<1> DEFINE A == AnswerLines(c.op, answer)
           none == <<>>
<1>10. A \in Seq(Seq(Chars)) /\ n \in Nat /\ st[0] = Begun(c)
  BY <1>9 DEF Course
<1> HIDE DEF A
<1>11. Len(none) = 0 /\ Len(A) \in Nat
  BY <1>10
<1>12. Within(none, FALSE, A, A, 0)
  <2>1. \A i \in 1..Len(A) : A[i] = A[0 + Len(none) + i]
    BY <1>11
  <2>2. Len(none) + Len(A) <= Len(A) - 0
    BY <1>11
  <2>3. \A i \in 1..Len(none) : none[i] = A[0 + i]
    BY <1>11
  <2> QED BY <2>1, <2>2, <2>3 DEF Within
<1>13. call = st[0]
  BY <1>3, <1>10 DEF c
<1>14. 0 \in 0..n
  BY <1>10
<1>15. At(c, answer, call, none, FALSE, A, n, st, 0)
  BY <1>9, <1>12, <1>13, <1>14 DEF At, A
<1>16. At(made'[Len(made')], answered'[Len(made')].answer, call', down'.lines, down'.ended,
          pending', n, st, 0)
  BY <1>1, <1>3, <1>5, <1>8, <1>15 DEF A, c, answer
<1>17. Reading'
  BY <1>1, <1>3, <1>6, <1>7, <1>16 DEF Reading, c
<1> QED BY <1>17 DEF Place

\* The server writes a line.
LEMMA WritesPlace ==
    ASSUME Queue, ~astray, Streams, Place, ServerWrites
    PROVE  Place'
<1>1. /\ pending # <<>> /\ ~down.ended /\ pending' = Tail(pending)
      /\ down' = [down EXCEPT !.lines = Append(@, Head(pending))]
      /\ UNCHANGED <<call, up, answered, made>>
  BY DEF ServerWrites
<1>2. /\ down \in [lines : Seq(Seq(Chars)), ended : BOOLEAN] /\ pending \in Seq(Seq(Chars))
  BY DEF Streams
<1> DEFINE x == Head(pending)
<1>3. down'.lines = Append(down.lines, x) /\ down'.ended = FALSE /\ down.ended = FALSE
  BY <1>1, <1>2
<1>4. CASE Greeting
  <2>1. /\ x \in Seq(Chars) /\ Len(Tail(pending)) = Len(pending) - 1
        /\ Len(pending) \in Nat /\ Len(down.lines) \in Nat
    BY <1>1, <1>2
  <2>2. Len(Append(down.lines, x)) = Len(down.lines) + 1
    <3> HIDE DEF x
    <3> QED BY <1>2, <2>1
  <2> QED BY <1>1, <1>3, <1>4, <2>1, <2>2 DEF Place, Greeting
<1>5. CASE Reading
  <2> DEFINE c == made[Len(made)]
             answer == answered[Len(made)].answer
  <2>1. PICK n, st, j : At(c, answer, call, down.lines, down.ended, pending, n, st, j)
    BY <1>5 DEF Reading
  <2>2. down.lines \in Seq(Seq(Chars))
    BY <1>2
  <2>3. At(c, answer, call, Append(down.lines, Head(pending)), FALSE, Tail(pending), n, st, j)
    <3> HIDE DEF c, answer
    <3> QED BY <1>1, <1>2, <1>3, <2>1, <2>2, WriteOn
  <2>4. At(made'[Len(made')], answered'[Len(made')].answer, call', down'.lines, down'.ended,
           pending', n, st, j)
    BY <1>1, <1>3, <2>3
  <2> QED BY <1>1, <1>5, <2>4 DEF Place, Reading
<1>6. ~Rested /\ ~Asked /\ ~Doomed
  BY <1>1 DEF Rested, Asked, Doomed
<1> QED BY <1>4, <1>5, <1>6 DEF Place

\* The server closes the connection.
LEMMA ClosesPlace ==
    ASSUME Queue, ~astray, Streams, Place, ServerCloses
    PROVE  Place'
<1>1. ~down.ended /\ pending' = <<>> /\ UNCHANGED <<call, up, answered, made>>
  BY DEF ServerCloses
<1>2. /\ down \in [lines : Seq(Seq(Chars)), ended : BOOLEAN] /\ pending \in Seq(Seq(Chars))
      /\ down.ended = FALSE /\ Len(down.lines) \in Nat /\ Len(pending) \in Nat
  BY <1>1 DEF Streams
<1>3. Len(<<>>) = 0
  OBVIOUS
<1>4. CASE down' = [down EXCEPT !.ended = TRUE]
  <2>1. down'.lines = down.lines /\ down'.ended = TRUE
    BY <1>2, <1>4
  <2>2. CASE Greeting
    BY <1>1, <1>2, <1>3, <2>1, <2>2 DEF Place, Greeting
  <2>3. CASE Rested
    BY <1>1, <2>1, <2>3 DEF Place, Rested
  <2>4. CASE Asked
    BY <1>1, <2>1, <2>4 DEF Place, Asked
  <2>5. CASE Doomed
    BY <1>1, <2>1, <2>5 DEF Place, Doomed
  <2>6. CASE Reading
    <3> DEFINE c == made[Len(made)]
               answer == answered[Len(made)].answer
    <3>1. PICK n, st, j : At(c, answer, call, down.lines, down.ended, pending, n, st, j)
      BY <2>6 DEF Reading
    <3>2. At(c, answer, call, down.lines, TRUE, <<>>, n, st, j)
      <4>1. down.lines \in Seq(Seq(Chars))
        BY <1>2
      <4> HIDE DEF c, answer
      <4> QED BY <1>2, <3>1, <4>1, EndOn
    <3>3. At(made'[Len(made')], answered'[Len(made')].answer, call', down'.lines, down'.ended,
             pending', n, st, j)
      BY <1>1, <2>1, <3>2
    <3> QED BY <1>1, <2>6, <3>3 DEF Place, Reading
  <2> QED BY <2>2, <2>3, <2>4, <2>5, <2>6 DEF Place
<1>5. CASE \E k \in 1..(IF pending = <<>> THEN 0 ELSE Len(Head(pending))) :
              down' = [lines |-> Append(down.lines, SubSeq(Head(pending), 1, k)), ended |-> TRUE]
  <2>1. PICK k \in 1..(IF pending = <<>> THEN 0 ELSE Len(Head(pending))) :
           down' = [lines |-> Append(down.lines, SubSeq(Head(pending), 1, k)), ended |-> TRUE]
    BY <1>5
  <2>2. pending # <<>>
    BY <2>1
  <2>3. k \in 1..Len(Head(pending)) /\ Head(pending) \in Seq(Chars)
    BY <1>2, <2>1, <2>2
  <2> DEFINE y == SubSeq(Head(pending), 1, k)
  <2>4. down'.lines = Append(down.lines, y) /\ down'.ended = TRUE
    BY <2>1
  <2>5. CASE Greeting
    <3>1. Len(pending) >= 1
      BY <1>2, <2>2
    <3>2. y \in Seq(Chars)
      <4> DEFINE x == Head(pending)
      <4> HIDE DEF x
      <4> QED BY <2>3 DEF x
    <3>3. Len(Append(down.lines, y)) = Len(down.lines) + 1
      <4> HIDE DEF y
      <4> QED BY <1>2, <3>2
    <3>4. Len(down'.lines) + Len(pending') <= 1
      BY <1>1, <1>2, <1>3, <2>4, <2>5, <3>1, <3>3 DEF Greeting
    <3> QED BY <1>1, <2>5, <3>4 DEF Place, Greeting
  <2>6. CASE Reading
    <3> DEFINE c == made[Len(made)]
               answer == answered[Len(made)].answer
    <3>1. PICK n, st, j : At(c, answer, call, down.lines, down.ended, pending, n, st, j)
      BY <2>6 DEF Reading
    <3>2. At(c, answer, call, Append(down.lines, y), TRUE, <<>>, n, st, j)
      <4>1. down.lines \in Seq(Seq(Chars))
        BY <1>2
      <4> HIDE DEF c, answer
      <4> QED BY <1>2, <2>2, <2>3, <3>1, <4>1, CutOn
    <3>3. At(made'[Len(made')], answered'[Len(made')].answer, call', down'.lines, down'.ended,
             pending', n, st, j)
      BY <1>1, <2>4, <3>2
    <3> QED BY <1>1, <2>6, <3>3 DEF Place, Reading
  <2>7. ~Rested /\ ~Asked /\ ~Doomed
    BY <2>2 DEF Rested, Asked, Doomed
  <2> QED BY <2>5, <2>6, <2>7 DEF Place
<1> QED BY <1>4, <1>5 DEF ServerCloses

\* The session keeps its place, or a call loses it.
LEMMA NextSteady == Steady /\ [Next]_vars => Steady'
<1> SUFFICES ASSUME Steady, [Next]_vars PROVE Steady'
  OBVIOUS
<1>1. Queue /\ Queue' /\ (~astray => Streams /\ Place)
  BY NextQueue DEF Steady
<1>2. CASE astray' = TRUE
  BY <1>1, <1>2 DEF Steady
<1>0. CASE astray = TRUE
  <2>1. astray' = TRUE \/ astray' = astray
    <3>1. ASSUME NEW command \in Commands,
                 Send(command) \/ DropSend(command) \/ SendFails(command)
          PROVE  astray' = astray
      BY <1>0, <3>1 DEF Send, DropSend, SendFails
    <3>2. CASE Read
      BY <3>2 DEF Read, ReadBanner, ReadFirst, ReadBlock, ReadDefinition, ReadClosing, InStep,
                  LosesStep
    <3>3. CASE ReadEnd \/ Drop
      BY <3>3 DEF ReadEnd, Drop, LosesStep
    <3>4. CASE ServerAnswers \/ ServerWrites \/ ServerCloses
      BY <3>4 DEF ServerAnswers, ServerWrites, ServerCloses
    <3>5. CASE UNCHANGED vars
      BY <3>5 DEF vars
    <3> QED BY <3>1, <3>2, <3>3, <3>4, <3>5 DEF Next
  <2> QED BY <1>0, <1>2, <2>1
<1> SUFFICES ASSUME astray # TRUE, astray' # TRUE PROVE Steady'
  BY <1>0, <1>2
<1> SUFFICES Streams' /\ Place'
  BY <1>1 DEF Steady
<1>a. ~astray /\ ~astray'
  BY <1>1 DEF Queue
<1>3. Streams /\ Place /\ Streams'
  BY <1>1, NextStreams
<1>4. ASSUME NEW command \in Commands, Send(command) PROVE Place'
  BY <1>1, <1>3, <1>4, SendPlace
<1>5. ASSUME NEW command \in Commands, SendFails(command) \/ DropSend(command) PROVE Place'
  BY <1>1, <1>3, <1>5, SendFailsPlace
<1>6. CASE Read
  BY <1>1, <1>3, <1>6, ReadPlace
<1>7. CASE ReadEnd
  BY <1>7 DEF ReadEnd, LosesStep
<1>8. CASE Drop
  BY <1>8 DEF Drop, LosesStep
<1>9. CASE ServerAnswers
  BY <1>1, <1>3, <1>9, AnswersPlace
<1>10. CASE ServerWrites
  BY <1>1, <1>3, <1>10, WritesPlace
<1>11. CASE ServerCloses
  BY <1>1, <1>3, <1>11, ClosesPlace
<1>12. CASE UNCHANGED vars
  BY <1>3, <1>12 DEF vars, Place, Greeting, Rested, Asked, Reading, Doomed
<1> QED BY <1>3, <1>4, <1>5, <1>6, <1>7, <1>8, <1>9, <1>10, <1>11, <1>12 DEF Next

\* A call that returns while the session has its place leaves it at the end of a response.
LEMMA RestedWhenIdle ==
    ASSUME Steady, ~astray, call.pc \in {"idle", "over"}
    PROVE  Rested
<1>1. Queue /\ Place
  BY DEF Steady
<1>2. ~Greeting /\ ~Doomed
  BY DEF Greeting, Doomed
<1>3. ~Asked
  BY <1>1, AskedCall
<1>4. ~Reading
  <2> SUFFICES ASSUME Reading PROVE FALSE
    OBVIOUS
  <2>1. PICK n, st, j : At(made[Len(made)], answered[Len(made)].answer, call, down.lines,
                           down.ended, pending, n, st, j)
    BY DEF Reading
  <2>2. j \in 0..n /\ call = st[j] /\ st \in [0..n -> Calls]
    BY <2>1 DEF At, Course
  <2>3. call \in Calls
    BY <2>2
  <2> QED BY <2>3 DEF Calls
<1> QED BY <1>1, <1>2, <1>3, <1>4 DEF Place

\* A value that a method of Session returns is the one that the server's answer to that
\* very command means, for every command, every answer of the grammar and every cut of
\* the stream, as long as no earlier call ended within its response.
THEOREM AnswersAreOwn == Spec => []AnswersOwn
<1>1. Steady => AnswersOwn
  <2> SUFFICES ASSUME Steady, Returned, ~astray
               PROVE  /\ Len(answered) = Len(made)
                      /\ call.result = Meaning(call.command.op, answered[Len(made)].answer)
    BY DEF AnswersOwn
  <2>1. Rested
    BY RestedWhenIdle DEF Returned
  <2>2. up = <<>> /\ call.result = Meaning(call.command.op, answered[Len(made)].answer)
    BY <2>1 DEF Rested, Returned
  <2>3. Len(answered) = Len(made)
    BY <2>2 DEF Steady, Queue
  <2> QED BY <2>2, <2>3
<1> QED BY <1>1, InitSteady, NextSteady, PTL DEF Spec

\* Between two calls the session is at the end of a response: every path of Session's
\* methods through an answer of the grammar reads all of it.
THEOREM SessionRestsBetween == Spec => []BetweenResponses
<1>1. Steady => BetweenResponses
  <2> SUFFICES ASSUME Steady, call.pc \in {"idle", "over"}, ~astray
               PROVE  up = <<>> /\ down.lines = <<>> /\ pending = <<>>
    BY DEF BetweenResponses
  <2> QED BY RestedWhenIdle DEF Rested
<1> QED BY <1>1, InitSteady, NextSteady, PTL DEF Spec
================================================================================
