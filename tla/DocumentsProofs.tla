----------------------------- MODULE DocumentsProofs -----------------------------
(***************************************************************************)
(* Proofs about Documents: what the file handlers serve, for every tree,   *)
(* path and format.                                                        *)
(***************************************************************************)
EXTENDS Documents, LineProofs

\* The file handlers take the operators of Lines.
LEMMA SameDocuments ==
    /\ \A s, c : FH!Split(s, c) = Split(s, c)
    /\ \A s : FH!PercentDecode(s) = PercentDecode(s)
    /\ \A s, at : FH!Picked(s, at) = Picked(s, at)
<1>1. \A s, c : FH!Split(s, c) = Split(s, c)
  BY DEF FH!Split, Split, FH!Pieces, Pieces, FH!InOrder, InOrder
<1>2. \A s : FH!PercentDecode(s) = PercentDecode(s)
  BY DEF FH!PercentDecode, PercentDecode, FH!Escapes, Escapes
<1>3. \A s, at : FH!Picked(s, at) = Picked(s, at)
  BY DEF FH!Picked, Picked, FH!InOrder, InOrder
<1> QED BY <1>1, <1>2, <1>3

\* The segments of a path are texts, and a slash behind the path adds an empty one.
LEMMA SegmentsTyped ==
    ASSUME NEW X, NEW path \in Seq(X)
    PROVE  /\ FH!Segments(path) \in Seq(Seq(Plain(X)))
           /\ FH!Segments(Append(path, "/")) = Append(FH!Segments(path), <<>>)
           /\ FH!Segments(path) = Split(PercentDecode(path), "/")
<1> DEFINE d == PercentDecode(path)
<1>1. d \in Seq(Plain(X)) /\ PercentDecode(Append(path, "/")) = Append(d, "/")
  BY Decoded, Zenon
<1>2. FH!Segments(path) = Split(d, "/") /\ FH!Segments(path) = Split(PercentDecode(path), "/")
  BY SameDocuments DEF FH!Segments
<1>3. FH!Segments(Append(path, "/")) = Split(Append(d, "/"), "/")
  BY <1>1, SameDocuments DEF FH!Segments
<1> HIDE DEF d
<1>4. "/" \in Plain(X)
  BY DEF Plain
<1>5. Split(Append(d, "/"), "/") = Append(Split(d, "/"), <<>>)
  BY <1>1, <1>4, SplitMore
<1>6. Split(d, "/") \in Seq(Seq(Plain(X)))
  BY <1>1, SplitTexts
<1> QED BY <1>2, <1>3, <1>5, <1>6

\* What follows a step of the file system: the segment is skipped or added.
LEMMA FollowPlain ==
    ASSUME NEW names, NEW segment, segment # <<".", ".">>
    PROVE  Follow([names |-> names, left |-> FALSE], segment) =
              [names |-> IF segment \in FH!Skipped THEN names ELSE Append(names, segment), left |-> FALSE]
<1> DEFINE s == [names |-> names, left |-> FALSE]
<1>1. CASE segment \in FH!Skipped
  BY <1>1 DEF Follow
<1>2. CASE segment \notin FH!Skipped
  <2>1. Follow(s, segment) = [s EXCEPT !.names = Append(@, segment)]
    BY <1>2 DEF Follow
  <2> QED BY <1>2, <2>1, Zenon
<1> QED BY <1>1, <1>2

\* A path without a parent segment leads to the names that are pushed.
LEMMA FollowsPushed ==
    ASSUME NEW X, NEW path \in Seq(X),
           \A i \in DOMAIN FH!Segments(path) : FH!Segments(path)[i] # <<".", ".">>
    PROVE  Followed(path) = [names |-> FH!Pushed(path), left |-> FALSE]
<1> DEFINE segs == FH!Segments(path)
           n == Len(segs)
           Y == Seq(Plain(X))
           kept == FH!Kept(segs)
           first == [names |-> <<>>, left |-> FALSE]
           Walk(g) == [i \in 0..n |-> IF i = 0 THEN first ELSE Follow(g[i - 1], segs[i])]
           walked == CHOOSE state : state = Walk(state)
           Part(i) == SubSeq(segs, 1, i)
           At(i) == [names |-> Picked(Part(i), kept), left |-> FALSE]
<1>1. segs \in Seq(Y) /\ n \in Nat /\ DOMAIN segs = 1..n
  <2>1. segs \in Seq(Y)
    BY SegmentsTyped
  <2> HIDE DEF Y, segs
  <2>2. segs \in Seq(Y) /\ Len(segs) \in Nat /\ DOMAIN segs = 1..Len(segs)
    BY <2>1
  <2> QED BY <2>2
<1>2. Followed(path) = walked[n]
  <2>1. segs = Split(PercentDecode(path), "/")
    BY SegmentsTyped, Zenon
  <2> HIDE DEF segs
  <2> QED BY <2>1 DEF Followed
<1>3. FH!Pushed(path) = Picked(segs, kept)
  BY SameDocuments DEF FH!Pushed
<1>4. \A i \in 1..n : (i \in kept <=> segs[i] \notin FH!Skipped) /\ segs[i] # <<".", ".">>
  BY <1>1, Zenon DEF FH!Kept
<1> HIDE DEF segs, kept, Y, n
<1>5. At(0) = first
  <2>1. Part(0) = <<>> /\ Len(<<>>) = 0
    BY <1>1
  <2>2. DOMAIN InOrder(kept, 0) = 1..0
    <3>1. InOrder(kept, 0) = <<>>
      BY OrderNone
    <3> QED BY <3>1
  <2>3. Picked(<<>>, kept) = <<>>
    <3>1. Picked(<<>>, kept) = [i \in DOMAIN InOrder(kept, 0) |-> <<>>[InOrder(kept, 0)[i]]]
      BY <2>1 DEF Picked
    <3>2. <<>> \in Seq(Y)
      OBVIOUS
    <3>3. Picked(<<>>, kept) \in Seq(Y)
      BY <3>2, PickedFrom, Zenon
    <3>4. DOMAIN Picked(<<>>, kept) = 1..0
      BY <2>2, <3>1
    <3> QED BY <3>3, <3>4
  <2> QED BY <2>1, <2>3, Zenon
<1>6. ASSUME NEW i \in 1..n
      PROVE  Follow(At(i - 1), segs[i]) = At(i)
  <2> DEFINE p == Part(i - 1)
             e == segs[i]
  <2>1. i - 1 \in 0..Len(segs) /\ i \in 0..Len(segs) /\ i \in 1..Len(segs) /\ Len(segs) = n
    BY <1>1 DEF n
  <2>2. p \in Seq(Y) /\ Len(p) = i - 1 /\ \A j \in 1..(i - 1) : p[j] = segs[j]
    BY <1>1, <2>1, FirstBytes
  <2>3. Part(i) \in Seq(Y) /\ Len(Part(i)) = i /\ \A j \in 1..i : Part(i)[j] = segs[j]
    BY <1>1, <2>1, FirstBytes
  <2>4. e \in Y
    BY <1>1, <2>1
  <2> HIDE DEF p, e
  <2> DEFINE q == Append(p, e)
             r == Part(i)
  <2>5. q \in Seq(Y) /\ Len(q) = i /\ q[i] = e /\ \A j \in 1..(i - 1) : q[j] = p[j]
    BY <2>2, <2>4
  <2> HIDE DEF q, Part
  <2>6. ASSUME NEW j \in 1..i PROVE r[j] = q[j]
    <3>1. CASE j = i
      BY <2>3, <2>5, <3>1 DEF e
    <3>2. CASE j \in 1..(i - 1)
      BY <2>2, <2>3, <2>5, <3>2
    <3> QED BY <3>1, <3>2
  <2>7. r = q
    <3>1. r \in Seq(Y) /\ Len(r) = Len(q) /\ \A j \in 1..Len(r) : r[j] = q[j]
      BY <2>3, <2>5, <2>6
    <3> QED BY <2>5, <3>1, SeqEqual
  <2>8. Picked(q, kept) = IF Len(p) + 1 \in kept THEN Append(Picked(p, kept), e) ELSE Picked(p, kept)
    BY <2>2, <2>4, PickedStep DEF q
  <2>9. Len(p) + 1 = i
    BY <2>1, <2>2
  <2>10. (i \in kept <=> e \notin FH!Skipped) /\ e # <<".", ".">>
    BY <1>4 DEF e
  <2> DEFINE names == Picked(p, kept)
  <2>11. Picked(r, kept) = IF e \in FH!Skipped THEN names ELSE Append(names, e)
    BY <2>7, <2>8, <2>9, <2>10
  <2> HIDE DEF names, r
  <2>12. Follow([names |-> names, left |-> FALSE], e) =
            [names |-> IF e \in FH!Skipped THEN names ELSE Append(names, e), left |-> FALSE]
    BY <2>10, FollowPlain
  <2>13. Follow([names |-> names, left |-> FALSE], e) = [names |-> Picked(r, kept), left |-> FALSE]
    BY <2>11, <2>12
  <2>14. At(i - 1) = [names |-> names, left |-> FALSE] /\ At(i) = [names |-> Picked(r, kept), left |-> FALSE]
    BY DEF names, p, r
  <2> QED BY <2>13, <2>14 DEF e
<1> HIDE DEF At, Part, first
<1>7. walked = Walk(walked)
  <2> DEFINE g == [i \in 0..n |-> At(i)]
  <2>1. \A i \in 0..n : g[i] = Walk(g)[i]
    <3> SUFFICES ASSUME NEW i \in 0..n PROVE g[i] = Walk(g)[i]
      BY Zenon
    <3>1. CASE i = 0
      BY <1>5, <3>1
    <3>2. CASE i # 0
      <4>1. i \in 1..n /\ i - 1 \in 0..n
        BY <1>1, <3>2
      <4>2. Walk(g)[i] = Follow(g[i - 1], segs[i]) /\ g[i - 1] = At(i - 1) /\ g[i] = At(i)
        BY <3>2, <4>1
      <4> QED BY <1>6, <4>1, <4>2
    <3> QED BY <3>1, <3>2
  <2>2. g = Walk(g)
    BY <2>1
  <2> HIDE DEF Walk, g
  <2> QED BY <2>2
<1> HIDE DEF walked
<1>8. walked[0] = first /\ \A i \in 1..n : walked[i] = Follow(walked[i - 1], segs[i])
  <2>1. \A i \in 0..n : walked[i] = Walk(walked)[i]
    <3> HIDE DEF Walk
    <3> QED BY <1>7
  <2>2. \A i \in 0..n : walked[i] = IF i = 0 THEN first ELSE Follow(walked[i - 1], segs[i])
    BY <2>1
  <2> QED BY <1>1, <2>2
<1> DEFINE Holds == {i \in 0..n : walked[i] = At(i)}
<1>9. \A i \in 0..n : i \in Holds
  <2>1. 0 \in Holds
    BY <1>1, <1>5, <1>8
  <2>2. ASSUME NEW i \in 1..n, i - 1 \in Holds
        PROVE  i \in Holds
    <3>1. walked[i - 1] = At(i - 1)
      BY <2>2
    <3>2. walked[i] = At(i)
      BY <1>6, <1>8, <3>1
    <3> QED BY <1>1, <3>2
  <2> HIDE DEF Holds
  <2> QED BY <1>1, <2>1, <2>2, CountUp, Zenon
<1>10. walked[n] = At(n)
  BY <1>1, <1>9
<1>11. Part(n) = segs
  <2>1. n = Len(segs) /\ segs \in Seq(Y)
    BY <1>1 DEF n
  <2> QED BY <2>1 DEF Part
<1> QED BY <1>2, <1>3, <1>10, <1>11 DEF At

\* Picking at positions that agree within the text.
LEMMA PickedSame ==
    ASSUME NEW X, NEW s \in Seq(X), NEW at, NEW bt, \A i \in DOMAIN s : i \in at <=> i \in bt
    PROVE  Picked(s, at) = Picked(s, bt)
<1> DEFINE n == Len(s)
<1>1. n \in Nat /\ \A i \in 1..n : i \in at <=> i \in bt
  OBVIOUS
<1>2. InOrder(at, n) = InOrder(bt, n)
  <2> HIDE DEF n
  <2> QED BY <1>1, OrderSame
<1> QED BY <1>2 DEF Picked

\* A slash behind a path pushes no other names.
LEMMA PushedMore ==
    ASSUME NEW X, NEW path \in Seq(X)
    PROVE  /\ FH!Pushed(path) \in Seq(Seq(Plain(X)))
           /\ FH!Pushed(Append(path, "/")) = FH!Pushed(path)
           /\ FH!IsRefused(Append(path, "/")) => FH!IsRefused(path)
<1> DEFINE s == FH!Segments(path)
           z == FH!Segments(Append(path, "/"))
           Y == Seq(Plain(X))
<1>1. s \in Seq(Y) /\ z = Append(s, <<>>) /\ <<>> \in Y
  <2>1. <<>> \in Y
    OBVIOUS
  <2>2. s \in Seq(Y)
    BY SegmentsTyped
  <2>3. z = Append(s, <<>>)
    BY SegmentsTyped, Zenon
  <2> QED BY <2>1, <2>2, <2>3
<1>2. FH!Pushed(path) = Picked(s, FH!Kept(s)) /\ FH!Pushed(Append(path, "/")) = Picked(z, FH!Kept(z))
  BY SameDocuments DEF FH!Pushed
<1>3. FH!IsRefused(path) <=> \E i \in DOMAIN s : FH!Refuses(s[i])
  BY DEF FH!IsRefused
<1>4. FH!IsRefused(Append(path, "/")) <=> \E i \in DOMAIN z : FH!Refuses(z[i])
  BY DEF FH!IsRefused
<1> HIDE DEF s, z, Y
<1>5. /\ Len(s) \in Nat /\ DOMAIN s = 1..Len(s) /\ DOMAIN z = 1..(Len(s) + 1)
      /\ z[Len(s) + 1] = <<>> /\ \A i \in 1..Len(s) : z[i] = s[i]
  BY <1>1
<1>6. FH!Kept(s) = {i \in DOMAIN s : s[i] \notin FH!Skipped} /\ FH!Kept(z) = {i \in DOMAIN z : z[i] \notin FH!Skipped}
  BY DEF FH!Kept
<1>7. <<>> \in FH!Skipped
  BY DEF FH!Skipped
<1>8. Len(s) + 1 \notin FH!Kept(z) /\ \A i \in DOMAIN s : i \in FH!Kept(z) <=> i \in FH!Kept(s)
  <2>1. Len(s) + 1 \notin FH!Kept(z)
    BY <1>5, <1>6, <1>7
  <2>2. ASSUME NEW i \in DOMAIN s PROVE i \in FH!Kept(z) <=> i \in FH!Kept(s)
    <3>1. i \in 1..Len(s) /\ i \in DOMAIN z
      BY <1>5
    <3>2. z[i] = s[i]
      BY <1>5, <3>1
    <3> QED BY <1>6, <3>1, <3>2
  <2> QED BY <2>1, <2>2
<1>9. Picked(s, FH!Kept(z)) = Picked(s, FH!Kept(s))
  BY <1>1, <1>8, PickedSame
<1>10. Picked(z, FH!Kept(z)) = Picked(s, FH!Kept(z))
  <2>1. Picked(Append(s, <<>>), FH!Kept(z)) =
          IF Len(s) + 1 \in FH!Kept(z) THEN Append(Picked(s, FH!Kept(z)), <<>>) ELSE Picked(s, FH!Kept(z))
    BY <1>1, PickedStep
  <2> QED BY <1>1, <1>8, <2>1
<1>11. Picked(s, FH!Kept(s)) \in Seq(Y)
  BY <1>1, PickedFrom
<1>12. ~FH!Refuses(<<>>)
  <2>1. Len(<<>>) = 0 /\ <<>> # <<".", ".">>
    OBVIOUS
  <2> QED BY <2>1 DEF FH!Refuses, FH!Contains
<1>13. ASSUME NEW i \in DOMAIN z, FH!Refuses(z[i])
       PROVE  \E j \in DOMAIN s : FH!Refuses(s[j])
  <2>1. i = Len(s) + 1 \/ i \in 1..Len(s)
    BY <1>5
  <2>2. i # Len(s) + 1
    BY <1>5, <1>12, <1>13
  <2>3. i \in DOMAIN s /\ z[i] = s[i]
    BY <1>5, <2>1, <2>2
  <2> QED BY <1>13, <2>3
<1>14. FH!Pushed(path) \in Seq(Seq(Plain(X)))
  BY <1>2, <1>11 DEF Y
<1>15. FH!Pushed(Append(path, "/")) = FH!Pushed(path)
  BY <1>2, <1>9, <1>10
<1>16. FH!IsRefused(Append(path, "/")) => FH!IsRefused(path)
  BY <1>3, <1>4, <1>13
<1> QED BY <1>14, <1>15, <1>16

\* The index a path ends with, if the h appends one.
WantsIndex(h, path) ==
    \/ h # "nex" /\ FH!EndsWithSlash(FH!PercentDecode(path))
    \/ h = "spartan" /\ FH!PercentDecode(path) = <<>>

\* A path leads to its names, or to the index below them.
LEMMA Resolves ==
    ASSUME NEW X, NEW path \in Seq(X), NEW h
    PROVE  FH!Resolve(h, path) =
              IF WantsIndex(h, path) THEN Append(FH!Pushed(path), FH!Index(h)) ELSE FH!Pushed(path)
<1> DEFINE p == FH!Pushed(path)
           x == FH!Index(h)
           Y == Seq(Plain(X)) \cup {x}
           tail == IF WantsIndex(h, path) THEN <<x>> ELSE <<>>
<1>1. p \in Seq(Seq(Plain(X)))
  BY PushedMore
<1>2. FH!Resolve(h, path) = p \o tail
  BY DEF FH!Resolve, WantsIndex
<1> HIDE DEF p, x
<1>3. p \in Seq(Y) /\ x \in Y
  BY <1>1
<1> HIDE DEF Y
<1>4. CASE WantsIndex(h, path)
  <2>1. tail = <<x>>
    BY <1>4
  <2>2. Append(p, x) = p \o <<x>>
    BY <1>3, AppendIsConcat
  <2> HIDE DEF tail
  <2>3. FH!Resolve(h, path) = Append(p, x)
    BY <1>2, <2>1, <2>2
  <2> QED BY <1>4, <2>3 DEF p, x
<1>5. CASE ~WantsIndex(h, path)
  <2>1. tail = <<>>
    BY <1>5
  <2>2. p \o <<>> = p
    BY <1>3, ConcatEmptySeq
  <2> HIDE DEF tail
  <2>3. FH!Resolve(h, path) = p
    BY <1>2, <2>1, <2>2
  <2> QED BY <1>5, <2>3 DEF p
<1> QED BY <1>4, <1>5

----------------------------------------------------------------------------
\* A word: a text with something in it and no white space.
IsWord(s) == s # <<>> /\ \A i \in DOMAIN s : s[i] \notin White

\* A text whose last character is not trimmed stays as it is, and so at its front.
LEMMA TrimsNothing ==
    ASSUME NEW X, NEW s \in Seq(X), s # <<>>, NEW cut
    PROVE  /\ s[Len(s)] \notin cut => TrimEnd(s, cut) = s
           /\ s[1] \notin cut => TrimStart(s, cut) = s
<1> DEFINE n == Len(s)
           at == {i \in DOMAIN s : s[i] \notin cut}
<1>1. n \in Nat /\ n >= 1 /\ DOMAIN s = 1..n /\ SubSeq(s, 1, n) = s
  OBVIOUS
<1>2. TrimEnd(s, cut) = SubSeq(s, 1, LastOf(at))
  BY DEF TrimEnd
<1>3. TrimStart(s, cut) = IF FirstOf(at) = 0 THEN <<>> ELSE SubSeq(s, FirstOf(at), n)
  BY DEF TrimStart, From
<1>4. at \in SUBSET (1..n) /\ at \in SUBSET Nat
  BY <1>1
<1>5. ASSUME s[n] \notin cut PROVE TrimEnd(s, cut) = s
  <2>1. n \in at
    BY <1>1, <1>5
  <2> HIDE DEF at, n
  <2>2. LastOf(at) \in at /\ \A j \in at : j <= LastOf(at)
    <3>1. at # {} => LastOf(at) \in at /\ \A j \in at : j <= LastOf(at)
      BY <1>1, <1>4, LastPosition, Zenon
    <3> QED BY <2>1, <3>1
  <2>3. LastOf(at) = n
    <3>1. LastOf(at) \in 1..n /\ n <= LastOf(at)
      BY <1>4, <2>1, <2>2, Zenon
    <3> QED BY <1>1, <3>1
  <2> QED BY <1>1, <1>2, <2>3
<1>6. ASSUME s[1] \notin cut PROVE TrimStart(s, cut) = s
  <2>1. 1 \in at
    BY <1>1, <1>6
  <2> HIDE DEF at, n
  <2>2. FirstOf(at) \in at /\ \A j \in at : FirstOf(at) <= j
    <3>1. at # {} => FirstOf(at) \in at /\ \A j \in at : FirstOf(at) <= j
      BY <1>4, FirstPosition
    <3> QED BY <2>1, <3>1
  <2>3. FirstOf(at) = 1
    <3>1. FirstOf(at) \in 1..n /\ FirstOf(at) <= 1
      BY <1>4, <2>1, <2>2, Zenon
    <3> QED BY <1>1, <3>1
  <2> QED BY <1>1, <1>3, <2>3
<1> QED BY <1>5, <1>6

\* A word is the first thing before white space, and all of it.
LEMMA WordStays ==
    ASSUME NEW X, NEW s \in Seq(X), IsWord(s)
    PROVE  Trim(s, White) = s /\ TrimStart(s, White) = s /\ SplitWhite(s)[1] = s
<1> DEFINE n == Len(s)
           at == {i \in DOMAIN s : s[i] \in White}
           q == InOrder(at, n)
<1>1. n \in Nat /\ n >= 1 /\ s # <<>> /\ SubSeq(s, 1, n) = s
  BY DEF IsWord
<1>2. s[n] \notin White /\ s[1] \notin White
  BY <1>1 DEF IsWord
<1>3. TrimEnd(s, White) = s /\ TrimStart(s, White) = s
  BY <1>1, <1>2, TrimsNothing
<1>4. Trim(s, White) = s
  BY <1>3 DEF Trim
<1>5. at = {}
  BY DEF IsWord
<1>6. q = <<>> /\ Sorted(q, n)
  <2>1. Sorted(q, n)
    BY <1>1, OrderSorted
  <2>2. \A k : (\E i \in 1..Len(q) : q[i] = k) <=> k \in at /\ k \in 1..n
    <3> HIDE DEF n, at
    <3> QED BY <1>1, OrderRange, Zenon
  <2>3. q \in Seq(1..n)
    BY <2>1 DEF Sorted
  <2> HIDE DEF q, at
  <2>4. ~\E i \in 1..Len(q) : TRUE
    BY <1>5, <2>2, Zenon
  <2>5. Len(q) = 0
    BY <2>3, <2>4
  <2> QED BY <2>1, <2>3, <2>5
<1>7. WhiteAt(s) = q
  BY DEF WhiteAt
<1> HIDE DEF q
<1>8. SplitWhite(s) = Pieces(s, SubSeq(q, 1, 0))
  BY <1>6, <1>7 DEF SplitWhite
<1>9. SubSeq(q, 1, 0) = q
  BY <1>6
<1>10. SplitWhite(s) = Pieces(s, q)
  BY <1>8, <1>9, Zenon
<1>11. Pieces(s, q)[1] = SubSeq(s, Bound(s, q, 1) + 1, Bound(s, q, 2) - 1)
  <2>1. \A i \in 1..(Len(q) + 1) :
          Pieces(s, q)[i] = SubSeq(s, Bound(s, q, i) + 1, Bound(s, q, i + 1) - 1)
    BY <1>6, PieceBetween
  <2>2. 1 \in 1..(Len(q) + 1) /\ 1 + 1 = 2
    BY <1>6
  <2> QED BY <2>1, <2>2
<1>12. Bound(s, q, 1) = 0 /\ Bound(s, q, 2) = n + 1
  <2>1. Len(q) + 2 = 2
    BY <1>6
  <2> QED BY <2>1 DEF Bound
<1>13. SplitWhite(s)[1] = s
  <2>1. SplitWhite(s)[1] = SubSeq(s, 0 + 1, n + 1 - 1)
    BY <1>10, <1>11, <1>12
  <2>2. 0 + 1 = 1 /\ n + 1 - 1 = n
    BY <1>1
  <2> QED BY <1>1, <2>1, <2>2
<1> QED BY <1>3, <1>4, <1>13

\* Listings takes the operators of Lines.
LEMMA SameListings ==
    /\ \A s, cut : LT!TrimEnd(s, cut) = TrimEnd(s, cut)
    /\ \A s, cut : LT!TrimStart(s, cut) = TrimStart(s, cut)
    /\ \A s, cut : LT!Trim(s, cut) = Trim(s, cut)
    /\ \A s : LT!SplitWhite(s) = SplitWhite(s)
    /\ LT!White = White /\ LT!CR = CR /\ LT!SP = SP
<1>1. \A s, cut : LT!TrimEnd(s, cut) = TrimEnd(s, cut)
  BY DEF LT!TrimEnd, TrimEnd, LT!LastOf, LastOf
<1>2. \A s, cut : LT!TrimStart(s, cut) = TrimStart(s, cut)
  BY DEF LT!TrimStart, TrimStart, LT!FirstOf, FirstOf, LT!From, From
<1>3. \A s, cut : LT!Trim(s, cut) = Trim(s, cut)
  BY <1>1, <1>2 DEF LT!Trim, Trim
<1>4. LT!White = White /\ LT!CR = CR /\ LT!SP = SP
  BY DEF LT!White, White, LT!CR, CR, LT!LF, LF, LT!SP, SP, LT!TAB, TAB
<1>5. \A s : LT!SplitWhite(s) = SplitWhite(s)
  BY <1>4 DEF LT!SplitWhite, SplitWhite, LT!WhiteAt, WhiteAt, LT!Pieces, Pieces, LT!InOrder, InOrder
<1> QED BY <1>1, <1>2, <1>3, <1>4, <1>5

\* A link line of one word is read as a link to that word.
LEMMA LinkRead ==
    ASSUME NEW X, NEW word \in Seq(X), IsWord(word), NEW lines, NEW i \in DOMAIN lines,
           lines[i] = <<"=>", SP>> \o word
    PROVE  LT!ParseListing(lines)[i].url = word /\ LT!ParseListing(lines)[i].kind = "link"
<1> DEFINE Y == X \cup {"=>", SP}
           arrow == <<"=>", SP>>
           line == arrow \o word
           n == Len(word)
<1>1. n \in Nat /\ n >= 1 /\ word \in Seq(Y) /\ \A j \in 1..n : word[j] \notin White
  BY DEF IsWord
<1>2. arrow \in Seq(Y) /\ Len(arrow) = 2 /\ arrow[1] = "=>" /\ arrow[2] = SP
  OBVIOUS
<1> HIDE DEF arrow, Y
<1>3. /\ line \in Seq(Y) /\ Len(line) = n + 2 /\ line # <<>>
      /\ \A j \in 1..2 : line[j] = arrow[j]
      /\ \A j \in 1..n : line[2 + j] = word[j]
  <2>0. arrow \in Seq(Y) /\ word \in Seq(Y)
    BY <1>1, <1>2
  <2>1. /\ line \in Seq(Y) /\ Len(line) = Len(arrow) + n
        /\ \A j \in 1..Len(arrow) : line[j] = arrow[j]
        /\ \A j \in 1..n : line[Len(arrow) + j] = word[j]
    BY <2>0, Concat
  <2> HIDE DEF line
  <2>2. Len(line) = n + 2
    BY <1>1, <1>2, <2>1
  <2>3. line # <<>>
    BY <1>1, <2>1, <2>2
  <2> QED BY <1>2, <2>1, <2>2, <2>3
<1> HIDE DEF line
<1>4. TrimEnd(line, {CR}) = line
  <2>1. line[Len(line)] = word[n]
    BY <1>1, <1>3
  <2>2. word[n] \notin {CR}
    BY <1>1 DEF White
  <2> QED BY <1>3, <2>1, <2>2, TrimsNothing
<1>5. SubSeq(line, 2 + 1, Len(line)) = word
  <2> DEFINE t == SubSeq(line, 3, Len(line))
  <2>1. t \in Seq(Y) /\ Len(t) = n /\ \A j \in 1..n : t[j] = line[2 + j]
    BY <1>1, <1>3
  <2> HIDE DEF t
  <2>2. t = word
    BY <1>1, <1>3, <2>1, SeqEqual
  <2> QED BY <2>2 DEF t
<1>6. SubSeq(arrow, 1, 2) = SubSeq(line, 1, 2)
  <2> DEFINE t == SubSeq(line, 1, 2)
  <2>1. t \in Seq(Y) /\ Len(t) = 2 /\ \A j \in 1..2 : t[j] = line[j]
    BY <1>1, <1>3
  <2>2. SubSeq(arrow, 1, 2) = arrow
    BY <1>2
  <2> HIDE DEF t
  <2>3. t = arrow
    BY <1>2, <1>3, <2>1, SeqEqual
  <2> QED BY <2>2, <2>3 DEF t
<1>7. LT!NexArrow = arrow
  BY SameListings DEF LT!NexArrow, arrow
<1>8. LT!IsPrefix(arrow, line)
  BY <1>1, <1>2, <1>3, <1>6 DEF LT!IsPrefix
<1>9. LT!After(line, arrow) = word
  BY <1>2, <1>5 DEF LT!After, LT!From
<1>10. Trim(word, White) = word /\ TrimStart(word, White) = word /\ SplitWhite(word)[1] = word
  BY WordStays
<1>11. LT!Trim(word, LT!White) # <<>>
  BY <1>10, SameListings DEF IsWord
<1>12. LT!Target(word).url = word /\ LT!Target(word).kind = "link"
  <2>1. LT!SplitWhite(LT!TrimStart(word, LT!White))[1] = word
    BY <1>10, SameListings
  <2> DEFINE words == LT!SplitWhite(LT!TrimStart(word, LT!White))
             label == IF Len(words) = 2 THEN LT!Trim(words[2], LT!White) ELSE <<>>
  <2>2. LT!Target(word) = [kind |-> "link", url |-> words[1], label |-> label]
    BY DEF LT!Target, LT!Link
  <2> HIDE DEF words, label
  <2> QED BY <2>1, <2>2 DEF words
<1>13. LT!TrimEnd(lines[i], {LT!CR}) = line
  BY <1>4, SameListings, Zenon DEF line, arrow
<1>14. LT!ParseListing(lines)[i] = LT!Target(word)
  BY <1>7, <1>8, <1>9, <1>11, <1>13, Zenon DEF LT!ParseListing
<1> QED BY <1>12, <1>14

\* The name a listing shows for an entry.
Shown(p) == FH!Last(p) \o (IF p \in Dirs THEN <<"/">> ELSE <<>>)

\* Every element at one of the positions is picked.
LEMMA PickedAgain ==
    ASSUME NEW X, NEW s \in Seq(X), NEW at, NEW k \in DOMAIN s, k \in at
    PROVE  \E i \in DOMAIN Picked(s, at) : Picked(s, at)[i] = s[k]
<1> DEFINE n == Len(s)
           q == InOrder(at, n)
<1>1. n \in Nat /\ DOMAIN s = 1..n
  OBVIOUS
<1>2. q \in Seq(1..n) /\ DOMAIN q = 1..Len(q)
  <2>1. q \in Seq(1..n)
    BY <1>1, OrderSorted DEF Sorted
  <2> HIDE DEF q
  <2> QED BY <2>1
<1>3. PICK i \in 1..Len(q) : q[i] = k
  <2> HIDE DEF n
  <2> QED BY <1>1, OrderRange
<1>4. Picked(s, at) = [j \in DOMAIN q |-> s[q[j]]]
  BY DEF Picked
<1> HIDE DEF q
<1> QED BY <1>2, <1>3, <1>4

\* The lines of a listing.
LEMMA ListingLines ==
    ASSUME NEW path, NEW dir, NEW n \in Nat,
           DOMAIN FH!EntryLinks(dir, EntryOrder) = 1..n
    PROVE  LET lines == FH!Listing(path, dir, EntryOrder)
               links == FH!EntryLinks(dir, EntryOrder)
           IN /\ DOMAIN lines = 1..(n + 2)
              /\ lines[1] = FH!Heading(path) /\ lines[2] = <<>>
              /\ \A i \in 1..n : lines[2 + i] = links[i]
<1> DEFINE links == FH!EntryLinks(dir, EntryOrder)
           top == << FH!Heading(path), <<>> >>
           R == {FH!Heading(path), <<>>} \cup {links[i] : i \in 1..n}
           lines == FH!Listing(path, dir, EntryOrder)
<1>1. lines = top \o links
  BY DEF FH!Listing
<1>2. links = [i \in 1..n |-> links[i]]
  <2> DEFINE entries == FH!Picked(EntryOrder, {i \in DOMAIN EntryOrder : EntryOrder[i] \in FH!Entries(dir)})
             LinkTo(i) == <<"=>", FH!SP>> \o FH!Last(entries[i]) \o (IF entries[i] \in Dirs THEN <<"/">> ELSE <<>>)
  <2>1. links = [i \in DOMAIN entries |-> LinkTo(i)]
    BY Zenon DEF FH!EntryLinks
  <2> HIDE DEF LinkTo, entries, links
  <2>2. DOMAIN links = 1..n
    BY DEF links
  <2> QED BY <2>1, <2>2
<1> HIDE DEF links
<1>3. top \in Seq(R) /\ Len(top) = 2 /\ top[1] = FH!Heading(path) /\ top[2] = <<>>
  BY DEF R
<1>4. \A i \in 1..n : links[i] \in R
  OBVIOUS
<1> HIDE DEF top, R, lines
<1>5. links \in Seq(R) /\ Len(links) = n
  BY <1>2, <1>4
<1>6. /\ lines \in Seq(R) /\ Len(lines) = 2 + n
      /\ \A i \in 1..2 : lines[i] = top[i]
      /\ \A i \in 1..n : lines[2 + i] = links[i]
  <2>1. /\ top \o links \in Seq(R) /\ Len(top \o links) = Len(top) + Len(links)
        /\ \A i \in 1..Len(top) : (top \o links)[i] = top[i]
        /\ \A i \in 1..Len(links) : (top \o links)[Len(top) + i] = links[i]
    <3>1. top \in Seq(R) /\ links \in Seq(R)
      BY <1>3, <1>5
    <3>2. \A s, t \in Seq(R) : /\ s \o t \in Seq(R) /\ Len(s \o t) = Len(s) + Len(t)
                               /\ \A i \in 1..Len(s) : (s \o t)[i] = s[i]
                               /\ \A i \in 1..Len(t) : (s \o t)[Len(s) + i] = t[i]
      BY Concat
    <3> QED BY <3>1, <3>2, Zenon
  <2>2. /\ lines \in Seq(R) /\ Len(lines) = Len(top) + Len(links)
        /\ \A i \in 1..Len(top) : lines[i] = top[i]
        /\ \A i \in 1..Len(links) : lines[Len(top) + i] = links[i]
    BY <1>1, <2>1, Zenon
  <2> QED BY <1>3, <1>5, <2>2
<1>7. DOMAIN lines = 1..(n + 2)
  BY <1>6
<1>8. lines[1] = FH!Heading(path) /\ lines[2] = <<>>
  BY <1>3, <1>6
<1> QED BY <1>6, <1>7, <1>8 DEF lines, links

\* The two lines above the links: the path is a link only when it begins like one, and the
\* blank line is none.
LEMMA AboveTheLinks ==
    ASSUME NEW X, NEW path \in Seq(X), NEW lines, {1, 2} \subseteq DOMAIN lines,
           lines[1] = FH!Heading(path), lines[2] = <<>>
    PROVE  /\ LT!ParseListing(lines)[1].kind = "link" => IsPrefix(<<"=>", SP>>, TrimEnd(path, {CR}))
           /\ LT!ParseListing(lines)[2].kind # "link"
<1>1. \A i \in DOMAIN lines :
        LT!ParseListing(lines)[i].kind = "link" => IsPrefix(<<"=>", SP>>, TrimEnd(lines[i], {CR}))
  <2> SUFFICES ASSUME NEW i \in DOMAIN lines, ~IsPrefix(<<"=>", SP>>, TrimEnd(lines[i], {CR}))
      PROVE  LT!ParseListing(lines)[i].kind # "link"
      OBVIOUS
  <2>1. LT!TrimEnd(lines[i], {LT!CR}) = TrimEnd(lines[i], {CR}) /\ LT!NexArrow = <<"=>", SP>>
    BY SameListings, Zenon DEF LT!NexArrow
  <2>2. ~LT!IsPrefix(LT!NexArrow, LT!TrimEnd(lines[i], {LT!CR}))
    BY <2>1 DEF LT!IsPrefix, IsPrefix
  <2>3. LT!ParseListing(lines)[i] = LT!Text(LT!TrimEnd(lines[i], {LT!CR}))
    BY <2>2, Zenon DEF LT!ParseListing
  <2> QED BY <2>3 DEF LT!Text
<1>2. ASSUME NEW s, NEW Y, s \in Seq(Y), Len(s) < 2
      PROVE  ~IsPrefix(<<"=>", SP>>, TrimEnd(s, {CR}))
  <2> DEFINE k == LastOf({i \in DOMAIN s : s[i] \notin {CR}})
             t == TrimEnd(s, {CR})
  <2>1. t = SubSeq(s, 1, k)
    BY DEF TrimEnd
  <2>2. k \in 0..Len(s)
    <3> DEFINE at == {i \in DOMAIN s : s[i] \notin {CR}}
    <3>1. at \in SUBSET (1..Len(s)) /\ Len(s) \in Nat
      BY <1>2
    <3> HIDE DEF at
    <3>2. at = {} => LastOf(at) = 0
      BY DEF LastOf
    <3>3. at # {} => LastOf(at) \in at
      BY <3>1, LastPosition, Zenon
    <3> QED BY <3>1, <3>2, <3>3 DEF at
  <2> HIDE DEF k, t
  <2>3. Len(t) < 2 /\ Len(t) \in Nat
    BY <1>2, <2>1, <2>2
  <2>4. Len(<<"=>", SP>>) = 2
    OBVIOUS
  <2> QED BY <2>3, <2>4 DEF IsPrefix, t
<1>3. LT!ParseListing(lines)[2].kind # "link"
  <2>1. ~IsPrefix(<<"=>", SP>>, TrimEnd(<<>>, {CR}))
    <3>1. <<>> \in Seq(X) /\ Len(<<>>) < 2
      OBVIOUS
    <3> QED BY <1>2, <3>1, Zenon
  <2> QED BY <1>1, <2>1
<1>4. CASE path = <<>>
  <2>1. lines[1] = <<"/">>
    BY <1>4 DEF FH!Heading
  <2>2. ~IsPrefix(<<"=>", SP>>, TrimEnd(<<"/">>, {CR}))
    <3>1. <<"/">> \in Seq({"/"}) /\ Len(<<"/">>) < 2
      OBVIOUS
    <3> QED BY <1>2, <3>1, Zenon
  <2> QED BY <1>1, <1>3, <2>1, <2>2
<1>5. CASE path # <<>>
  <2>1. lines[1] = path
    BY <1>5 DEF FH!Heading
  <2> QED BY <1>1, <1>3, <2>1
<1> QED BY <1>4, <1>5

\* A listing's reader finds the names of the directory's entries, and no others but the
\* path above them.
LEMMA ListingLeads ==
    ASSUME PlainTree, NEW dir, NEW X, NEW path \in Seq(X)
    PROVE  ListsEntries(path, dir)
<1> DEFINE tree == (Dirs \cup RegularFiles) \ {<<>>}
           at == {i \in DOMAIN EntryOrder : EntryOrder[i] \in FH!Entries(dir)}
           picked == Picked(EntryOrder, at)
           links == FH!EntryLinks(dir, EntryOrder)
           lines == FH!Listing(path, dir, EntryOrder)
           read == LT!ParseListing(lines)
           n == Len(picked)
<1> HIDE DEF links, lines, read, n
<1>1. EntryOrder \in Seq(tree) /\ \A p \in tree : \E i \in DOMAIN EntryOrder : EntryOrder[i] = p
  BY DEF PlainTree
<1>2. \A p \in tree : p \in Seq(Seq(STRING)) /\ p # <<>> /\ IsWord(p[Len(p)]) 
  <2> SUFFICES ASSUME NEW p \in tree PROVE p \in Seq(Seq(STRING)) /\ p # <<>> /\ IsWord(p[Len(p)])
    OBVIOUS
  <2>1. p \in Seq(Seq(STRING)) /\ p # <<>>
    BY DEF PlainTree
  <2>2. Last(p) # <<>> /\ \A i \in DOMAIN Last(p) : Last(p)[i] \notin White
    BY DEF PlainTree
  <2> HIDE DEF tree
  <2>3. IsWord(Last(p))
    BY <2>2 DEF IsWord
  <2> QED BY <2>1, <2>3 DEF Last
<1>3. FH!Entries(dir) \subseteq tree
  BY DEF FH!Entries
<1>4. /\ picked \in Seq(tree) /\ \A i \in DOMAIN picked : picked[i] \in FH!Entries(dir)
      /\ \A p \in FH!Entries(dir) : \E i \in DOMAIN picked : picked[i] = p
  <2> HIDE DEF tree
  <2>1. picked \in Seq(tree)
    <3> HIDE DEF at
    <3> QED BY <1>1, PickedFrom
  <2>2. \A i \in DOMAIN picked : \E k \in DOMAIN EntryOrder : k \in at /\ picked[i] = EntryOrder[k]
    <3> HIDE DEF at
    <3> QED BY <1>1, PickedFrom
  <2>3. \A k \in DOMAIN EntryOrder : k \in at => \E i \in DOMAIN picked : picked[i] = EntryOrder[k]
    <3> HIDE DEF at
    <3> QED BY <1>1, PickedAgain
  <2> HIDE DEF picked
  <2>4. ASSUME NEW p, p \in FH!Entries(dir)
        PROVE  \E i \in DOMAIN picked : picked[i] = p
    <3>1. PICK k \in DOMAIN EntryOrder : EntryOrder[k] = p
      BY <1>1, <1>3, <2>4
    <3>2. k \in at
      BY <2>4, <3>1
    <3> QED BY <2>3, <3>1, <3>2
  <2>5. ASSUME NEW i \in DOMAIN picked PROVE picked[i] \in FH!Entries(dir)
    <3>1. PICK k \in DOMAIN EntryOrder : k \in at /\ picked[i] = EntryOrder[k]
      BY <2>2
    <3> QED BY <3>1
  <2> QED BY <2>1, <2>4, <2>5
<1>5. links = [i \in DOMAIN picked |->
                 (<<"=>", FH!SP>> \o FH!Last(picked[i])) \o (IF picked[i] \in Dirs THEN <<"/">> ELSE <<>>)]
  BY SameDocuments, Zenon DEF FH!EntryLinks, links
<1> HIDE DEF tree, at
<1> HIDE DEF picked
<1>6. n \in Nat /\ DOMAIN picked = 1..n
  BY <1>4 DEF n
<1>7. DOMAIN links = 1..n
  BY <1>5, <1>6
<1>8. /\ DOMAIN lines = 1..(n + 2) /\ lines[1] = FH!Heading(path) /\ lines[2] = <<>>
      /\ \A i \in 1..n : lines[2 + i] = links[i]
  BY <1>6, <1>7, ListingLines DEF links, lines
<1>9. DOMAIN read = 1..(n + 2)
  BY <1>8 DEF LT!ParseListing, read
<1>10. ASSUME NEW i \in 1..n
       PROVE  read[2 + i].url = Shown(picked[i]) /\ read[2 + i].kind = "link"
  <2> DEFINE p == picked[i]
             name == FH!Last(p)
             slash == IF p \in Dirs THEN <<"/">> ELSE <<>>
             word == name \o slash
             Y == STRING \cup {"/", "=>", SP}
  <2>1. p \in tree
    BY <1>4, <1>6
  <2>2. name = p[Len(p)]
    BY DEF FH!Last
  <2> HIDE DEF p
  <2>3. p \in Seq(Seq(STRING)) /\ p # <<>> /\ IsWord(p[Len(p)])
    BY <1>2, <2>1
  <2>4. name \in Seq(STRING) /\ IsWord(name)
    <3> DEFINE Z == Seq(STRING)
    <3>1. p \in Seq(Z)
      BY <2>3
    <3> HIDE DEF Z, name
    <3>2. Len(p) \in 1..Len(p) /\ Len(p) \in DOMAIN p
      BY <2>3, <3>1
    <3>3. p[Len(p)] \in Z
      BY <3>1, <3>2
    <3> QED BY <2>2, <2>3, <3>3 DEF Z
  <2> HIDE DEF name
  <2>5. name \in Seq(Y)
    BY <2>4
  <2>6. slash \in Seq(Y) /\ \A j \in 1..Len(slash) : slash[j] \notin White
    <3>1. CASE p \in Dirs
      <4>1. slash = <<"/">>
        BY <3>1
      <4>2. "/" \notin White /\ "/" \in Y
        BY DEF White, CR, LF, SP, TAB
      <4> HIDE DEF slash, Y
      <4>3. slash \in Seq(Y) /\ Len(slash) = 1 /\ slash[1] = "/"
        BY <4>1, <4>2
      <4> QED BY <4>2, <4>3
    <3>2. CASE p \notin Dirs
      <4>1. slash = <<>>
        BY <3>2
      <4> HIDE DEF slash, Y
      <4> QED BY <4>1
    <3> QED BY <3>1, <3>2
  <2>7. <<"=>", SP>> \in Seq(Y)
    OBVIOUS
  <2> HIDE DEF slash, Y
  <2>8. word \in Seq(Y) /\ IsWord(word)
    <3>1. /\ word \in Seq(Y) /\ Len(word) = Len(name) + Len(slash)
          /\ \A j \in 1..Len(name) : word[j] = name[j]
          /\ \A j \in 1..Len(slash) : word[Len(name) + j] = slash[j]
      BY <2>5, <2>6, Concat
    <3> HIDE DEF word
    <3>2. Len(name) \in Nat /\ Len(name) >= 1 /\ Len(slash) \in Nat /\ \A j \in 1..Len(name) : name[j] \notin White
      BY <2>4, <2>5, <2>6 DEF IsWord
    <3>3. DOMAIN word = 1..Len(word) /\ word # <<>>
      BY <3>1, <3>2
    <3>4. ASSUME NEW j \in DOMAIN word PROVE word[j] \notin White
      <4>1. CASE j \in 1..Len(name)
        BY <3>1, <3>2, <4>1
      <4>2. CASE j \notin 1..Len(name)
        <5> DEFINE k == j - Len(name)
        <5>1. k \in 1..Len(slash) /\ j = Len(name) + k
          BY <3>1, <3>2, <3>3, <4>2
        <5> HIDE DEF k
        <5>2. word[j] = slash[k]
          BY <3>1, <5>1
        <5> QED BY <2>6, <5>1, <5>2
      <4> QED BY <4>1, <4>2
    <3> QED BY <3>1, <3>3, <3>4 DEF IsWord
  <2>9. lines[2 + i] = <<"=>", SP>> \o word
    <3>1. lines[2 + i] = (<<"=>", FH!SP>> \o name) \o slash
      BY <1>5, <1>6, <1>8 DEF name, slash, p
    <3>2. FH!SP = SP
      BY DEF FH!SP, SP
    <3> DEFINE arrow == <<"=>", SP>>
    <3>3. lines[2 + i] = (arrow \o name) \o slash
      BY <3>1, <3>2
    <3>4. arrow \in Seq(Y)
      BY <2>7
    <3> HIDE DEF arrow
    <3>5. (arrow \o name) \o slash = arrow \o (name \o slash)
      BY <2>5, <2>6, <3>4, ConcatAssociative
    <3> QED BY <3>3, <3>5 DEF arrow
  <2>10. read[2 + i].url = word /\ read[2 + i].kind = "link"
    <3> HIDE DEF word
    <3> DEFINE j == 2 + i
    <3>1. j \in DOMAIN lines
      BY <1>6, <1>8
    <3>2. lines[j] = <<"=>", SP>> \o word
      BY <2>9
    <3> HIDE DEF j
    <3>3. LT!ParseListing(lines)[j].url = word /\ LT!ParseListing(lines)[j].kind = "link"
      BY <2>8, <3>1, <3>2, LinkRead
    <3> QED BY <3>3 DEF read, j
  <2> QED BY <2>10 DEF Shown, p, name, slash
<1>11. /\ read[1].kind = "link" => IsPrefix(<<"=>", SP>>, TrimEnd(path, {CR}))
       /\ read[2].kind # "link"
  <2>1. {1, 2} \subseteq DOMAIN lines
    BY <1>6, <1>8
  <2> QED BY <1>8, <2>1, AboveTheLinks DEF read
<1> DEFINE linked == {i \in DOMAIN read : read[i].kind = "link"}
<1>12. \A j \in 3..(n + 2) : \E i \in 1..n : j = 2 + i
  <2> SUFFICES ASSUME NEW j \in 3..(n + 2) PROVE \E i \in 1..n : j = 2 + i
    OBVIOUS
  <2>1. j - 2 \in 1..n /\ j = 2 + (j - 2)
    BY <1>6
  <2> QED BY <2>1
<1>13. linked \ {1} = 3..(n + 2) /\ DOMAIN read \ {1, 2} = 3..(n + 2)
  <2>1. \A j \in 3..(n + 2) : read[j].kind = "link"
    BY <1>10, <1>12
  <2> QED BY <1>6, <1>9, <1>11, <2>1
<1>14. 1 \in linked => IsPrefix(<<"=>", SP>>, TrimEnd(path, {CR}))
  BY <1>11
<1> HIDE DEF linked
<1> DEFINE Found == {read[j].url : j \in linked \ {1}}
           Names == {Last(q) \o (IF q \in Dirs THEN <<"/">> ELSE <<>>) : q \in FH!Entries(dir)}
<1>15. \A q : Shown(q) = Last(q) \o (IF q \in Dirs THEN <<"/">> ELSE <<>>)
  BY DEF Shown, Last, FH!Last
<1>16. Names = {Shown(q) : q \in FH!Entries(dir)}
  BY <1>15, Zenon
<1>17. Found = {Shown(q) : q \in FH!Entries(dir)}
  <2>1. ASSUME NEW j \in linked \ {1}
        PROVE  read[j].url \in {Shown(q) : q \in FH!Entries(dir)}
    <3>1. PICK i \in 1..n : j = 2 + i
      BY <1>12, <1>13
    <3>2. read[j].url = Shown(picked[i]) /\ picked[i] \in FH!Entries(dir)
      BY <1>4, <1>6, <1>10, <3>1
    <3> QED BY <3>2
  <2>2. ASSUME NEW q \in FH!Entries(dir)
        PROVE  \E j \in linked \ {1} : read[j].url = Shown(q)
    <3>1. PICK i \in 1..n : picked[i] = q
      BY <1>4, <1>6
    <3>2. read[2 + i].url = Shown(q) /\ 2 + i \in linked \ {1}
      BY <1>6, <1>10, <1>13, <3>1
    <3> QED BY <3>2
  <2> QED BY <2>1, <2>2
<1> HIDE DEF Found, Names
<1>18. Found = Names
  BY <1>16, <1>17
<1> QED BY <1>13, <1>14, <1>18 DEF ListsEntries, Found, Names, linked, read, lines

----------------------------------------------------------------------------
\* A handler serves the file a path names, refuses a path that leaves the root, and does
\* not redirect in a circle.
Serves(h, path) ==
    LET got == FH!Handle(h, path, <<>>)
        names == Followed(path).names
    IN /\ Followed(path).left => got.kind = "refused"
       /\ got.kind = "file" =>
             got.path \in RegularFiles /\ got.path \in {names, Append(names, FH!Index(h))}
       /\ names \in RegularFiles /\ path # <<>> /\ ~FH!EndsWithSlash(PercentDecode(path)) =>
             got.kind \in {"refused", "file"}
       /\ got.kind = "redirect" =>
             FH!Handle(h, got.path, <<>>) = FH!ReadFile(h, Append(names, FH!Index(h)))
       /\ got.kind = "listing" => ListsEntries(path, names)

\* A path that is refused is refused by every handler.
LEMMA RefusedServes ==
    ASSUME NEW X, NEW path \in Seq(X), NEW h, FH!IsRefused(path)
    PROVE  Serves(h, path)
<1>1. FH!Handle(h, path, <<>>) = [kind |-> "refused", path |-> <<>>]
  BY DEF FH!Handle, FH!Declines, FH!Outcome
<1>2. FH!Handle(h, path, <<>>).kind = "refused"
  BY <1>1
<1> QED BY <1>2 DEF Serves

\* An outcome that reads a file.
LEMMA ReadsFile ==
    ASSUME NEW h, NEW path
    PROVE  /\ FH!ReadFile(h, path).kind \in {"file", "missing", "server error"}
           /\ FH!ReadFile(h, path).kind = "file" <=> path \in RegularFiles
           /\ FH!ReadFile(h, path).path = path
  BY DEF FH!ReadFile, FH!Outcome, FH!Failure

\* No directory has the name of an index of spartan or guppy.
LEMMA NoIndexDirectory ==
    ASSUME PlainTree, NEW X, NEW names \in Seq(X), NEW h \in {"spartan", "guppy"}
    PROVE  Append(names, FH!Index(h)) \notin Dirs
<1> DEFINE x == FH!Index(h)
           p == Append(names, x)
<1>1. p # <<>> /\ p[Len(p)] = x
  <2> DEFINE Y == X \cup {x}
  <2>1. names \in Seq(Y) /\ x \in Y
    OBVIOUS
  <2> HIDE DEF Y, x
  <2> QED BY <2>1
<1> HIDE DEF p
<1>2. \A dir \in Dirs \ {<<>>} : Last(dir) \notin {FH!Index("spartan"), FH!Index("guppy")}
  BY DEF PlainTree
<1>3. Last(p) = x
  BY <1>1 DEF Last
<1>4. p \notin Dirs
  BY <1>1, <1>2, <1>3
<1> QED BY <1>4 DEF p

\* A path that does not end with a slash once it is decoded wants no index.
LEMMA NamesAFile ==
    ASSUME NEW X, NEW path \in Seq(X), path # <<>>, ~FH!EndsWithSlash(PercentDecode(path)), NEW h
    PROVE  ~WantsIndex(h, path) /\ ~FH!EndsWithSlash(path)
<1> DEFINE d == PercentDecode(path)
<1>1. Len(path) \in Nat \ {0} /\ DOMAIN path = 1..Len(path)
  OBVIOUS
<1>2. d = [i \in DOMAIN path |-> IF path[i] \in DOMAIN Escapes THEN Escapes[path[i]] ELSE path[i]]
  BY DEF PercentDecode
<1>3. d \in Seq(Plain(X))
  BY Decoded, Zenon
<1>4. FH!PercentDecode(path) = d
  BY SameDocuments
<1> HIDE DEF d
<1>5. Len(d) = Len(path) /\ d # <<>>
  <2>1. DOMAIN d = 1..Len(path)
    BY <1>1, <1>2
  <2> QED BY <1>1, <1>3, <2>1
<1>6. ASSUME FH!EndsWithSlash(path) PROVE FALSE
  <2>1. path[Len(path)] = "/"
    BY <1>6 DEF FH!EndsWithSlash, FH!Last
  <2>2. "/" \notin DOMAIN Escapes
    BY DEF Escapes
  <2>3. d[Len(d)] = "/"
    BY <1>1, <1>2, <1>5, <2>1, <2>2
  <2>4. FH!EndsWithSlash(d)
    BY <1>5, <2>3 DEF FH!EndsWithSlash, FH!Last
  <2> QED BY <2>4 DEF d
<1>7. ~WantsIndex(h, path)
  BY <1>4, <1>5 DEF WantsIndex, d
<1> QED BY <1>6, <1>7

\* What a handler serves for a path that is not refused.
LEMMA AcceptedServes ==
    ASSUME PlainTree, NEW X, NEW path \in Seq(X), NEW h \in FH!Servers, ~FH!IsRefused(path)
    PROVE  Serves(h, path)
<1> DEFINE got == FH!Handle(h, path, <<>>)
           p == FH!Pushed(path)
           x == FH!Index(h)
           r == FH!Resolve(h, path)
<1>1. Followed(path).names = p /\ Followed(path).left = FALSE
  <2>1. \A i \in DOMAIN FH!Segments(path) : FH!Segments(path)[i] # <<".", ".">>
    BY DEF FH!IsRefused, FH!Refuses
  <2>2. Followed(path) = [names |-> p, left |-> FALSE]
    BY <2>1, FollowsPushed
  <2> HIDE DEF p
  <2> QED BY <2>2
<1>2. p \in Seq(Seq(Plain(X)))
  BY PushedMore
<1>3. r = IF WantsIndex(h, path) THEN Append(p, x) ELSE p
  BY Resolves
<1>4. ~FH!Declines(h, path, <<>>)
  BY DEF FH!Declines
<1>5. h \in {"spartan", "nex", "guppy"}
  BY DEF FH!Servers
<1>6. /\ h = "spartan" => got = FH!HandleSpartan(path, r)
      /\ h = "guppy" => got = FH!HandleGuppy(r)
      /\ h = "nex" => got = FH!HandleNex(path, r)
  BY <1>4 DEF FH!Handle
<1> HIDE DEF p, r
<1> DEFINE named == p \in RegularFiles /\ path # <<>> /\ ~FH!EndsWithSlash(PercentDecode(path))
<1>7. named => r = p /\ r \in RegularFiles /\ r \notin Dirs /\ ~FH!EndsWithSlash(path)
  BY <1>3, NamesAFile, Zenon DEF PlainTree
<1> HIDE DEF named
<1>8. SUFFICES /\ got.kind = "file" => got.path \in RegularFiles /\ got.path \in {p, Append(p, x)}
               /\ named => got.kind \in {"refused", "file"}
               /\ got.kind = "redirect" => FH!Handle(h, got.path, <<>>) = FH!ReadFile(h, Append(p, x))
  <2>1. ListsEntries(path, p)
    BY ListingLeads
  <2> HIDE DEF got, x
  <2>2. /\ Followed(path).left => got.kind = "refused"
        /\ got.kind = "file" =>
              got.path \in RegularFiles /\ got.path \in {Followed(path).names, Append(Followed(path).names, x)}
        /\ Followed(path).names \in RegularFiles /\ path # <<>> /\ ~FH!EndsWithSlash(PercentDecode(path)) =>
              got.kind \in {"refused", "file"}
        /\ got.kind = "redirect" =>
              FH!Handle(h, got.path, <<>>) = FH!ReadFile(h, Append(Followed(path).names, x))
        /\ got.kind = "listing" => ListsEntries(path, Followed(path).names)
    BY <1>1, <1>8, <2>1 DEF named
  <2> QED BY <2>2, Zenon DEF Serves, got, x
<1>9. CASE h = "spartan"
  <2>0. Append(p, x) \notin Dirs
    BY <1>2, <1>9, NoIndexDirectory
  <2>1. CASE r \in Dirs
    <3>1. ~WantsIndex(h, path) /\ r = p
      BY <1>3, <2>0, <2>1
    <3> DEFINE more == Append(path, "/")
    <3>2. got = [kind |-> "redirect", path |-> more]
      BY <1>6, <1>9, <2>1 DEF FH!HandleSpartan, FH!Outcome
    <3>3. FH!Handle(h, more, <<>>) = FH!ReadFile(h, Append(p, x))
      <4> DEFINE Y == X \cup {"/"}
      <4>1. more \in Seq(Y)
        <5>1. path \in Seq(Y) /\ "/" \in Y
          OBVIOUS
        <5> HIDE DEF Y
        <5> QED BY <5>1
      <4>2. FH!Pushed(more) = p
        BY PushedMore, Zenon DEF p
      <4>3. ~FH!IsRefused(more)
        BY PushedMore
      <4>4. WantsIndex(h, more)
        <5> DEFINE d == PercentDecode(path)
        <5>1. d \in Seq(Plain(X)) /\ PercentDecode(more) = Append(d, "/")
          BY Decoded, Zenon
        <5> HIDE DEF d
        <5>2. "/" \in Plain(X)
          BY DEF Plain
        <5>3. Append(d, "/") # <<>> /\ Append(d, "/")[Len(Append(d, "/"))] = "/"
          BY <5>1, <5>2
        <5>4. FH!EndsWithSlash(Append(d, "/"))
          BY <5>3 DEF FH!EndsWithSlash, FH!Last
        <5>5. FH!PercentDecode(more) = Append(d, "/")
          BY <5>1, SameDocuments
        <5> QED BY <1>9, <5>4, <5>5, Zenon DEF WantsIndex
      <4> HIDE DEF more, Y
      <4>5. FH!Resolve(h, more) = Append(p, x)
        <5>1. FH!Resolve(h, more) =
                IF WantsIndex(h, more) THEN Append(FH!Pushed(more), FH!Index(h)) ELSE FH!Pushed(more)
          BY <4>1, Resolves
        <5> QED BY <4>2, <4>4, <5>1
      <4>6. FH!Handle(h, more, <<>>) = FH!HandleSpartan(more, Append(p, x))
        BY <1>9, <4>3, <4>5, Zenon DEF FH!Handle, FH!Declines
      <4> QED BY <1>9, <2>0, <4>6 DEF FH!HandleSpartan
    <3> HIDE DEF got, more
    <3>4. got.kind = "redirect" /\ got.path = more
      BY <3>2
    <3>5. ~named
      BY <1>7, <2>1
    <3> QED BY <3>3, <3>4, <3>5
  <2>2. CASE r \notin Dirs
    <3>1. got = FH!ReadFile(h, r)
      BY <1>6, <1>9, <2>2 DEF FH!HandleSpartan
    <3> HIDE DEF got, x
    <3>2. got.kind # "redirect" /\ got.path = r /\ (got.kind = "file" <=> r \in RegularFiles)
      BY <3>1, ReadsFile
    <3>3. named => got.kind = "file"
      BY <1>7, <3>2
    <3> QED BY <1>3, <3>2, <3>3
  <2> QED BY <2>1, <2>2
<1>10. CASE h = "guppy"
  <2>0. Append(p, x) \notin Dirs
    BY <1>2, <1>10, NoIndexDirectory
  <2>1. FH!Index("guppy") = x
    BY <1>10
  <2> DEFINE f == IF r \in Dirs THEN Append(r, x) ELSE r
  <2>2. got = FH!ReadFile(h, f)
    BY <1>6, <1>10, <2>1 DEF FH!HandleGuppy
  <2>3. f \in {p, Append(p, x)}
    BY <1>3, <2>0
  <2>4. named => f \in RegularFiles
    BY <1>7
  <2> HIDE DEF f, got, x
  <2>5. got.kind # "redirect" /\ got.path = f /\ (got.kind = "file" <=> f \in RegularFiles)
    BY <2>2, ReadsFile
  <2> QED BY <2>3, <2>4, <2>5
<1>11. CASE h = "nex"
  <2>1. r = p
    BY <1>3, <1>11 DEF WantsIndex
  <2>2. FH!Index("nex") = x
    BY <1>11
  <2> DEFINE index == Append(p, x)
             k == IF index \in RegularFiles THEN "file" ELSE "listing"
             f == IF index \in RegularFiles THEN index ELSE p
  <2> DEFINE asDirectory == path = <<>> \/ FH!EndsWithSlash(path) \/ p \in Dirs
  <2>3. got = IF asDirectory THEN [kind |-> k, path |-> f] ELSE FH!ReadFile(h, p)
    BY <1>6, <1>11, <2>1, <2>2 DEF FH!HandleNex, FH!Outcome
  <2>4. named => ~asDirectory
    BY <1>7, <2>1 DEF named
  <2> HIDE DEF got, x, asDirectory
  <2>5. CASE asDirectory
    BY <2>3, <2>4, <2>5
  <2>6. CASE ~asDirectory
    <3>1. got = FH!ReadFile(h, p)
      BY <2>3, <2>6
    <3>2. got.kind # "redirect" /\ got.path = p /\ (got.kind = "file" <=> p \in RegularFiles)
      BY <3>1, ReadsFile
    <3>3. named => got.kind = "file"
      BY <1>7, <2>1, <3>2
    <3> QED BY <3>2, <3>3
  <2> QED BY <2>5, <2>6
<1> QED BY <1>5, <1>9, <1>10, <1>11

----------------------------------------------------------------------------
\* An input is made of the pieces of its format.
InputTyped == format \in DOMAIN PiecesOf /\ input \in Seq(PiecesOf[format])

\* Whatever path a request has, and whatever plain tree is served: a handler serves the file
\* that the decoded path names and no other, refuses every path that leaves the root, does
\* not redirect in a circle, and lists the entries of the directory below the path it was
\* sent, which is a link of its own only if it begins like one.
THEOREM HandlersServeFromRoot ==
    ASSUME PlainTree
    PROVE  Spec => []ServedFromRoot
<1>1. Init => InputTyped
  BY DEF Init, InputTyped
<1>2. InputTyped /\ [Next]_(vars) => InputTyped'
  <2> SUFFICES ASSUME InputTyped, [Next]_(vars) PROVE InputTyped'
    OBVIOUS
  <2>1. CASE UNCHANGED vars
    BY <2>1 DEF InputTyped, vars
  <2>2. ASSUME NEW piece \in PiecesOf[format], Grow(piece) PROVE InputTyped'
    BY <2>2 DEF InputTyped, Grow
  <2> QED BY <2>1, <2>2 DEF Next
<1>3. InputTyped => ServedFromRoot
  <2> SUFFICES ASSUME InputTyped, NEW h \in FH!Servers PROVE Serves(h, input)
    BY Zenon DEF ServedFromRoot, Serves
  <2> DEFINE X == PiecesOf[format]
  <2>1. input \in Seq(X)
    BY DEF InputTyped
  <2> HIDE DEF X
  <2>2. CASE FH!IsRefused(input)
    BY <2>1, <2>2, RefusedServes
  <2>3. CASE ~FH!IsRefused(input)
    BY <2>1, <2>3, AcceptedServes
  <2> QED BY <2>2, <2>3
<1> QED BY <1>1, <1>2, <1>3, PTL DEF Spec
=================================================================================
