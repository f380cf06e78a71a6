------------------------------- MODULE LineProofs -------------------------------
(***************************************************************************)
(* What the proofs share: induction over numbers, without the operator     *)
(* parameter that the library theorems of induction have (what is to be    *)
(* shown is a set of numbers, and a recursion is a function from positions *)
(* and values to values), and what the operators of Lines return.          *)
(***************************************************************************)
EXTENDS Lines, SequenceTheorems, NaturalsInduction, WellFoundedInduction, TLAPS

\* A set of natural numbers that is not empty has a least element.
LEMMA LeastNat ==
    ASSUME NEW T \in SUBSET Nat, T # {}
    PROVE  \E n \in T : \A m \in T : n <= m
<1> DEFINE R == OpToRel(<, Nat)
<1>1. IsWellFoundedOn(R, Nat)
  BY NatLessThanWellFounded
<1>2. \E x \in T : \A y \in T : ~(<<y, x>> \in R)
  <2> HIDE DEF R
  <2> QED BY <1>1, WFMin
<1>3. \A x, y \in Nat : <<y, x>> \in R <=> y < x
  BY DEF OpToRel
<1> HIDE DEF R
<1>4. PICK x \in T : \A y \in T : ~(<<y, x>> \in R)
  BY <1>2
<1>5. \A y \in T : x <= y
  <2> SUFFICES ASSUME NEW y \in T PROVE x <= y
    OBVIOUS
  <2>1. ~(y < x) /\ x \in Nat /\ y \in Nat
    BY <1>3, <1>4
  <2> QED BY <2>1
<1> QED BY <1>5

\* What holds of 0 and goes from each number to the next holds up to any bound.
LEMMA CountUp ==
    ASSUME NEW N \in Nat, NEW Holds, 0 \in Holds,
           \A i \in 1..N : i - 1 \in Holds => i \in Holds
    PROVE  \A i \in 0..N : i \in Holds
<1> DEFINE T == {i \in 0..N : i \notin Holds}
<1>1. CASE T # {}
  <2>1. PICK n \in T : \A m \in T : n <= m
    <3>1. T \in SUBSET Nat
      OBVIOUS
    <3> HIDE DEF T
    <3> QED BY <1>1, <3>1, LeastNat
  <2>2. n \in 1..N /\ n \notin Holds /\ n - 1 \in 0..N
    BY <2>1
  <2>3. n - 1 \in Holds
    BY <2>1, <2>2
  <2> QED BY <2>2, <2>3
<1>2. CASE T = {}
  BY <1>2
<1> QED BY <1>1, <1>2

\* The steps of a recursion from one number to the next, and a function made by them.
Steps(S, N) == [1..N -> [S -> S]]
Iterated(g, S, N, base, step) ==
    g \in [0..N -> S] /\ g[0] = base /\ \A i \in 1..N : g[i] = step[i][g[i - 1]]

\* A value at 0 and a step from each number to the next define a function.
LEMMA Iterates ==
    ASSUME NEW S, NEW N \in Nat, NEW base \in S, NEW step, step \in Steps(S, N)
    PROVE  \E g : Iterated(g, S, N, base, step)
<1>0. step \in [1..N -> [S -> S]]
  BY DEF Steps
<1> DEFINE Exists(n) ==
             \E g \in [0..n -> S] : g[0] = base /\ \A i \in 1..n : g[i] = step[i][g[i - 1]]
           Holds == {n \in 0..N : Exists(n)}
<1>1. 0 \in Holds
  <2> DEFINE g == [i \in 0..0 |-> base]
  <2>1. g \in [0..0 -> S] /\ g[0] = base /\ \A i \in 1..0 : g[i] = step[i][g[i - 1]]
    OBVIOUS
  <2> HIDE DEF g
  <2> QED BY <2>1
<1>2. ASSUME NEW n \in 1..N, n - 1 \in Holds
      PROVE  n \in Holds
  <2>1. PICK g \in [0..(n - 1) -> S] :
           g[0] = base /\ \A i \in 1..(n - 1) : g[i] = step[i][g[i - 1]]
    BY <1>2
  <2> DEFINE last == step[n][g[n - 1]]
             h == [i \in 0..n |-> IF i = n THEN last ELSE g[i]]
  <2>2. last \in S
    <3>1. g[n - 1] \in S /\ step[n] \in [S -> S]
      BY <1>0, <2>1
    <3> QED BY <3>1
  <2>3. h[n] = last /\ \A i \in 0..(n - 1) : h[i] = g[i]
    OBVIOUS
  <2>4. h \in [0..n -> S]
    <3> HIDE DEF last
    <3> QED BY <2>1, <2>2
  <2> HIDE DEF h
  <2>5. h[0] = base
    BY <2>1, <2>3
  <2>6. ASSUME NEW i \in 1..n
        PROVE  h[i] = step[i][h[i - 1]]
    <3>1. i - 1 \in 0..(n - 1) /\ (i = n \/ i \in 1..(n - 1))
      OBVIOUS
    <3>2. CASE i = n
      BY <2>3, <3>1, <3>2
    <3>3. CASE i \in 1..(n - 1)
      BY <2>1, <2>3, <3>1, <3>3
    <3> QED BY <3>1, <3>2, <3>3
  <2>7. Exists(n)
    BY <2>4, <2>5, <2>6
  <2> HIDE DEF Exists
  <2> QED BY <2>7
<1>3. \A i \in 0..N : i \in Holds
  <2> HIDE DEF Holds
  <2> QED BY <1>1, <1>2, CountUp
<1>4. N \in Holds
  BY <1>3
<1> QED BY <1>4 DEF Iterated
----------------------------------------------------------------------------
(* Positions, prefixes and pieces.                                         *)

\* A first position is one of them, and none is before it.
LEMMA FirstPosition ==
    ASSUME NEW at \in SUBSET Nat
    PROVE  /\ at = {} => FirstOf(at) = 0
           /\ at # {} => FirstOf(at) \in at /\ \A j \in at : FirstOf(at) <= j
<1>1. CASE at # {}
  <2>1. \E i \in at : \A j \in at : i <= j
    BY <1>1, LeastNat
  <2> QED BY <1>1, <2>1 DEF FirstOf
<1>2. CASE at = {}
  BY <1>2 DEF FirstOf
<1> QED BY <1>1, <1>2

\* A last position is one of them, and none is after it.
LEMMA LastPosition ==
    ASSUME NEW n \in Nat, NEW at \in SUBSET (1..n)
    PROVE  /\ at = {} => LastOf(at) = 0
           /\ at # {} => LastOf(at) \in at /\ \A j \in at : j <= LastOf(at)
<1>1. CASE at # {}
  <2> DEFINE back == {n - i : i \in at}
  <2>1. back \in SUBSET Nat /\ back # {}
    <3>1. \A i \in at : n - i \in Nat
      <4> SUFFICES ASSUME NEW i \in at PROVE n - i \in Nat
        OBVIOUS
      <4>1. i \in 1..n
        OBVIOUS
      <4> QED BY <4>1
    <3>2. PICK i \in at : TRUE
      BY <1>1
    <3> QED BY <3>1, <3>2
  <2>2. PICK m \in back : \A k \in back : m <= k
    <3> HIDE DEF back
    <3> QED BY <2>1, LeastNat
  <2>3. PICK i \in at : m = n - i
    BY <2>2
  <2>4. \A j \in at : j <= i
    <3> SUFFICES ASSUME NEW j \in at PROVE j <= i
      OBVIOUS
    <3>1. n - j \in back
      OBVIOUS
    <3>2. n - i <= n - j
      BY <2>2, <2>3, <3>1
    <3>3. i \in 1..n /\ j \in 1..n
      OBVIOUS
    <3> QED BY <3>2, <3>3
  <2>5. \E k \in at : \A j \in at : j <= k
    BY <2>4
  <2> QED BY <1>1, <2>5 DEF LastOf
<1>2. CASE at = {}
  BY <1>2 DEF LastOf
<1> QED BY <1>1, <1>2

\* The first bytes of a stream.
LEMMA FirstBytes ==
    ASSUME NEW X, NEW s \in Seq(X), NEW k \in 0..Len(s)
    PROVE  /\ SubSeq(s, 1, k) \in Seq(X) /\ Len(SubSeq(s, 1, k)) = k
           /\ \A i \in 1..k : SubSeq(s, 1, k)[i] = s[i]
<1>1. k \in Nat /\ k <= Len(s) /\ Len(s) \in Nat
  OBVIOUS
<1> QED BY <1>1

\* The walk over the positions that InOrder makes.
Walked(w, at, n) ==
    /\ w \in [0..n -> Seq(Int)]
    /\ InOrder(at, n) = w[n] /\ w[0] = <<>>
    /\ \A i \in 1..n : w[i] = IF i \in at THEN Append(w[i - 1], i) ELSE w[i - 1]

\* InOrder is a walk over the positions.
LEMMA OrderWalk ==
    ASSUME NEW n \in Nat, NEW at
    PROVE  \E w : Walked(w, at, n)
<1> DEFINE R == Seq(Int)
           Next1(v, i) == IF i \in at THEN Append(v, i) ELSE v
           step == [i \in 1..n |-> [v \in R |-> Next1(v, i)]]
           Walk(g) == [i \in 0..n |-> IF i = 0 THEN <<>>
                                      ELSE IF i \in at THEN Append(g[i - 1], i) ELSE g[i - 1]]
           walked == CHOOSE positions : positions = Walk(positions)
<1>1. <<>> \in R /\ \A v \in R, i \in 1..n : Next1(v, i) \in R
  OBVIOUS
<1>2. step \in Steps(R, n)
  <2> HIDE DEF R, Next1
  <2> QED BY <1>1 DEF Steps
<1>3. PICK g : Iterated(g, R, n, <<>>, step)
  <2> HIDE DEF step, R
  <2> QED BY <1>1, <1>2, Iterates
<1>4. g \in [0..n -> R] /\ g[0] = <<>>
  BY <1>3 DEF Iterated
<1>5. ASSUME NEW i \in 1..n
      PROVE  g[i] = Next1(g[i - 1], i)
  <2>1. g[i] = step[i][g[i - 1]]
    <3> HIDE DEF step, R
    <3> QED BY <1>3 DEF Iterated
  <2>2. g[i - 1] \in R
    <3> HIDE DEF R
    <3> QED BY <1>4
  <2> HIDE DEF R
  <2> QED BY <2>1, <2>2
<1>6. \A i \in 0..n : g[i] = Walk(g)[i]
  <2> SUFFICES ASSUME NEW i \in 0..n PROVE g[i] = Walk(g)[i]
    OBVIOUS
  <2> HIDE DEF R
  <2>1. CASE i = 0
    BY <1>4, <2>1
  <2>2. CASE i # 0
    <3>1. i \in 1..n
      BY <2>2
    <3>2. g[i] = Next1(g[i - 1], i)
      BY <1>5, <3>1
    <3> QED BY <2>2, <3>2
  <2> QED BY <2>1, <2>2
<1>7. g = Walk(g)
  <2> HIDE DEF R
  <2> QED BY <1>4, <1>6
<1>8. walked = Walk(walked)
  <2> HIDE DEF Walk
  <2> QED BY <1>7
<1>9. InOrder(at, n) = walked[n]
  BY DEF InOrder
<1> HIDE DEF walked
<1>10. /\ DOMAIN walked = 0..n /\ walked = [i \in 0..n |-> walked[i]]
       /\ \A i \in 0..n : walked[i] = Walk(walked)[i]
  <2>1. DOMAIN Walk(walked) = 0..n /\ Walk(walked) = [i \in 0..n |-> Walk(walked)[i]]
    OBVIOUS
  <2> HIDE DEF Walk
  <2> QED BY <1>8, <2>1
<1>11. walked[0] = <<>> /\ \A i \in 1..n : walked[i] = Next1(walked[i - 1], i)
  BY <1>10
<1> HIDE DEF Walk
<1> DEFINE Holds == {i \in 0..n : walked[i] \in R}
<1>12. \A i \in 0..n : i \in Holds
  <2>1. 0 \in Holds
    <3> HIDE DEF R, Next1
    <3> QED BY <1>1, <1>11
  <2>2. ASSUME NEW i \in 1..n, i - 1 \in Holds
        PROVE  i \in Holds
    <3> HIDE DEF R, Next1
    <3>1. walked[i] \in R
      BY <1>1, <1>11, <2>2
    <3> QED BY <3>1
  <2> HIDE DEF Holds
  <2> QED BY <2>1, <2>2, CountUp
<1>13. walked \in [0..n -> R]
  <2> HIDE DEF R
  <2> QED BY <1>10, <1>12
<1>14. \A i \in 1..n : walked[i] = IF i \in at THEN Append(walked[i - 1], i) ELSE walked[i - 1]
  BY <1>11
<1> HIDE DEF Next1, Holds
<1>15. Walked(walked, at, n)
  BY <1>9, <1>11, <1>13, <1>14 DEF Walked
<1> QED BY <1>15

\* Positions in order are positions, and each is before the next.
Sorted(q, n) ==
    q \in Seq(1..n) /\ \A i, j \in 1..Len(q) : i < j => q[i] < q[j]

\* InOrder puts positions in order.
LEMMA OrderSorted ==
    ASSUME NEW n \in Nat, NEW at
    PROVE  Sorted(InOrder(at, n), n)
<1>1. PICK walked : Walked(walked, at, n)
  BY OrderWalk
<1>2. walked[0] = <<>> /\ InOrder(at, n) = walked[n]
  BY <1>1 DEF Walked
<1>3. \A i \in 1..n : walked[i] = IF i \in at THEN Append(walked[i - 1], i) ELSE walked[i - 1]
  BY <1>1 DEF Walked
<1> DEFINE Holds == {i \in 0..n : Sorted(walked[i], i)}
<1>4. 0 \in Holds
  <2>1. <<>> \in Seq(1..0) /\ Len(<<>>) = 0
    OBVIOUS
  <2>2. Sorted(<<>>, 0)
    BY <2>1 DEF Sorted
  <2> QED BY <1>2, <2>2
<1>5. ASSUME NEW i \in 1..n, i - 1 \in Holds
       PROVE  i \in Holds
  <2> DEFINE v == walked[i - 1]
  <2>1. v \in Seq(1..(i - 1)) /\ \A a, b \in 1..Len(v) : a < b => v[a] < v[b]
    BY <1>5 DEF Sorted
  <2>2. walked[i] = IF i \in at THEN Append(v, i) ELSE v
    BY <1>3
  <2> HIDE DEF v
  <2>3. v \in Seq(1..i) /\ \A a \in 1..Len(v) : v[a] \in 1..(i - 1)
    BY <2>1
  <2>4. CASE i \in at
    <3> DEFINE w == Append(v, i)
    <3>1. /\ w \in Seq(1..i) /\ Len(w) = Len(v) + 1 /\ w[Len(v) + 1] = i
          /\ \A a \in 1..Len(v) : w[a] = v[a]
      BY <2>3
    <3>2. Len(v) \in Nat
      BY <2>3
    <3> HIDE DEF w
    <3>3. ASSUME NEW a \in 1..Len(w), NEW b \in 1..Len(w), a < b
          PROVE  w[a] < w[b]
      <4>0. Len(w) = Len(v) + 1
        BY <3>1
      <4>1. a \in 1..Len(v) /\ (b \in 1..Len(v) \/ b = Len(v) + 1)
        BY <3>2, <3>3, <4>0
      <4>2. w[a] = v[a] /\ v[a] \in 1..(i - 1)
        BY <2>3, <3>1, <4>1
      <4>3. CASE b \in 1..Len(v)
        BY <2>1, <3>1, <3>3, <4>1, <4>3
      <4>4. CASE b = Len(v) + 1
        BY <3>1, <4>2, <4>4
      <4> QED BY <4>1, <4>3, <4>4
    <3>4. Sorted(w, i)
      BY <3>1, <3>3 DEF Sorted
    <3>5. walked[i] = w
      BY <2>2, <2>4 DEF w
    <3>6. Sorted(walked[i], i)
      BY <3>4, <3>5
    <3> QED BY <3>6
  <2>5. CASE i \notin at
    BY <2>1, <2>2, <2>3, <2>5 DEF Sorted
  <2> QED BY <2>4, <2>5
<1>6. \A i \in 0..n : i \in Holds
  <2> HIDE DEF Holds
  <2> QED BY <1>4, <1>5, CountUp
<1>7. n \in Holds
  BY <1>6
<1> QED BY <1>2, <1>7

\* Two walks that agree on what is at the positions are the same.
LEMMA OrderSame ==
    ASSUME NEW n \in Nat, NEW at, NEW bt, \A i \in 1..n : i \in at <=> i \in bt
    PROVE  InOrder(at, n) = InOrder(bt, n)
<1>1. PICK w : Walked(w, at, n)
  BY OrderWalk
<1>2. PICK v : Walked(v, bt, n)
  BY OrderWalk
<1> DEFINE Holds == {i \in 0..n : w[i] = v[i]}
<1>3. 0 \in Holds
  BY <1>1, <1>2 DEF Walked
<1>4. ASSUME NEW i \in 1..n, i - 1 \in Holds
      PROVE  i \in Holds
  <2>1. w[i - 1] = v[i - 1]
    BY <1>4
  <2>2. w[i] = v[i]
    BY <1>1, <1>2, <2>1 DEF Walked
  <2> QED BY <2>2
<1>5. \A i \in 0..n : i \in Holds
  <2> HIDE DEF Holds
  <2> QED BY <1>3, <1>4, CountUp
<1>6. w[n] = v[n]
  BY <1>5
<1> QED BY <1>1, <1>2, <1>6 DEF Walked

\* There is no position up to 0.
LEMMA OrderNone ==
    ASSUME NEW at
    PROVE  InOrder(at, 0) = <<>>
<1>1. PICK w : Walked(w, at, 0)
  BY OrderWalk
<1> QED BY <1>1 DEF Walked

\* The positions up to n + 1 are those up to n, and n + 1 if it is one.
LEMMA OrderStep ==
    ASSUME NEW at, NEW m \in Nat
    PROVE  /\ m + 1 \in at => InOrder(at, m + 1) = Append(InOrder(at, m), m + 1)
           /\ m + 1 \notin at => InOrder(at, m + 1) = InOrder(at, m)
<1> DEFINE n == m + 1
<1>0. m \in Nat /\ n \in Nat /\ n = m + 1 /\ m = n - 1
  OBVIOUS
<1> HIDE DEF n
<1>1. PICK w : Walked(w, at, n)
  BY <1>0, OrderWalk
<1>2. PICK v : Walked(v, at, m)
  BY <1>0, OrderWalk
<1> DEFINE Holds == {i \in 0..m : w[i] = v[i]}
<1>3. 0 \in Holds
  BY <1>0, <1>1, <1>2 DEF Walked
<1>4. ASSUME NEW i \in 1..m, i - 1 \in Holds
      PROVE  i \in Holds
  <2>1. w[i - 1] = v[i - 1] /\ i \in 1..n
    BY <1>0, <1>4
  <2>2. w[i] = v[i]
    BY <1>1, <1>2, <2>1 DEF Walked
  <2> QED BY <2>2
<1>5. \A i \in 0..m : i \in Holds
  <2> HIDE DEF Holds
  <2> QED BY <1>0, <1>3, <1>4, CountUp
<1>6. w[m] = v[m]
  BY <1>0, <1>5
<1>7. w[n] = IF n \in at THEN Append(w[m], n) ELSE w[m]
  BY <1>0, <1>1 DEF Walked
<1>8. InOrder(at, n) = w[n] /\ InOrder(at, m) = v[m]
  BY <1>1, <1>2 DEF Walked
<1> QED BY <1>0, <1>6, <1>7, <1>8

\* InOrder leaves no position out and adds none.
LEMMA OrderRange ==
    ASSUME NEW n \in Nat, NEW at
    PROVE  \A k : (\E i \in 1..Len(InOrder(at, n)) : InOrder(at, n)[i] = k) <=> k \in at /\ k \in 1..n
<1> DEFINE Q(m) == InOrder(at, m)
           Has(m) == \A k : (\E i \in 1..Len(Q(m)) : Q(m)[i] = k) <=> k \in at /\ k \in 1..m
           Holds == {m \in 0..n : Has(m)}
<1>1. 0 \in Holds
  <2>1. InOrder(at, 0) = <<>>
    BY OrderNone
  <2>2. Has(0)
    BY <2>1
  <2> HIDE DEF Has
  <2> QED BY <2>2
<1>2. ASSUME NEW m \in 1..n, m - 1 \in Holds
      PROVE  m \in Holds
  <2>1. Q(m) = IF m \in at THEN Append(Q(m - 1), m) ELSE Q(m - 1)
    <3> DEFINE k == m - 1
    <3>1. k \in Nat /\ m = k + 1
      OBVIOUS
    <3>2. Q(k + 1) = IF k + 1 \in at THEN Append(Q(k), k + 1) ELSE Q(k)
      <4> HIDE DEF k
      <4> QED BY <3>1, OrderStep
    <3> QED BY <3>1, <3>2
  <2>2. Has(m - 1)
    <3> HIDE DEF Has
    <3> QED BY <1>2
  <2>3. m - 1 \in Nat /\ m \in Nat
    OBVIOUS
  <2>4. Q(m - 1) \in Seq(1..(m - 1))
    BY <2>3, OrderSorted DEF Sorted
  <2> DEFINE q == Q(m - 1)
             r == Q(m)
  <2>5. q \in Seq(1..(m - 1)) /\ Len(q) \in Nat /\ r = IF m \in at THEN Append(q, m) ELSE q
    BY <2>1, <2>4
  <2>6. \A k : (\E i \in 1..Len(q) : q[i] = k) <=> k \in at /\ k \in 1..(m - 1)
    BY <2>2
  <2> HIDE DEF Q, q, r
  <2>7. \A k : (\E i \in 1..Len(r) : r[i] = k) <=> k \in at /\ k \in 1..m
    <3>0. \A k : k \in 1..m <=> k \in 1..(m - 1) \/ k = m
      BY <2>3
    <3>1. CASE m \in at
      <4>1. Len(r) = Len(q) + 1 /\ r[Len(q) + 1] = m /\ \A i \in 1..Len(q) : r[i] = q[i]
        BY <2>5, <3>1
      <4>2. \A i : i \in 1..Len(r) <=> i \in 1..Len(q) \/ i = Len(q) + 1
        BY <2>5, <4>1
      <4> SUFFICES ASSUME NEW k
                   PROVE  (\E i \in 1..Len(r) : r[i] = k) <=> k \in at /\ k \in 1..m
        OBVIOUS
      <4>3. ASSUME NEW i \in 1..Len(r), r[i] = k PROVE k \in at /\ k \in 1..m
        <5>1. CASE i \in 1..Len(q)
          BY <2>6, <3>0, <4>1, <4>3, <5>1
        <5>2. CASE i = Len(q) + 1
          BY <3>0, <3>1, <4>1, <4>3, <5>2
        <5> QED BY <4>2, <5>1, <5>2
      <4>4. ASSUME k \in at, k \in 1..m PROVE \E i \in 1..Len(r) : r[i] = k
        <5>1. CASE k = m
          BY <4>1, <4>2, <5>1
        <5>2. CASE k \in 1..(m - 1)
          <6>1. PICK i \in 1..Len(q) : q[i] = k
            BY <2>6, <4>4, <5>2
          <6>2. i \in 1..Len(r) /\ r[i] = k
            BY <4>1, <4>2, <6>1
          <6> QED BY <6>2
        <5> QED BY <3>0, <4>4, <5>1, <5>2
      <4> QED BY <4>3, <4>4
    <3>2. CASE m \notin at
      <4>1. r = q
        BY <2>5, <3>2
      <4> QED BY <2>6, <3>0, <3>2, <4>1
    <3> QED BY <3>1, <3>2
  <2>8. Has(m)
    BY <2>7 DEF r
  <2> HIDE DEF Has
  <2> QED BY <2>8
<1>3. \A m \in 0..n : m \in Holds
  <2> HIDE DEF Holds
  <2> QED BY <1>1, <1>2, CountUp
<1>4. Has(n)
  <2> HIDE DEF Has
  <2> QED BY <1>3
<1> QED BY <1>4

\* A part of a text is text.
LEMMA PartTyped ==
    ASSUME NEW X, NEW s \in Seq(X), NEW a \in Int, NEW b \in Int, 1 <= a, b <= Len(s)
    PROVE  SubSeq(s, a, b) \in Seq(X)
<1>1. CASE a <= b
  BY <1>1
<1>2. CASE b < a
  <2>1. SubSeq(s, a, b) = <<>>
    BY <1>2
  <2> QED BY <2>1
<1> QED BY <1>1, <1>2

\* The pieces of a text are texts, one more than there are separators.
LEMMA PiecesTyped ==
    ASSUME NEW X, NEW s \in Seq(X), NEW q, Sorted(q, Len(s))
    PROVE  Pieces(s, q) \in Seq(Seq(X)) /\ Len(Pieces(s, q)) = Len(q) + 1
<1> DEFINE n == Len(s)
           bounds == <<0>> \o q \o <<n + 1>>
           m == Len(bounds) - 1
           piece(i) == SubSeq(s, bounds[i] + 1, bounds[i + 1] - 1)
<1>1. n \in Nat /\ q \in Seq(1..n) /\ q \in Seq(0..(n + 1)) /\ Len(q) \in Nat
  BY DEF Sorted
<1>2. bounds \in Seq(0..(n + 1)) /\ Len(bounds) = Len(q) + 2
  <2>1. <<0>> \in Seq(0..(n + 1)) /\ <<n + 1>> \in Seq(0..(n + 1)) /\ Len(<<0>>) = 1 /\ Len(<<n + 1>>) = 1
    BY <1>1
  <2> QED BY <1>1, <2>1, ConcatProperties
<1>3. Pieces(s, q) = [i \in 1..m |-> piece(i)]
  BY DEF Pieces
<1>4. m = Len(q) + 1 /\ m \in Nat
  BY <1>1, <1>2
<1>5. ASSUME NEW i \in 1..m
      PROVE  piece(i) \in Seq(X)
  <2>1. i \in 1..Len(bounds) /\ i + 1 \in 1..Len(bounds)
    BY <1>2, <1>4
  <2>2. bounds[i] \in 0..(n + 1) /\ bounds[i + 1] \in 0..(n + 1)
    <3> HIDE DEF bounds
    <3> QED BY <1>1, <1>2, <2>1
  <2> HIDE DEF bounds
  <2> QED BY <1>1, <2>2, PartTyped
<1> HIDE DEF piece, m
<1>6. [i \in 1..m |-> piece(i)] \in Seq(Seq(X)) /\ Len([i \in 1..m |-> piece(i)]) = m
  BY <1>4, <1>5
<1> QED BY <1>3, <1>4, <1>6

\* split and splitn give texts, and at least one.
LEMMA SplitTexts ==
    ASSUME NEW X, NEW s \in Seq(X), NEW c
    PROVE  /\ Split(s, c) \in Seq(Seq(X)) /\ Len(Split(s, c)) >= 1
           /\ \A n \in Nat \ {0} : SplitN(s, c, n) \in Seq(Seq(X)) /\ Len(SplitN(s, c, n)) >= 1
<1> DEFINE q == InOrder({i \in DOMAIN s : s[i] = c}, Len(s))
<1>0. Len(s) \in Nat
  OBVIOUS
<1>1. Sorted(q, Len(s))
  BY <1>0, OrderSorted
<1>2. Split(s, c) = Pieces(s, q)
  BY DEF Split
<1>3. ASSUME NEW n \in Nat \ {0}
      PROVE  SplitN(s, c, n) \in Seq(Seq(X)) /\ Len(SplitN(s, c, n)) >= 1
  <2> DEFINE k == IF Len(q) < n THEN Len(q) ELSE n - 1
             r == SubSeq(q, 1, k)
  <2>1. SplitN(s, c, n) = Pieces(s, r)
    BY DEF SplitN
  <2> HIDE DEF q
  <2>2. q \in Seq(1..Len(s)) /\ Len(q) \in Nat /\ \A i, j \in 1..Len(q) : i < j => q[i] < q[j]
    BY <1>1 DEF Sorted
  <2>3. k \in 0..Len(q)
    BY <2>2
  <2> HIDE DEF k
  <2>4. r \in Seq(1..Len(s)) /\ Len(r) = k /\ \A i \in 1..k : r[i] = q[i]
    BY <2>2, <2>3, FirstBytes
  <2> HIDE DEF r
  <2>5. ASSUME NEW i \in 1..Len(r), NEW j \in 1..Len(r), i < j
        PROVE  r[i] < r[j]
    <3>1. i \in 1..Len(q) /\ j \in 1..Len(q) /\ r[i] = q[i] /\ r[j] = q[j]
      BY <2>2, <2>3, <2>4
    <3> QED BY <2>2, <2>5, <3>1
  <2>6. Sorted(r, Len(s))
    BY <2>4, <2>5 DEF Sorted
  <2>7. Pieces(s, r) \in Seq(Seq(X)) /\ Len(Pieces(s, r)) = Len(r) + 1
    BY <2>6, PiecesTyped
  <2> QED BY <2>1, <2>3, <2>4, <2>7
<1>4. Split(s, c) \in Seq(Seq(X)) /\ Len(Split(s, c)) = Len(q) + 1 /\ Len(q) \in Nat
  <2> HIDE DEF q
  <2>1. Len(q) \in Nat
    BY <1>1 DEF Sorted
  <2> QED BY <1>1, <1>2, <2>1, PiecesTyped
<1> QED BY <1>3, <1>4

\* trim_end leaves a text.
LEMMA TrimTyped ==
    ASSUME NEW X, NEW s \in Seq(X), NEW cut
    PROVE  TrimEnd(s, cut) \in Seq(X)
<1> DEFINE at == {i \in DOMAIN s : s[i] \notin cut}
<1>1. Len(s) \in Nat /\ at \in SUBSET (1..Len(s))
  OBVIOUS
<1>2. TrimEnd(s, cut) = SubSeq(s, 1, LastOf(at))
  BY DEF TrimEnd
<1> HIDE DEF at
<1>3. LastOf(at) \in 0..Len(s)
  <2> DEFINE n == Len(s)
  <2>1. n \in Nat /\ at \in SUBSET (1..n)
    BY <1>1
  <2> HIDE DEF n
  <2>2. /\ at = {} => LastOf(at) = 0
        /\ at # {} => LastOf(at) \in at
    BY <2>1, LastPosition
  <2>3. LastOf(at) \in 0..n
    <3>1. CASE at = {}
      BY <2>1, <2>2, <3>1
    <3>2. CASE at # {}
      <4>1. LastOf(at) \in 1..n
        BY <2>1, <2>2, <3>2
      <4> QED BY <2>1, <4>1
    <3> QED BY <3>1, <3>2
  <2> QED BY <2>3 DEF n
<1> QED BY <1>2, <1>3, FirstBytes

\* A number that is well formed is a natural number.
LEMMA NumberTyped ==
    ASSUME NEW X, NEW s \in Seq(X), IsNumber(s)
    PROVE  Number(s) \in Nat
<1> DEFINE d == Unsigned(s)
           n == Len(d)
           step == [i \in 1..n |-> [v \in Nat |-> 10 * v + DigitValue(d[i])]]
           Walk(g) == [i \in 0..n |-> IF i = 0 THEN 0 ELSE 10 * g[i - 1] + DigitValue(d[i])]
           walked == CHOOSE value : value = Walk(value)
<1>1. d \in Seq(X) /\ n \in Nat
  <2>1. s # <<>> => Tail(s) \in Seq(X)
    OBVIOUS
  <2>2. Unsigned(s) \in Seq(X)
    BY <2>1 DEF Unsigned
  <2> HIDE DEF d
  <2>3. d \in Seq(X)
    BY <2>2 DEF d
  <2> QED BY <2>3
<1>2. \A i \in 1..n : DigitValue(d[i]) \in Nat
  <2> SUFFICES ASSUME NEW i \in 1..n PROVE DigitValue(d[i]) \in Nat
    OBVIOUS
  <2>1. IsDigit(d[i])
    <3>1. i \in DOMAIN d
      BY <1>1
    <3> QED BY <3>1 DEF IsNumber
  <2> HIDE DEF d
  <2>2. \E k \in 0..9 : Digits[k + 1] = d[i]
    <3>1. \A x \in {"0", "1", "2", "3", "4", "5", "6", "7", "8", "9"} : \E k \in 0..9 : Digits[k + 1] = x
      <4>1. /\ Digits[0 + 1] = "0" /\ Digits[1 + 1] = "1" /\ Digits[2 + 1] = "2" /\ Digits[3 + 1] = "3"
            /\ Digits[4 + 1] = "4" /\ Digits[5 + 1] = "5" /\ Digits[6 + 1] = "6" /\ Digits[7 + 1] = "7"
            /\ Digits[8 + 1] = "8" /\ Digits[9 + 1] = "9"
        BY DEF Digits
      <4> QED BY <4>1
    <3> QED BY <2>1, <3>1 DEF IsDigit
  <2>3. DigitValue(d[i]) \in 0..9
    BY <2>2 DEF DigitValue
  <2> QED BY <2>3
<1>3. Number(s) = walked[n]
  BY DEF Number
<1> HIDE DEF d
<1>4. step \in Steps(Nat, n)
  <2>1. \A i \in 1..n, v \in Nat : 10 * v + DigitValue(d[i]) \in Nat
    BY <1>2
  <2> QED BY <2>1 DEF Steps
<1>5. PICK g : Iterated(g, Nat, n, 0, step)
  <2> HIDE DEF step, n
  <2> QED BY <1>1, <1>4, Iterates
<1>6. g \in [0..n -> Nat] /\ g[0] = 0
  BY <1>5 DEF Iterated
<1>7. ASSUME NEW i \in 1..n
      PROVE  g[i] = 10 * g[i - 1] + DigitValue(d[i])
  <2>1. g[i] = step[i][g[i - 1]]
    <3> HIDE DEF step
    <3> QED BY <1>5 DEF Iterated
  <2>2. g[i - 1] \in Nat
    BY <1>1, <1>6
  <2> QED BY <2>1, <2>2
<1>8. g = Walk(g)
  <2>1. \A i \in 0..n : g[i] = Walk(g)[i]
    <3> SUFFICES ASSUME NEW i \in 0..n PROVE g[i] = Walk(g)[i]
      OBVIOUS
    <3>1. CASE i = 0
      BY <1>6, <3>1
    <3>2. CASE i # 0
      <4>1. i \in 1..n
        BY <1>1, <3>2
      <4>2. g[i] = 10 * g[i - 1] + DigitValue(d[i])
        BY <1>7, <4>1
      <4> QED BY <3>2, <4>2
    <3> QED BY <3>1, <3>2
  <2> QED BY <1>6, <2>1
<1>9. walked = Walk(walked)
  <2> HIDE DEF Walk
  <2> QED BY <1>8
<1> HIDE DEF walked
<1>10. \A i \in 0..n : walked[i] = Walk(walked)[i]
  <2> HIDE DEF Walk
  <2> QED BY <1>9
<1>11. walked[0] = 0 /\ \A i \in 1..n : walked[i] = 10 * walked[i - 1] + DigitValue(d[i])
  BY <1>1, <1>10
<1> HIDE DEF Walk, step
<1> DEFINE Holds == {i \in 0..n : walked[i] \in Nat}
<1>12. 0 \in Holds
  BY <1>1, <1>11
<1>13. ASSUME NEW i \in 1..n, i - 1 \in Holds
       PROVE  i \in Holds
  <2>1. walked[i - 1] \in Nat /\ DigitValue(d[i]) \in Nat
    BY <1>2, <1>13
  <2>2. walked[i] = 10 * walked[i - 1] + DigitValue(d[i])
    BY <1>11
  <2>3. walked[i] \in Nat
    BY <2>1, <2>2
  <2> QED BY <1>1, <2>3
<1>14. \A i \in 0..n : i \in Holds
  <2> HIDE DEF Holds, n
  <2> QED BY <1>1, <1>12, <1>13, CountUp
<1>15. n \in Holds
  BY <1>1, <1>14
<1> QED BY <1>3, <1>15

----------------------------------------------------------------------------
(* Filtering and splitting.                                               *)

\* What is picked comes from the text, each element at one of the positions.
LEMMA PickedFrom ==
    ASSUME NEW X, NEW s \in Seq(X), NEW at
    PROVE  /\ Picked(s, at) \in Seq(X)
           /\ \A i \in DOMAIN Picked(s, at) : \E k \in DOMAIN s : k \in at /\ Picked(s, at)[i] = s[k]
           /\ \A k \in DOMAIN s : k \in at => \E i \in DOMAIN Picked(s, at) : Picked(s, at)[i] = s[k]
<1> DEFINE n == Len(s)
           q == InOrder(at, n)
<1>1. n \in Nat /\ DOMAIN s = 1..n
  OBVIOUS
<1>2. q \in Seq(1..n) /\ Len(q) \in Nat /\ DOMAIN q = 1..Len(q)
  <2>1. q \in Seq(1..n)
    BY <1>1, OrderSorted DEF Sorted
  <2> HIDE DEF q
  <2> QED BY <2>1
<1>3. \A k : (\E i \in 1..Len(q) : q[i] = k) <=> k \in at /\ k \in 1..n
  <2> HIDE DEF n
  <2> QED BY <1>1, OrderRange
<1>4. Picked(s, at) = [i \in DOMAIN q |-> s[q[i]]]
  BY DEF Picked
<1> HIDE DEF q
<1> DEFINE p == [i \in 1..Len(q) |-> s[q[i]]]
<1>5. Picked(s, at) = p
  BY <1>2, <1>4
<1>6. \A i \in 1..Len(q) : q[i] \in 1..n /\ s[q[i]] \in X
  <2> SUFFICES ASSUME NEW i \in 1..Len(q) PROVE q[i] \in 1..n /\ s[q[i]] \in X
    OBVIOUS
  <2>1. q[i] \in 1..n
    BY <1>2
  <2> QED BY <1>1, <2>1
<1>7. p \in Seq(X) /\ DOMAIN p = 1..Len(q) /\ \A i \in 1..Len(q) : p[i] = s[q[i]]
  BY <1>2, <1>6
<1> HIDE DEF p
<1> HIDE DEF n
<1>8. ASSUME NEW i \in DOMAIN p
      PROVE  \E k \in DOMAIN s : k \in at /\ p[i] = s[k]
  <2>1. i \in 1..Len(q) /\ p[i] = s[q[i]]
    BY <1>7, <1>8
  <2>2. q[i] \in at /\ q[i] \in 1..n
    BY <1>3, <2>1
  <2> QED BY <1>1, <2>1, <2>2
<1>9. ASSUME NEW k \in DOMAIN s, k \in at
      PROVE  \E i \in DOMAIN p : p[i] = s[k]
  <2>1. PICK i \in 1..Len(q) : q[i] = k
    BY <1>1, <1>3, <1>9
  <2> QED BY <1>7, <2>1
<1> QED BY <1>5, <1>7, <1>8, <1>9

\* Picking from a longer text, and at the same positions.
LEMMA PickedStep ==
    ASSUME NEW X, NEW s \in Seq(X), NEW e \in X, NEW at
    PROVE  Picked(Append(s, e), at) =
              IF Len(s) + 1 \in at THEN Append(Picked(s, at), e) ELSE Picked(s, at)
<1> DEFINE n == Len(s)
           q == InOrder(at, n)
           r == InOrder(at, n + 1)
           z == Append(s, e)
<1>1. n \in Nat /\ n + 1 \in Nat \ {0} /\ n + 1 - 1 = n
  OBVIOUS
<1>2. z \in Seq(X) /\ Len(z) = n + 1 /\ z[n + 1] = e /\ \A i \in 1..n : z[i] = s[i]
  OBVIOUS
<1>3. Picked(s, at) = [i \in DOMAIN q |-> s[q[i]]]
  BY DEF Picked
<1>4. Picked(z, at) = [i \in DOMAIN r |-> z[r[i]]]
  BY <1>2 DEF Picked
<1>5. r = IF n + 1 \in at THEN Append(q, n + 1) ELSE q
  <2> HIDE DEF n
  <2> QED BY <1>1, OrderStep
<1>6. q \in Seq(1..n)
  BY <1>1, OrderSorted DEF Sorted
<1> HIDE DEF q, r, z
<1>7. Len(q) \in Nat /\ DOMAIN q = 1..Len(q) /\ \A i \in 1..Len(q) : q[i] \in 1..n
  BY <1>6
<1> DEFINE ps == [i \in 1..Len(q) |-> s[q[i]]]
<1>8. Picked(s, at) = ps
  BY <1>3, <1>7
<1>9. CASE n + 1 \in at
  <2>1. r = Append(q, n + 1)
    BY <1>5, <1>9
  <2>2. /\ Len(r) = Len(q) + 1 /\ DOMAIN r = 1..(Len(q) + 1) /\ r[Len(q) + 1] = n + 1
        /\ \A i \in 1..Len(q) : r[i] = q[i]
    BY <1>6, <1>7, <2>1
  <2> DEFINE pz == [i \in 1..(Len(q) + 1) |-> z[r[i]]]
  <2>3. Picked(z, at) = pz
    BY <1>4, <2>2
  <2>4. \A i \in 1..Len(q) : ps[i] = s[q[i]] /\ s[q[i]] \in X /\ pz[i] = ps[i]
    <3> SUFFICES ASSUME NEW i \in 1..Len(q)
                 PROVE  ps[i] = s[q[i]] /\ s[q[i]] \in X /\ pz[i] = ps[i]
      OBVIOUS
    <3>1. q[i] \in 1..n /\ r[i] = q[i]
      BY <1>7, <2>2
    <3>2. z[q[i]] = s[q[i]] /\ s[q[i]] \in X
      BY <1>1, <1>2, <3>1
    <3>3. i \in 1..(Len(q) + 1)
      BY <1>7
    <3> QED BY <3>1, <3>2, <3>3
  <2>5. pz[Len(q) + 1] = e
    BY <1>2, <1>7, <2>2
  <2>6. ps \in Seq(X) /\ Len(ps) = Len(q)
    BY <1>7, <2>4
  <2>7. pz = Append(ps, e)
    <3> DEFINE l == Len(q)
    <3>0. pz \in Seq(X) /\ Len(pz) = l + 1
      <4>1. \A i \in 1..(l + 1) : z[r[i]] \in X
        <5> SUFFICES ASSUME NEW i \in 1..(l + 1) PROVE z[r[i]] \in X
          OBVIOUS
        <5>1. r[i] \in 1..(n + 1)
          <6>1. CASE i = l + 1
            BY <1>1, <2>2, <6>1
          <6>2. CASE i \in 1..l
            BY <1>1, <1>7, <2>2, <6>2
          <6>3. i = l + 1 \/ i \in 1..l
            BY <1>7
          <6> QED BY <6>1, <6>2, <6>3
        <5> QED BY <1>2, <5>1
      <4> QED BY <1>7, <4>1
    <3>1. l \in Nat
      BY <1>7
    <3> HIDE DEF ps, pz, l
    <3>2. ps \in Seq(X) /\ Len(ps) = l
      BY <2>6 DEF l
    <3>3. Append(ps, e) \in Seq(X) /\ Len(Append(ps, e)) = l + 1
      BY <3>1, <3>2
    <3>4. ASSUME NEW i \in 1..(l + 1)
          PROVE  pz[i] = Append(ps, e)[i]
      <4>1. CASE i = l + 1
        <5>1. pz[i] = e
          BY <2>5, <4>1 DEF l
        <5> QED BY <3>1, <3>2, <4>1, <5>1
      <4>2. CASE i \in 1..l
        <5>1. pz[i] = ps[i]
          BY <2>4, <4>2 DEF l
        <5>2. Append(ps, e)[i] = ps[i]
          BY <3>1, <3>2, <4>2
        <5> QED BY <5>1, <5>2
      <4>3. i = l + 1 \/ i \in 1..l
        BY <3>1
      <4> QED BY <4>1, <4>2, <4>3
    <3>5. Len(pz) = Len(Append(ps, e)) /\ \A i \in 1..Len(pz) : pz[i] = Append(ps, e)[i]
      BY <3>0, <3>3, <3>4
    <3> QED BY <3>0, <3>3, <3>5, SeqEqual
  <2> QED BY <1>8, <1>9, <2>3, <2>7 DEF z
<1>10. CASE n + 1 \notin at
  <2>1. r = q
    BY <1>5, <1>10
  <2>2. Picked(z, at) = [i \in 1..Len(q) |-> z[q[i]]]
    BY <1>4, <1>7, <2>1
  <2>3. \A i \in 1..Len(q) : z[q[i]] = s[q[i]]
    BY <1>2, <1>7
  <2>4. Picked(z, at) = Picked(s, at)
    BY <1>8, <2>2, <2>3
  <2> QED BY <1>10, <2>4 DEF z
<1> QED BY <1>9, <1>10

\* Two texts one behind the other.
LEMMA Concat ==
    ASSUME NEW X, NEW s \in Seq(X), NEW t \in Seq(X)
    PROVE  /\ s \o t \in Seq(X) /\ Len(s \o t) = Len(s) + Len(t)
           /\ \A i \in 1..Len(s) : (s \o t)[i] = s[i]
           /\ \A i \in 1..Len(t) : (s \o t)[Len(s) + i] = t[i]
  OBVIOUS

\* The bounds of the pieces: the beginning, the separators and the end.
Bound(s, q, i) == IF i = 1 THEN 0 ELSE IF i = Len(q) + 2 THEN Len(s) + 1 ELSE q[i - 1]

\* A piece lies between two bounds that follow each other.
LEMMA PieceBetween ==
    ASSUME NEW X, NEW s \in Seq(X), NEW q, Sorted(q, Len(s))
    PROVE  /\ \A i \in 1..(Len(q) + 2) : Bound(s, q, i) \in 0..(Len(s) + 1)
           /\ \A i \in 1..(Len(q) + 1) :
                 Pieces(s, q)[i] = SubSeq(s, Bound(s, q, i) + 1, Bound(s, q, i + 1) - 1)
<1> DEFINE n == Len(s)
           e == n + 1
           bounds == <<0>> \o q \o <<e>>
           m == Len(bounds) - 1
<1>1. n \in Nat /\ e \in Nat /\ q \in Seq(1..n) /\ q \in Seq(0..e) /\ Len(q) \in Nat
  BY DEF Sorted
<1>2. /\ bounds \in Seq(0..e) /\ Len(bounds) = Len(q) + 2
      /\ \A i \in 1..(Len(q) + 2) : bounds[i] = Bound(s, q, i)
  <2> DEFINE a == <<0>>
             z == <<e>>
             b == a \o q
  <2>1. a \in Seq(0..e) /\ z \in Seq(0..e) /\ Len(a) = 1 /\ Len(z) = 1 /\ a[1] = 0 /\ z[1] = e
    BY <1>1
  <2> HIDE DEF a, z
  <2> DEFINE Y == 0..e
  <2>y. a \in Seq(Y) /\ z \in Seq(Y) /\ q \in Seq(Y)
    BY <1>1, <2>1
  <2> HIDE DEF Y
  <2>2. /\ b \in Seq(Y) /\ Len(b) = 1 + Len(q) /\ b[1] = a[1]
        /\ \A i \in 1..Len(q) : b[1 + i] = q[i]
    <3>1. /\ a \o q \in Seq(Y) /\ Len(a \o q) = Len(a) + Len(q)
          /\ \A i \in 1..Len(a) : (a \o q)[i] = a[i]
          /\ \A i \in 1..Len(q) : (a \o q)[Len(a) + i] = q[i]
      BY <2>y, Concat
    <3> QED BY <2>1, <3>1
  <2> HIDE DEF b
  <2>b. b \in Seq(Y)
    BY <2>2
  <2>3. /\ b \o z \in Seq(Y) /\ Len(b \o z) = 2 + Len(q)
        /\ \A i \in 1..Len(b) : (b \o z)[i] = b[i]
        /\ (b \o z)[Len(b) + 1] = z[1]
    <3>1. /\ b \o z \in Seq(Y) /\ Len(b \o z) = Len(b) + Len(z)
          /\ \A i \in 1..Len(b) : (b \o z)[i] = b[i]
          /\ \A i \in 1..Len(z) : (b \o z)[Len(b) + i] = z[i]
      BY <2>y, <2>b, Concat
    <3>2. 1 \in 1..Len(z)
      BY <2>1
    <3> QED BY <1>1, <2>1, <2>2, <3>1, <3>2
  <2>4. bounds = b \o z
    BY DEF a, b, z
  <2> HIDE DEF bounds
  <2>5. ASSUME NEW i \in 1..(Len(q) + 2) PROVE bounds[i] = Bound(s, q, i)
    <3>2. CASE i = 1
      <4>1. i \in 1..Len(b)
        BY <1>1, <2>2, <3>2
      <4>2. bounds[i] = 0
        BY <2>1, <2>2, <2>3, <2>4, <3>2, <4>1
      <4> QED BY <3>2, <4>2 DEF Bound
    <3>3. CASE i = Len(q) + 2
      <4>1. i # 1 /\ i = Len(b) + 1
        BY <1>1, <2>2, <3>3
      <4>2. bounds[i] = e
        BY <2>1, <2>3, <2>4, <4>1
      <4> QED BY <3>3, <4>1, <4>2 DEF Bound
    <3>4. CASE i # 1 /\ i # Len(q) + 2
      <4> DEFINE j == i - 1
      <4>1. i \in 1..Len(b) /\ j \in 1..Len(q) /\ i = 1 + j
        BY <1>1, <2>2, <3>4
      <4> HIDE DEF j
      <4>2. bounds[i] = q[j]
        BY <2>2, <2>3, <2>4, <4>1
      <4> QED BY <3>4, <4>2 DEF Bound, j
    <3> QED BY <3>2, <3>3, <3>4
  <2> QED BY <1>1, <2>3, <2>4, <2>5 DEF Y
<1>3. Pieces(s, q) = [i \in 1..m |-> SubSeq(s, bounds[i] + 1, bounds[i + 1] - 1)]
  BY DEF Pieces
<1> HIDE DEF bounds
<1>4. m = Len(q) + 1 /\ m \in Nat
  BY <1>1, <1>2
<1>5. \A i \in 1..(Len(q) + 2) : Bound(s, q, i) \in 0..e
  <2> SUFFICES ASSUME NEW i \in 1..(Len(q) + 2) PROVE Bound(s, q, i) \in 0..e
    OBVIOUS
  <2>1. i \in 1..Len(bounds)
    BY <1>2
  <2>2. bounds[i] \in 0..e
    BY <1>2, <2>1
  <2> QED BY <1>2, <2>2
<1>6. ASSUME NEW i \in 1..(Len(q) + 1)
      PROVE  Pieces(s, q)[i] = SubSeq(s, Bound(s, q, i) + 1, Bound(s, q, i + 1) - 1)
  <2>1. i \in 1..m /\ i \in 1..(Len(q) + 2) /\ i + 1 \in 1..(Len(q) + 2)
    BY <1>1, <1>4
  <2>2. bounds[i] = Bound(s, q, i) /\ bounds[i + 1] = Bound(s, q, i + 1)
    BY <1>2, <2>1
  <2> HIDE DEF m
  <2>3. Pieces(s, q)[i] = SubSeq(s, bounds[i] + 1, bounds[i + 1] - 1)
    BY <1>3, <2>1
  <2> QED BY <2>2, <2>3
<1> QED BY <1>5, <1>6

\* A part that ends before the last character does not change when one is added.
LEMMA PartOfLonger ==
    ASSUME NEW X, NEW s \in Seq(X), NEW e \in X, NEW a \in Int, NEW b \in Int, 1 <= a, b <= Len(s)
    PROVE  SubSeq(Append(s, e), a, b) = SubSeq(s, a, b)
<1> DEFINE z == Append(s, e)
<1>1. z \in Seq(X) /\ Len(z) = Len(s) + 1 /\ \A i \in 1..Len(s) : z[i] = s[i]
  OBVIOUS
<1> HIDE DEF z
<1>2. SubSeq(z, a, b) = SubSeq(s, a, b)
  <2>1. CASE a <= b
    BY <1>1, <2>1
  <2>2. CASE b < a
    BY <1>1, <2>2
  <2> QED BY <2>1, <2>2
<1> QED BY <1>2 DEF z

\* A separator at the end adds an empty piece.
LEMMA SplitMore ==
    ASSUME NEW X, NEW s \in Seq(X), NEW c \in X
    PROVE  Split(Append(s, c), c) = Append(Split(s, c), <<>>)
<1> DEFINE n == Len(s)
           z == Append(s, c)
           at == {i \in DOMAIN s : s[i] = c}
           bt == {i \in DOMAIN z : z[i] = c}
           q == InOrder(at, n)
           r == InOrder(bt, n + 1)
<1>1. n \in Nat /\ DOMAIN s = 1..n
  OBVIOUS
<1>2. /\ z \in Seq(X) /\ Len(z) = n + 1 /\ DOMAIN z = 1..(n + 1) /\ z[n + 1] = c
      /\ \A i \in 1..n : z[i] = s[i]
  OBVIOUS
<1>3. Split(s, c) = Pieces(s, q) /\ Split(z, c) = Pieces(z, r)
  BY <1>2 DEF Split
<1>4. n + 1 \in bt /\ \A i \in 1..n : i \in at <=> i \in bt
  BY <1>1, <1>2
<1>5. Sorted(q, n) /\ Sorted(r, n + 1)
  <2>1. n + 1 \in Nat
    BY <1>1
  <2> HIDE DEF n
  <2> QED BY <1>1, <2>1, OrderSorted
<1>6. r = Append(q, n + 1)
  <2> HIDE DEF n, at, bt
  <2>1. InOrder(at, n) = InOrder(bt, n)
    BY <1>1, <1>4, OrderSame
  <2>2. InOrder(bt, n + 1) = Append(InOrder(bt, n), n + 1)
    BY <1>1, <1>4, OrderStep
  <2> QED BY <2>1, <2>2
<1> HIDE DEF q, r, at, bt, z
<1> DEFINE l == Len(q)
<1>7. q \in Seq(1..n) /\ l \in Nat /\ Len(r) = l + 1 /\ r[l + 1] = n + 1 /\ \A i \in 1..l : r[i] = q[i]
  <2>1. q \in Seq(1..n)
    BY <1>5 DEF Sorted
  <2> QED BY <1>6, <2>1
<1> DEFINE u == Pieces(s, q)
           v == Pieces(z, r)
<1>8. u \in Seq(Seq(X)) /\ Len(u) = l + 1 /\ v \in Seq(Seq(X)) /\ Len(v) = l + 2
  <2>1. u \in Seq(Seq(X)) /\ Len(u) = l + 1
    BY <1>5, PiecesTyped
  <2>2. Sorted(r, Len(z))
    BY <1>2, <1>5
  <2>3. v \in Seq(Seq(X)) /\ Len(v) = Len(r) + 1
    BY <1>2, <2>2, PiecesTyped
  <2> QED BY <1>7, <2>1, <2>3
<1>9. \A i \in 1..(l + 2) : Bound(s, q, i) \in 0..(n + 1) /\ Bound(z, r, i) = Bound(s, q, i)
  <2> SUFFICES ASSUME NEW i \in 1..(l + 2)
               PROVE  Bound(s, q, i) \in 0..(n + 1) /\ Bound(z, r, i) = Bound(s, q, i)
    OBVIOUS
  <2>1. Bound(s, q, i) \in 0..(n + 1)
    BY <1>5, PieceBetween
  <2>2. CASE i = 1
    BY <2>1, <2>2 DEF Bound
  <2>3. CASE i = l + 2
    <3>1. i # 1 /\ i # Len(r) + 2 /\ i - 1 = l + 1
      BY <1>7, <2>3
    <3>2. Bound(z, r, i) = n + 1
      BY <1>7, <3>1 DEF Bound
    <3>3. Bound(s, q, i) = n + 1
      BY <2>3, <3>1 DEF Bound
    <3> QED BY <2>1, <3>2, <3>3
  <2>4. CASE i # 1 /\ i # l + 2
    <3>1. i # Len(r) + 2 /\ i - 1 \in 1..l
      BY <1>7, <2>4
    <3>2. r[i - 1] = q[i - 1]
      BY <1>7, <3>1
    <3> QED BY <2>1, <2>4, <3>1, <3>2 DEF Bound
  <2> QED BY <2>2, <2>3, <2>4
<1>10. ASSUME NEW i \in 1..(l + 1)
       PROVE  v[i] = u[i]
  <2> DEFINE a == Bound(s, q, i)
             b == Bound(s, q, i + 1)
  <2>1. i \in 1..(l + 2) /\ i + 1 \in 1..(l + 2) /\ i \in 1..(Len(r) + 1)
    BY <1>7
  <2>2. u[i] = SubSeq(s, a + 1, b - 1)
    BY <1>5, PieceBetween
  <2>3. v[i] = SubSeq(z, Bound(z, r, i) + 1, Bound(z, r, i + 1) - 1)
    <3>1. Sorted(r, Len(z))
      BY <1>2, <1>5
    <3> QED BY <1>2, <2>1, <3>1, PieceBetween
  <2>4. Bound(z, r, i) = a /\ Bound(z, r, i + 1) = b /\ a \in 0..(n + 1) /\ b \in 0..(n + 1)
    BY <1>9, <2>1
  <2> HIDE DEF a, b
  <2>5. SubSeq(z, a + 1, b - 1) = SubSeq(s, a + 1, b - 1)
    <3>1. a + 1 \in Int /\ b - 1 \in Int /\ 1 <= a + 1 /\ b - 1 <= Len(s)
      BY <1>1, <2>4
    <3> QED BY <3>1, PartOfLonger DEF z
  <2> QED BY <2>2, <2>3, <2>4, <2>5
<1>11. v[l + 2] = <<>>
  <2>1. l + 2 \in 1..(Len(r) + 1) /\ l + 2 \in 1..(l + 2)
    BY <1>7
  <2>2. v[l + 2] = SubSeq(z, Bound(z, r, l + 2) + 1, Bound(z, r, l + 2 + 1) - 1)
    <3>1. Sorted(r, Len(z))
      BY <1>2, <1>5
    <3> DEFINE j == l + 2
    <3>2. j \in 1..(Len(r) + 1)
      BY <2>1
    <3> HIDE DEF j
    <3>3. v[j] = SubSeq(z, Bound(z, r, j) + 1, Bound(z, r, j + 1) - 1)
      BY <1>2, <3>1, <3>2, PieceBetween
    <3> QED BY <3>3 DEF j
  <2>3. Bound(z, r, l + 2) = n + 1
    <3>1. l + 2 # 1 /\ l + 2 # Len(r) + 2 /\ l + 2 - 1 = l + 1
      BY <1>7
    <3> QED BY <1>7, <3>1 DEF Bound
  <2>4. Bound(z, r, l + 2 + 1) = n + 2
    <3>1. l + 2 + 1 # 1 /\ l + 2 + 1 = Len(r) + 2
      BY <1>7
    <3> QED BY <1>1, <1>2, <3>1 DEF Bound
  <2>5. v[l + 2] = SubSeq(z, n + 2, n + 1)
    BY <1>1, <2>2, <2>3, <2>4
  <2> QED BY <1>1, <1>2, <2>5
<1> HIDE DEF u, v
<1>12. v = Append(u, <<>>)
  <2> DEFINE Y == Seq(X)
  <2>1. <<>> \in Y
    OBVIOUS
  <2>2. u \in Seq(Y) /\ Len(u) = l + 1 /\ v \in Seq(Y) /\ Len(v) = l + 2 /\ l \in Nat
    BY <1>7, <1>8
  <2> HIDE DEF Y, l
  <2> DEFINE w == Append(u, <<>>)
  <2>3. w \in Seq(Y) /\ Len(w) = l + 2 /\ w[l + 2] = <<>> /\ \A i \in 1..(l + 1) : w[i] = u[i]
    BY <2>1, <2>2
  <2> HIDE DEF w
  <2>4. ASSUME NEW i \in 1..(l + 2) PROVE v[i] = w[i]
    <3>1. CASE i = l + 2
      BY <1>11, <2>3, <3>1
    <3>2. CASE i \in 1..(l + 1)
      BY <1>10, <2>3, <3>2
    <3>3. i = l + 2 \/ i \in 1..(l + 1)
      BY <2>2
    <3> QED BY <3>1, <3>2, <3>3
  <2>5. v = w
    BY <2>2, <2>3, <2>4, SeqEqual
  <2> QED BY <2>5 DEF w
<1> QED BY <1>3, <1>12 DEF u, v, z

\* Decoding leaves a text of the same length, and a slash behind it stays one.
Plain(X) == X \cup {"/", ".", "a"}
LEMMA Decoded ==
    ASSUME NEW X, NEW s \in Seq(X)
    PROVE  /\ PercentDecode(s) \in Seq(Plain(X)) /\ Len(PercentDecode(s)) = Len(s)
           /\ PercentDecode(Append(s, "/")) = Append(PercentDecode(s), "/")
<1> DEFINE n == Len(s)
           D1(c) == IF c \in DOMAIN Escapes THEN Escapes[c] ELSE c
           z == Append(s, "/")
           Z == X \cup {"/"}
<1>1. n \in Nat /\ DOMAIN s = 1..n /\ \A i \in 1..n : s[i] \in X
  OBVIOUS
<1>2. DOMAIN Escapes = {"%/", "%.", "%a"} /\ \A c \in DOMAIN Escapes : Escapes[c] \in {"/", ".", "a"}
  BY DEF Escapes
<1>3. \A c \in X : D1(c) \in Plain(X)
  BY <1>2 DEF Plain
<1>4. D1("/") = "/"
  BY <1>2
<1>5. "/" \in Plain(X)
  BY DEF Plain
<1>6. PercentDecode(s) = [i \in 1..n |-> D1(s[i])]
  BY <1>1 DEF PercentDecode
<1> HIDE DEF D1
<1> DEFINE d == [i \in 1..n |-> D1(s[i])]
<1>7. d \in Seq(Plain(X)) /\ Len(d) = n /\ \A i \in 1..n : d[i] = D1(s[i])
  BY <1>1, <1>3
<1>8. /\ z \in Seq(Z) /\ Len(z) = n + 1 /\ DOMAIN z = 1..(n + 1) /\ z[n + 1] = "/"
      /\ \A i \in 1..n : z[i] = s[i]
  <2>1. s \in Seq(Z) /\ "/" \in Z
    OBVIOUS
  <2> HIDE DEF Z
  <2> QED BY <2>1
<1>9. PercentDecode(z) = [i \in 1..(n + 1) |-> D1(z[i])]
  BY <1>8 DEF PercentDecode, D1
<1> HIDE DEF z, d
<1> DEFINE w == [i \in 1..(n + 1) |-> D1(z[i])]
<1>10. \A i \in 1..(n + 1) : D1(z[i]) \in Plain(X)
  <2> SUFFICES ASSUME NEW i \in 1..(n + 1) PROVE D1(z[i]) \in Plain(X)
    OBVIOUS
  <2>1. CASE i = n + 1
    BY <1>4, <1>5, <1>8, <2>1
  <2>2. CASE i \in 1..n
    BY <1>1, <1>3, <1>8, <2>2
  <2> QED BY <1>1, <2>1, <2>2
<1>11. w \in Seq(Plain(X)) /\ Len(w) = n + 1 /\ \A i \in 1..(n + 1) : w[i] = D1(z[i])
  BY <1>1, <1>10
<1> HIDE DEF w
<1> DEFINE v == Append(d, "/")
<1>12. v \in Seq(Plain(X)) /\ Len(v) = n + 1 /\ v[n + 1] = "/" /\ \A i \in 1..n : v[i] = d[i]
  BY <1>1, <1>5, <1>7
<1> HIDE DEF v
<1>13. ASSUME NEW i \in 1..(n + 1) PROVE w[i] = v[i]
  <2>1. CASE i = n + 1
    BY <1>1, <1>4, <1>8, <1>11, <1>12, <2>1
  <2>2. CASE i \in 1..n
    <3>1. w[i] = D1(z[i]) /\ z[i] = s[i] /\ v[i] = d[i] /\ d[i] = D1(s[i])
      BY <1>7, <1>8, <1>11, <1>12, <2>2
    <3> QED BY <3>1
  <2>3. i = n + 1 \/ i \in 1..n
    BY <1>1
  <2> QED BY <2>1, <2>2, <2>3
<1>14. w = v
  <2>1. Len(w) = Len(v) /\ \A i \in 1..Len(w) : w[i] = v[i]
    BY <1>11, <1>12, <1>13
  <2> QED BY <1>11, <1>12, <2>1, SeqEqual
<1>15. PercentDecode(s) = d /\ PercentDecode(z) = w
  BY <1>6, <1>9 DEF d, w
<1>16. PercentDecode(s) \in Seq(Plain(X)) /\ Len(PercentDecode(s)) = Len(s)
  BY <1>7, <1>15
<1>17. PercentDecode(z) = Append(PercentDecode(s), "/")
  BY <1>14, <1>15 DEF v
<1> QED BY <1>16, <1>17 DEF z
=================================================================================
