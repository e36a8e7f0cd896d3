-------------------------- MODULE QueueRing_proofs --------------------------
(***************************************************************************)
(* Lemmas about the circular array, for every size of the ring, and about  *)
(* the sequences, the sums, the divisors and the powers of two that the    *)
(* other proofs use.                                                       *)
(***************************************************************************)
EXTENDS QueueRing, SequencesExt, FiniteSetTheorems, SequenceTheorems, WellFoundedInduction, TLAPS

\* Advance stays inside the array and wraps exactly at its end.
LEMMA AdvanceWraps ==
  ASSUME NEW i \in Slot
  PROVE  /\ Advance(i) \in Slot
         /\ Advance(i) = IF i = qSize - 1 THEN 0 ELSE i + 1
<1> USE RingAssumption DEF Slot, Advance
<1>1. CASE i = qSize - 1
  <2>1. (i + 1) % qSize = 0
    BY <1>1
  <2> QED BY <2>1, <1>1
<1>2. CASE i # qSize - 1
  <2>1. i + 1 \in 0 .. (qSize - 1)
    BY <1>2
  <2>2. (i + 1) % qSize = i + 1
    BY <2>1
  <2> QED BY <2>1, <2>2, <1>2
<1> QED BY <1>1, <1>2

\* The number of messages in the ring is at most Capacity; the two tests of
\* the code, QueueEmpty and QueueFull, recognise the two extremes.
LEMMA RingLenFacts ==
  ASSUME NEW f \in Slot, NEW l \in Slot
  PROVE  /\ RingLen(f, l) \in 0 .. Capacity
         /\ RingEmpty(f, l) <=> RingLen(f, l) = 0
         /\ RingFull(f, l) <=> RingLen(f, l) = Capacity
BY RingAssumption DEF Slot, RingLen, Capacity, RingEmpty, RingFull

\* Inserting into a ring that is not full makes it one longer, removing from
\* one that is not empty makes it one shorter.
LEMMA RingLenStep ==
  ASSUME NEW f \in Slot, NEW l \in Slot
  PROVE  /\ ~RingFull(f, l) => RingLen(f, Advance(l)) = RingLen(f, l) + 1
         /\ ~RingEmpty(f, l) => RingLen(Advance(f), l) = RingLen(f, l) - 1
<1>1. /\ Advance(l) = IF l = qSize - 1 THEN 0 ELSE l + 1
      /\ Advance(f) = IF f = qSize - 1 THEN 0 ELSE f + 1
  BY AdvanceWraps
<1> QED
  BY <1>1, RingAssumption DEF Slot, RingLen, RingFull, RingEmpty

\* The contents as a sequence, and its length.
LEMMA RingContentsLen ==
  ASSUME NEW M, NEW arr \in [Slot -> M], NEW f \in Slot, NEW l \in Slot
  PROVE  /\ RingContents(arr, f, l) \in Seq(M)
         /\ Len(RingContents(arr, f, l)) = RingLen(f, l)
<1>1. RingLen(f, l) \in Nat
  BY RingLenFacts, RingAssumption DEF Capacity
<1>2. \A i \in 1 .. RingLen(f, l) : SlotOf(f, i - 1) \in Slot
  BY RingAssumption DEF Slot, SlotOf, RingLen
<1> QED BY <1>1, <1>2 DEF RingContents

\* Writing the slot at qLast and advancing qLast appends the message.
LEMMA RingAppend ==
  ASSUME NEW M
  PROVE  \A arr \in [Slot -> M], f \in Slot, l \in Slot, m \in M :
           ~RingFull(f, l) => RingContents([arr EXCEPT ![l] = m], f, Advance(l))
                                = Append(RingContents(arr, f, l), m)
<1> SUFFICES ASSUME NEW arr \in [Slot -> M], NEW f \in Slot, NEW l \in Slot,
                    NEW m \in M, ~RingFull(f, l)
             PROVE  RingContents([arr EXCEPT ![l] = m], f, Advance(l))
                      = Append(RingContents(arr, f, l), m)
  OBVIOUS
<1> DEFINE n == RingLen(f, l)
           s == RingContents(arr, f, l)
           new == [arr EXCEPT ![l] = m]
           s2 == RingContents(new, f, Advance(l))
<1>1. n \in Nat /\ RingLen(f, Advance(l)) = n + 1
  BY RingLenFacts, RingLenStep, RingAssumption DEF Capacity
<1>2. SlotOf(f, n) = l
  BY RingAssumption DEF Slot, SlotOf, RingLen
<1>3. \A i \in 1 .. n : SlotOf(f, i - 1) \in Slot /\ SlotOf(f, i - 1) # l
  BY RingAssumption DEF Slot, SlotOf, RingLen
<1>4. s \in Seq(M) /\ Len(s) = n
  BY RingContentsLen
<1>5. s2 \in Seq(M) /\ Len(s2) = n + 1
  <2>1. new \in [Slot -> M] /\ Advance(l) \in Slot
    BY AdvanceWraps
  <2> HIDE DEF new
  <2>2. /\ RingContents(new, f, Advance(l)) \in Seq(M)
        /\ Len(RingContents(new, f, Advance(l))) = RingLen(f, Advance(l))
    BY <2>1, RingContentsLen
  <2> QED BY <1>1, <2>2
<1>6. \A i \in 1 .. n : s[i] = arr[SlotOf(f, i - 1)]
  BY DEF RingContents
<1>7. \A i \in 1 .. n + 1 : s2[i] = new[SlotOf(f, i - 1)]
  BY <1>1 DEF RingContents
<1> HIDE DEF n, s, s2
<1>8. /\ Append(s, m) \in Seq(M)
      /\ Len(Append(s, m)) = n + 1
      /\ \A i \in 1 .. n : Append(s, m)[i] = s[i]
      /\ Append(s, m)[n + 1] = m
  BY <1>4, AppendProperties
<1>9. \A i \in 1 .. n + 1 : s2[i] = Append(s, m)[i]
  <2> TAKE i \in 1 .. n + 1
  <2>1. CASE i = n + 1
    <3>1. SlotOf(f, i - 1) = l
      BY <1>1, <1>2, <2>1
    <3> QED BY <1>7, <1>8, <2>1, <3>1
  <2>2. CASE i # n + 1
    <3>1. i \in 1 .. n
      BY <1>1, <2>2
    <3> QED BY <1>3, <1>6, <1>7, <1>8, <3>1
  <2> QED BY <2>1, <2>2
<1>10. s2 = Append(s, m)
  BY <1>5, <1>8, <1>9, SeqEqual
<1> QED BY <1>10 DEF s, s2

\* Advancing qFirst takes the message at qFirst, the oldest, from the front.
LEMMA RingTail ==
  ASSUME NEW M, NEW arr \in [Slot -> M], NEW f \in Slot, NEW l \in Slot,
         ~RingEmpty(f, l)
  PROVE  /\ RingContents(arr, f, l) # <<>>
         /\ Head(RingContents(arr, f, l)) = arr[f]
         /\ RingContents(arr, Advance(f), l) = Tail(RingContents(arr, f, l))
<1> DEFINE n == RingLen(f, l)
           s == RingContents(arr, f, l)
           s2 == RingContents(arr, Advance(f), l)
<1>1. n \in Nat /\ n # 0 /\ RingLen(Advance(f), l) = n - 1
  BY RingLenFacts, RingLenStep, RingAssumption DEF Capacity
<1>2. s \in Seq(M) /\ Len(s) = n
  BY RingContentsLen
<1>3. s2 \in Seq(M) /\ Len(s2) = n - 1
  BY <1>1, AdvanceWraps, RingContentsLen
<1>4. \A i \in 1 .. n : s[i] = arr[SlotOf(f, i - 1)]
  BY DEF RingContents
<1>5. \A i \in 1 .. n - 1 : s2[i] = arr[SlotOf(Advance(f), i - 1)]
  BY <1>1 DEF RingContents
<1>6. \A i \in 1 .. n - 1 : SlotOf(Advance(f), i - 1) = SlotOf(f, i)
  <2>1. Advance(f) = IF f = qSize - 1 THEN 0 ELSE f + 1
    BY AdvanceWraps
  <2>2. ASSUME NEW i \in 1 .. n - 1
        PROVE  SlotOf(Advance(f), i - 1) = SlotOf(f, i)
    <3>1. CASE f = qSize - 1
      <4>1. Advance(f) = 0 /\ n <= qSize - 1
        BY <2>1, <3>1, RingLenFacts, RingAssumption DEF Capacity
      <4> HIDE DEF n
      <4> QED BY <1>1, <4>1, <3>1, RingAssumption DEF Slot, SlotOf
    <3>2. CASE f # qSize - 1
      BY <1>1, <2>1, <3>2, RingAssumption DEF Slot, SlotOf
    <3> QED BY <3>1, <3>2
  <2> QED BY <2>2
<1>7. SlotOf(f, 0) = f
  BY RingAssumption DEF Slot, SlotOf
<1> HIDE DEF n, s, s2
<1>8. s # <<>> /\ Head(s) = s[1] /\ 1 \in 1 .. n
  BY <1>1, <1>2
<1>9. /\ Tail(s) \in Seq(M)
      /\ Len(Tail(s)) = n - 1
      /\ \A i \in 1 .. n - 1 : Tail(s)[i] = s[i + 1]
  BY <1>1, <1>2, <1>8, HeadTailProperties
<1>10. \A i \in 1 .. n - 1 : s2[i] = Tail(s)[i]
  <2> TAKE i \in 1 .. n - 1
  <2>1. i + 1 \in 1 .. n /\ (i + 1) - 1 = i
    BY <1>1
  <2> QED BY <2>1, <1>4, <1>5, <1>6, <1>9
<1>11. s2 = Tail(s)
  BY <1>3, <1>9, <1>10, SeqEqual
<1>12. Head(s) = arr[f]
  BY <1>4, <1>7, <1>8
<1> QED BY <1>8, <1>11, <1>12 DEF s, s2

-----------------------------------------------------------------------------
(* Numbers, and functions defined from one number to the next: what a proof*)
(* by induction over sequences and sums is made of.                        *)

\* A set of numbers that is not empty has a least element.
LEMMA LeastNumber ==
  ASSUME NEW X, X \subseteq Nat, X # {}
  PROVE  \E m \in X : \A n \in X : m <= n
<1>1. PICK m \in X : \A n \in X : <<n, m>> \notin OpToRel(<, Nat)
  BY WFMin, NatLessThanWellFounded, Zenon
<1>2. \A n \in X : ~(n < m)
  BY <1>1 DEF OpToRel
<1> QED BY <1>2

\* Induction: a set of numbers with 0 and with each number its successor.
LEMMA AllNumbers ==
  ASSUME NEW X, 0 \in X, \A n \in Nat : n \in X => n + 1 \in X
  PROVE  Nat \subseteq X
<1> SUFFICES ASSUME Nat \ X # {} PROVE FALSE
  OBVIOUS
<1>1. PICK m \in Nat \ X : \A n \in Nat \ X : m <= n
  BY LeastNumber
<1>2. m # 0 /\ m - 1 \in Nat
  BY <1>1
<1>3. m - 1 \in X
  BY <1>1, <1>2
<1> QED BY <1>1, <1>2, <1>3

\* A function that is defined from one number to the next exists.
Follows(g, b, step, n) == g[0] = b /\ \A i \in 1 .. n : g[i] = step[i][g[i - 1]]
\* There is a function that follows the steps up to n.
LEMMA Recursion ==
  ASSUME NEW S
  PROVE  \A b \in S, step \in [Nat -> [S -> S]], n \in Nat :
           \E g \in [0 .. n -> S] : Follows(g, b, step, n)
<1> TAKE b \in S, step \in [Nat -> [S -> S]], n \in Nat
<1> DEFINE Is(g, k) == Follows(g, b, step, k)
           X == {k \in Nat : \E g \in [0 .. k -> S] : Is(g, k)}
<1>1. 0 \in X
  <2>1. [i \in 0 .. 0 |-> b] \in [0 .. 0 -> S] /\ Is([i \in 0 .. 0 |-> b], 0)
    BY DEF Follows
  <2> QED BY <2>1
<1>2. ASSUME NEW k \in Nat, k \in X PROVE k + 1 \in X
  <2>1. PICK g \in [0 .. k -> S] : Is(g, k)
    BY <1>2
  <2> DEFINE h == [i \in 0 .. k + 1 |-> IF i = k + 1 THEN step[k + 1][g[k]] ELSE g[i]]
  <2>2. h \in [0 .. k + 1 -> S]
    OBVIOUS
  <2>3. h[0] = b
    BY <2>1 DEF Follows
  <2>4. \A i \in 1 .. k + 1 : h[i] = step[i][h[i - 1]]
    <3> TAKE i \in 1 .. k + 1
    <3>1. h[i - 1] = g[i - 1] /\ i - 1 \in 0 .. k
      OBVIOUS
    <3>2. CASE i = k + 1
      BY <3>1, <3>2
    <3>3. CASE i # k + 1
      BY <2>1, <3>1, <3>3 DEF Follows
    <3> QED BY <3>2, <3>3
  <2>5. Is(h, k + 1)
    BY <2>3, <2>4 DEF Follows
  <2> HIDE DEF h
  <2> QED BY <2>2, <2>5
<1>3. Nat \subseteq X
  BY <1>1, <1>2, AllNumbers
<1> QED BY <1>3

-----------------------------------------------------------------------------
(* The messages of pair n in a sequence, and sequences of blocks.          *)

\* The messages of a sequence that are of pair n.
Of(n, s) ==
  LET of[i \in 0 .. Len(s)] ==
        IF i = 0 THEN <<>> ELSE IF s[i][1] = n THEN Append(of[i - 1], s[i]) ELSE of[i - 1]
  IN of[Len(s)]
OfIs(n, s, g) ==
  g = [i \in 0 .. Len(s) |-> IF i = 0 THEN <<>>
                             ELSE IF s[i][1] = n THEN Append(g[i - 1], s[i]) ELSE g[i - 1]]

OfStep(n, s, g, i, j) == g[i] = IF s[i][1] = n THEN Append(g[j], s[i]) ELSE g[j]
OfBy(S, n, s) == \E g \in [0 .. Len(s) -> Seq(S)] : OfIs(n, s, g) /\ Of(n, s) = g[Len(s)]

\* Of(n, s) is the last value of the function that it is defined by.
LEMMA OfFunction == \A S, n, s : s \in Seq(S) => OfBy(S, n, s)
<1> SUFFICES ASSUME NEW S, NEW n, NEW s \in Seq(S)
             PROVE  OfBy(S, n, s)
  OBVIOUS
<1> DEFINE step == [i \in Nat |-> [t \in Seq(S) |->
                      IF i \in 1 .. Len(s) /\ s[i][1] = n THEN Append(t, s[i]) ELSE t]]
<1>1. step \in [Nat -> [Seq(S) -> Seq(S)]]
  OBVIOUS
<1>2. Len(s) \in Nat /\ <<>> \in Seq(S)
  OBVIOUS
<1> HIDE DEF step
<1>3. PICK g \in [0 .. Len(s) -> Seq(S)] : g[0] = <<>> /\ \A i \in 1 .. Len(s) : g[i] = step[i][g[i - 1]]
  <2> DEFINE T == Seq(S)  b == <<>>  k == Len(s)
  <2>1. step \in [Nat -> [T -> T]] /\ b \in T /\ k \in Nat
    BY <1>1, <1>2
  <2> HIDE DEF T, b, k
  <2>2. \E g \in [0 .. k -> T] : Follows(g, b, step, k)
    BY <2>1, Recursion
  <2> QED BY <2>2 DEF T, b, k, Follows
<1>4. ASSUME NEW i \in 1 .. Len(s)
      PROVE  g[i] = IF s[i][1] = n THEN Append(g[i - 1], s[i]) ELSE g[i - 1]
  <2>1. i \in Nat /\ i - 1 \in 0 .. Len(s)
    BY <1>2
  <2>2. g[i - 1] \in Seq(S)
    BY <2>1, Zenon
  <2>3. \A t \in Seq(S) : step[i][t] = IF s[i][1] = n THEN Append(t, s[i]) ELSE t
    BY <2>1 DEF step
  <2>4. g[i] = step[i][g[i - 1]]
    BY <1>3, Zenon
  <2> QED BY <2>2, <2>3, <2>4, Zenon
<1>5. OfIs(n, s, g)
  <2>1. \A i \in 0 .. Len(s) :
          g[i] = IF i = 0 THEN <<>> ELSE IF s[i][1] = n THEN Append(g[i - 1], s[i]) ELSE g[i - 1]
    <3> TAKE i \in 0 .. Len(s)
    <3>1. CASE i = 0
      BY <1>3, <3>1
    <3>2. CASE i # 0
      <4>1. i \in 1 .. Len(s)
        BY <1>2, <3>2
      <4> QED BY <1>4, <3>2, <4>1
    <3> QED BY <3>1, <3>2
  <2> QED BY <2>1 DEF OfIs
<1>6. ASSUME NEW h, OfIs(n, s, h) PROVE h = g
  <2> DEFINE X == {k \in Nat : k \in 0 .. Len(s) => h[k] = g[k]}
  <2>1. 0 \in X
    BY <1>2, <1>5, <1>6 DEF OfIs
  <2>2. ASSUME NEW k \in Nat, k \in X PROVE k + 1 \in X
    <3> SUFFICES ASSUME k + 1 \in 0 .. Len(s) PROVE h[k + 1] = g[k + 1]
      OBVIOUS
    <3>1. h[k] = g[k]
      BY <1>2, <2>2
    <3>2. /\ h[k + 1] = IF s[k + 1][1] = n THEN Append(h[k], s[k + 1]) ELSE h[k]
          /\ g[k + 1] = IF s[k + 1][1] = n THEN Append(g[k], s[k + 1]) ELSE g[k]
      <4>1. \A f : OfIs(n, s, f) => \A i \in 0 .. Len(s) :
              f[i] = IF i = 0 THEN <<>> ELSE IF s[i][1] = n THEN Append(f[i - 1], s[i]) ELSE f[i - 1]
        BY DEF OfIs
      <4>2. k + 1 # 0 /\ k + 1 - 1 = k
        OBVIOUS
      <4> QED BY <1>5, <1>6, <4>1, <4>2
    <3> QED BY <3>1, <3>2
  <2>3. Nat \subseteq X
    BY <2>1, <2>2, AllNumbers
  <2>4. \A k \in 0 .. Len(s) : h[k] = g[k]
    BY <1>2, <2>3
  <2> QED BY <1>5, <1>6, <2>4 DEF OfIs
<1>7. Of(n, s) = g[Len(s)]
  <2> DEFINE c == CHOOSE h : OfIs(n, s, h)
  <2>1. c = g
    BY <1>5, <1>6
  <2>2. Of(n, s) = c[Len(s)]
    BY DEF Of, OfIs
  <2> QED BY <2>1, <2>2
<1> QED BY <1>5, <1>7 DEF OfBy

\* No messages: none of pair n.
LEMMA OfEmpty == \A n : Of(n, <<>>) = <<>>
<1> TAKE n
<1>1. PICK g \in [0 .. Len(<<>>) -> Seq({})] : OfIs(n, <<>>, g) /\ Of(n, <<>>) = g[Len(<<>>)]
  <2>1. <<>> \in Seq({})
    OBVIOUS
  <2>2. OfBy({}, n, <<>>)
    BY <2>1, OfFunction, Zenon
  <2> QED BY <2>2, Zenon DEF OfBy
<1>2. Len(<<>>) = 0
  OBVIOUS
<1> QED BY <1>1, <1>2 DEF OfIs

\* One message more is one of pair n more, or none.
LEMMA OfAppend ==
  ASSUME NEW S, NEW n
  PROVE  \A s \in Seq(S), m \in S :
           Of(n, Append(s, m)) = IF m[1] = n THEN Append(Of(n, s), m) ELSE Of(n, s)
<1> TAKE s \in Seq(S), m \in S
<1> DEFINE u == Append(s, m)
<1>1. /\ Len(s) \in Nat /\ u \in Seq(S) /\ Len(u) = Len(s) + 1
      /\ u[Len(s) + 1] = m /\ \A i \in 1 .. Len(s) : u[i] = s[i]
  OBVIOUS
<1> HIDE DEF u
<1>2. PICK g \in [0 .. Len(s) -> Seq(S)] : OfIs(n, s, g) /\ Of(n, s) = g[Len(s)]
  <2>1. OfBy(S, n, s)
    BY OfFunction, Zenon
  <2> QED BY <2>1, Zenon DEF OfBy
<1>3. PICK h \in [0 .. Len(u) -> Seq(S)] : OfIs(n, u, h) /\ Of(n, u) = h[Len(u)]
  <2>1. OfBy(S, n, u)
    BY OfFunction, <1>1, Zenon
  <2> QED BY <2>1, Zenon DEF OfBy
<1>4. \A t, f : OfIs(n, t, f) =>
        \A i \in 0 .. Len(t) :
          f[i] = IF i = 0 THEN <<>> ELSE IF t[i][1] = n THEN Append(f[i - 1], t[i]) ELSE f[i - 1]
  BY DEF OfIs
<1> DEFINE X == {k \in Nat : k \in 0 .. Len(s) => h[k] = g[k]}
<1>5. 0 \in X
  BY <1>1, <1>2, <1>3, <1>4
<1>6. ASSUME NEW k \in Nat, k \in X PROVE k + 1 \in X
  <2> SUFFICES ASSUME k + 1 \in 0 .. Len(s) PROVE h[k + 1] = g[k + 1]
    OBVIOUS
  <2>1. h[k] = g[k] /\ u[k + 1] = s[k + 1]
    BY <1>1, <1>6
  <2>2. k + 1 # 0 /\ k + 1 - 1 = k /\ k + 1 \in 0 .. Len(u)
    BY <1>1
  <2>3. h[k + 1] = IF u[k + 1][1] = n THEN Append(h[k], u[k + 1]) ELSE h[k]
    BY <1>3, <1>4, <2>2
  <2>4. g[k + 1] = IF s[k + 1][1] = n THEN Append(g[k], s[k + 1]) ELSE g[k]
    BY <1>2, <1>4, <2>2
  <2> QED BY <2>1, <2>3, <2>4
<1>7. Nat \subseteq X
  BY <1>5, <1>6, AllNumbers
<1>8. h[Len(s)] = g[Len(s)]
  <2>1. Len(s) \in X
    BY <1>1, <1>7
  <2> QED BY <1>1, <2>1
<1>9. h[Len(s) + 1] = IF m[1] = n THEN Append(h[Len(s)], m) ELSE h[Len(s)]
  <2> DEFINE last == Len(s) + 1  k == Len(s)
  <2>1. last # 0 /\ last - 1 = k /\ last \in 0 .. Len(u)
    BY <1>1
  <2>2. \A i \in 0 .. Len(u) :
          h[i] = IF i = 0 THEN <<>> ELSE IF u[i][1] = n THEN Append(h[i - 1], u[i]) ELSE h[i - 1]
    BY <1>3, <1>4, Zenon
  <2>3. \A i, j : i \in 0 .. Len(u) /\ i # 0 /\ i - 1 = j => OfStep(n, u, h, i, j)
    BY <2>2 DEF OfStep
  <2>4. OfStep(n, u, h, last, k)
    <3> HIDE DEF last, k
    <3> QED BY <2>1, <2>3, Zenon
  <2> QED BY <1>1, <2>4 DEF OfStep
<1> QED BY <1>1, <1>2, <1>3, <1>8, <1>9 DEF u

\* The messages of pair n in a sequence are a sequence of the same messages.
LEMMA OfSeq ==
  ASSUME NEW S, NEW n
  PROVE  \A s \in Seq(S) : Of(n, s) \in Seq(S)
<1> TAKE s \in Seq(S)
<1>1. PICK g \in [0 .. Len(s) -> Seq(S)] : OfIs(n, s, g) /\ Of(n, s) = g[Len(s)]
  <2>1. OfBy(S, n, s)
    BY OfFunction, Zenon
  <2> QED BY <2>1, Zenon DEF OfBy
<1> QED BY <1>1

\* The messages of pair n in two sequences are those of the first, then those of the second.
LEMMA OfConcat ==
  ASSUME NEW S, NEW n
  PROVE  \A s, t \in Seq(S) : Of(n, s \o t) = Of(n, s) \o Of(n, t)
<1> SUFFICES ASSUME NEW s \in Seq(S)
             PROVE  \A t \in Seq(S) : Of(n, s \o t) = Of(n, s) \o Of(n, t)
  OBVIOUS
<1> DEFINE X == {k \in Nat : \A t \in Seq(S) : Len(t) = k => Of(n, s \o t) = Of(n, s) \o Of(n, t)}
<1>1. 0 \in X
  <2> SUFFICES ASSUME NEW t \in Seq(S), Len(t) = 0
               PROVE  Of(n, s \o t) = Of(n, s) \o Of(n, t)
    OBVIOUS
  <2>1. t = <<>>
    OBVIOUS
  <2>2. s \o <<>> = s /\ Of(n, s) \in Seq(S) /\ Of(n, s) \o <<>> = Of(n, s)
    BY OfSeq, ConcatEmptySeq
  <2> QED BY <2>1, <2>2, OfEmpty
<1>2. ASSUME NEW k \in Nat, k \in X PROVE k + 1 \in X
  <2> SUFFICES ASSUME NEW t \in Seq(S), Len(t) = k + 1
               PROVE  Of(n, s \o t) = Of(n, s) \o Of(n, t)
    OBVIOUS
  <2>1. PICK v \in Seq(S), m \in S : t = Append(v, m)
    <3>1. t # <<>>
      OBVIOUS
    <3> QED BY <3>1, SequenceEmptyOrAppend
  <2>2. Len(v) = k
    BY <2>1
  <2>3. Of(n, s \o v) = Of(n, s) \o Of(n, v)
    BY <1>2, <2>2
  <2>4. s \o t = Append(s \o v, m) /\ s \o v \in Seq(S)
    BY <2>1
  <2> HIDE DEF X
  <2>5. /\ Of(n, s \o t) = IF m[1] = n THEN Append(Of(n, s \o v), m) ELSE Of(n, s \o v)
        /\ Of(n, t) = IF m[1] = n THEN Append(Of(n, v), m) ELSE Of(n, v)
    <3> DEFINE w == s \o v
    <3>1. w \in Seq(S) /\ s \o t = Append(w, m)
      BY <2>4
    <3> HIDE DEF w
    <3>2. /\ Of(n, Append(w, m)) = IF m[1] = n THEN Append(Of(n, w), m) ELSE Of(n, w)
          /\ Of(n, Append(v, m)) = IF m[1] = n THEN Append(Of(n, v), m) ELSE Of(n, v)
      BY <3>1, OfAppend
    <3> QED BY <2>1, <3>1, <3>2 DEF w
  <2>6. Of(n, s) \in Seq(S) /\ Of(n, v) \in Seq(S)
    BY OfSeq
  <2>7. \A a, b \in Seq(S) : a \o Append(b, m) = Append(a \o b, m)
    OBVIOUS
  <2>8. Of(n, s) \o Append(Of(n, v), m) = Append(Of(n, s) \o Of(n, v), m)
    BY <2>6, <2>7
  <2> QED BY <2>3, <2>5, <2>8
<1>3. Nat \subseteq X
  BY <1>1, <1>2, AllNumbers
<1> QED
  <2> SUFFICES ASSUME NEW t \in Seq(S) PROVE Of(n, s \o t) = Of(n, s) \o Of(n, t)
    OBVIOUS
  <2>1. Len(t) \in Nat
    OBVIOUS
  <2> QED BY <1>3, <2>1

Cat(s, t) == s \o t
FlatIs(ss, g) == g = [i \in 1 .. Len(ss) |-> IF i = 1 THEN ss[i] ELSE g[i - 1] \o ss[i]]
\* The blocks of a sequence joined one after the other.
LEMMA FlatStep ==
  ASSUME NEW t, NEW f, FlatIs(t, f), Len(t) \in Nat
  PROVE  /\ 1 \in 1 .. Len(t) => f[1] = t[1]
         /\ \A i \in Nat : i # 0 /\ i + 1 \in 1 .. Len(t) => f[i + 1] = Cat(f[i], t[i + 1])
<1>1. \A i \in 1 .. Len(t) : f[i] = IF i = 1 THEN t[i] ELSE Cat(f[i - 1], t[i])
  BY DEF FlatIs, Cat
<1>2. ASSUME NEW i \in Nat, i # 0, i + 1 \in 1 .. Len(t) PROVE f[i + 1] = Cat(f[i], t[i + 1])
  <2>1. i + 1 # 1 /\ i + 1 - 1 = i
    BY <1>2
  <2> QED BY <1>1, <1>2, <2>1
<1> QED BY <1>1, <1>2

\* FlattenSeq(ss) is the last value of the function that joins the blocks of ss.
LEMMA FlatFunction ==
  ASSUME NEW S, NEW ss \in Seq(Seq(S)), ss # <<>>
  PROVE  \E g \in [1 .. Len(ss) -> Seq(S)] : FlatIs(ss, g) /\ FlattenSeq(ss) = g[Len(ss)]
<1> DEFINE T == Seq(S)
           k == Len(ss)
           step == [i \in Nat |-> [t \in T |-> IF i \in 1 .. k THEN t \o ss[i] ELSE t]]
           b == <<>>
<1>1. k \in Nat \ {0} /\ b \in T /\ \A i \in 1 .. k : ss[i] \in T
  OBVIOUS
<1>2. step \in [Nat -> [T -> T]]
  <2> SUFFICES ASSUME NEW i \in Nat, NEW t \in T
               PROVE  (IF i \in 1 .. k THEN t \o ss[i] ELSE t) \in T
    OBVIOUS
  <2> HIDE DEF k
  <2> QED BY <1>1
<1> HIDE DEF step, b
<1>3. PICK f \in [0 .. k -> T] : Follows(f, b, step, k)
  <2> HIDE DEF T, k
  <2> QED BY <1>1, <1>2, Recursion
<1> DEFINE g == [i \in 1 .. k |-> f[i]]
<1>4. g \in [1 .. k -> T]
  OBVIOUS
<1>5. \A i \in 1 .. k : f[i] = f[i - 1] \o ss[i]
  <2> TAKE i \in 1 .. k
  <2>1. i \in Nat /\ i - 1 \in 0 .. k
    BY <1>1
  <2>4. f[i - 1] \in T
    <3> HIDE DEF T
    <3> QED BY <2>1
  <2>2. \A t \in T : step[i][t] = t \o ss[i]
    BY <2>1 DEF step
  <2>3. f[i] = step[i][f[i - 1]]
    BY <1>3 DEF Follows
  <2> QED BY <2>2, <2>3, <2>4
<1>6. f[1] = ss[1]
  <2>1. f[0] = <<>> /\ 1 \in 1 .. k
    BY <1>1, <1>3 DEF Follows, b
  <2>2. <<>> \o ss[1] = ss[1]
    BY <1>1, <2>1
  <2> QED BY <1>5, <2>1, <2>2
<1>7. FlatIs(ss, g)
  <2>1. \A i \in 1 .. k : g[i] = IF i = 1 THEN ss[i] ELSE g[i - 1] \o ss[i]
    <3> TAKE i \in 1 .. k
    <3>1. CASE i = 1
      BY <1>1, <1>6, <3>1
    <3>2. CASE i # 1
      <4>1. i - 1 \in 1 .. k
        BY <1>1, <3>2
      <4> QED BY <1>5, <3>2, <4>1
    <3> QED BY <3>1, <3>2
  <2> QED BY <2>1 DEF FlatIs
<1> HIDE DEF g
<1>8. ASSUME NEW h, FlatIs(ss, h) PROVE h = g
  <2>1. \A e : FlatIs(ss, e) =>
          /\ 1 \in 1 .. k => e[1] = ss[1]
          /\ \A i \in Nat : i # 0 /\ i + 1 \in 1 .. k => e[i + 1] = Cat(e[i], ss[i + 1])
    BY <1>1, FlatStep
  <2>2. \A e : FlatIs(ss, e) => e = [i \in 1 .. k |-> e[i]]
    BY DEF FlatIs
  <2> DEFINE X == {j \in Nat : j \in 1 .. k => h[j] = g[j]}
  <2>3. 0 \in X
    OBVIOUS
  <2>4. ASSUME NEW j \in Nat, j \in X PROVE j + 1 \in X
    <3> SUFFICES ASSUME j + 1 \in 1 .. k PROVE h[j + 1] = g[j + 1]
      OBVIOUS
    <3>1. CASE j = 0
      BY <1>7, <1>8, <2>1, <3>1
    <3>2. CASE j # 0
      <4>1. j \in 1 .. k
        BY <1>1, <3>2
      <4>2. h[j] = g[j]
        BY <2>4, <4>1
      <4>3. h[j + 1] = Cat(h[j], ss[j + 1])
        BY <1>8, <2>1, <3>2
      <4>4. g[j + 1] = Cat(g[j], ss[j + 1])
        BY <1>7, <2>1, <3>2
      <4> QED BY <4>2, <4>3, <4>4
    <3> QED BY <3>1, <3>2
  <2>5. Nat \subseteq X
    BY <2>3, <2>4, AllNumbers
  <2>6. \A i \in 1 .. k : h[i] = g[i]
    BY <2>5
  <2>7. h = [i \in 1 .. k |-> h[i]] /\ g = [i \in 1 .. k |-> g[i]]
    BY <1>7, <1>8, <2>2
  <2> QED BY <2>6, <2>7
<1>9. FlattenSeq(ss) = g[k]
  <2> DEFINE c == CHOOSE h : FlatIs(ss, h)
  <2>1. c = g
    BY <1>7, <1>8
  <2>2. FlattenSeq(ss) = c[k]
    BY <1>1 DEF FlattenSeq, FlatIs
  <2> QED BY <2>1, <2>2
<1> QED BY <1>4, <1>7, <1>9

\* No blocks: no messages.
LEMMA FlatEmpty == FlattenSeq(<<>>) = <<>>
BY DEF FlattenSeq

\* Blocks of messages joined are messages.
LEMMA FlatSeq ==
  ASSUME NEW S
  PROVE  \A ss \in Seq(Seq(S)) : FlattenSeq(ss) \in Seq(S)
<1> TAKE ss \in Seq(Seq(S))
<1>1. CASE ss = <<>>
  <2>1. <<>> \in Seq(S)
    OBVIOUS
  <2> QED BY <1>1, <2>1, FlatEmpty, Zenon
<1>2. CASE ss # <<>>
  <2>1. PICK g \in [1 .. Len(ss) -> Seq(S)] : FlatIs(ss, g) /\ FlattenSeq(ss) = g[Len(ss)]
    BY <1>2, FlatFunction
  <2>2. Len(ss) \in 1 .. Len(ss)
    BY <1>2
  <2> QED BY <2>1, <2>2
<1> QED BY <1>1, <1>2

\* A block put behind the others puts its messages behind theirs.
LEMMA FlatAppend ==
  ASSUME NEW S
  PROVE  \A ss \in Seq(Seq(S)), x \in Seq(S) : FlattenSeq(Append(ss, x)) = FlattenSeq(ss) \o x
<1> TAKE ss \in Seq(Seq(S)), x \in Seq(S)
<1> DEFINE u == Append(ss, x)
           k == Len(ss)
<1>1. /\ k \in Nat /\ u \in Seq(Seq(S)) /\ Len(u) = k + 1 /\ u # <<>>
      /\ u[k + 1] = x /\ \A i \in 1 .. k : u[i] = ss[i]
  <2> DEFINE T == Seq(S)
  <2>1. ss \in Seq(T) /\ x \in T
    OBVIOUS
  <2> HIDE DEF T
  <2>2. /\ k \in Nat /\ u \in Seq(T) /\ Len(u) = k + 1 /\ u # <<>>
        /\ u[k + 1] = x /\ \A i \in 1 .. k : u[i] = ss[i]
    BY <2>1
  <2> QED BY <2>2 DEF T
<1>7. Len(u) = k + 1 /\ k \in Nat /\ u[k + 1] = x /\ \A i \in 1 .. k : u[i] = ss[i]
  BY <1>1
<1> HIDE DEF u
<1>2. PICK h \in [1 .. Len(u) -> Seq(S)] : FlatIs(u, h) /\ FlattenSeq(u) = h[Len(u)]
  BY FlatFunction, <1>1
<1>3. h[1] = u[1] /\ \A i \in Nat : i # 0 /\ i \in 1 .. k => h[i + 1] = Cat(h[i], u[i + 1])
  <2>1. /\ 1 \in 1 .. Len(u) => h[1] = u[1]
        /\ \A i \in Nat : i # 0 /\ i + 1 \in 1 .. Len(u) => h[i + 1] = Cat(h[i], u[i + 1])
    <3>1. Len(u) \in Nat /\ FlatIs(u, h)
      BY <1>2, <1>7
    <3> QED BY <3>1, FlatStep
  <2> QED BY <1>7, <2>1
<1>8. k \in Nat
  BY <1>7
<1>4. CASE ss = <<>>
  <2>1. k = 0
    BY <1>4
  <2>2. FlattenSeq(u) = x
    BY <1>2, <1>3, <1>7, <2>1
  <2>3. <<>> \o x = x
    BY ConcatEmptySeq
  <2> QED BY <1>4, <2>2, <2>3, FlatEmpty DEF u
<1>5. CASE ss # <<>>
  <2>1. PICK g \in [1 .. k -> Seq(S)] : FlatIs(ss, g) /\ FlattenSeq(ss) = g[k]
    BY FlatFunction, <1>5
  <2>2. /\ 1 \in 1 .. k => g[1] = ss[1]
        /\ \A i \in Nat : i # 0 /\ i + 1 \in 1 .. k => g[i + 1] = Cat(g[i], ss[i + 1])
    BY <1>7, <2>1, FlatStep
  <2> DEFINE X == {j \in Nat : j \in 1 .. k => h[j] = g[j]}
  <2>3. 0 \in X
    OBVIOUS
  <2>4. ASSUME NEW j \in Nat, j \in X PROVE j + 1 \in X
    <3> SUFFICES ASSUME j + 1 \in 1 .. k PROVE h[j + 1] = g[j + 1]
      OBVIOUS
    <3>1. u[j + 1] = ss[j + 1]
      BY <1>7
    <3>2. CASE j = 0
      BY <1>3, <2>2, <3>1, <3>2
    <3>3. CASE j # 0
      <4>1. j \in 1 .. k
        BY <1>7, <3>3
      <4>2. h[j] = g[j]
        BY <2>4, <4>1
      <4>3. h[j + 1] = Cat(h[j], u[j + 1])
        BY <1>3, <3>3, <4>1
      <4>4. g[j + 1] = Cat(g[j], ss[j + 1])
        BY <2>2, <3>3
      <4> QED BY <3>1, <4>2, <4>3, <4>4
    <3> QED BY <3>2, <3>3
  <2>5. Nat \subseteq X
    BY <2>3, <2>4, AllNumbers
  <2>6. k \in 1 .. k /\ k # 0
    BY <1>7, <1>5
  <2>7. h[k] = g[k]
    BY <1>7, <2>5, <2>6
  <2>8. h[k + 1] = Cat(h[k], x)
    BY <1>3, <1>7, <2>6
  <2> QED BY <1>7, <1>2, <2>1, <2>7, <2>8 DEF u, Cat
<1> QED BY <1>4, <1>5

\* Joining sequences is associative.
LEMMA Associative ==
  ASSUME NEW S
  PROVE  \A a, b, c \in Seq(S) : (a \o b) \o c = a \o (b \o c)
BY ConcatAssociative

\* The messages of the first block come before the others.
LEMMA FlatHead ==
  ASSUME NEW S
  PROVE  \A ss \in Seq(Seq(S)) :
           ss # <<>> => FlattenSeq(ss) = Head(ss) \o FlattenSeq(Tail(ss))
<1> DEFINE X == {k \in Nat : \A ss \in Seq(Seq(S)) :
                   Len(ss) = k + 1 => FlattenSeq(ss) = Head(ss) \o FlattenSeq(Tail(ss))}
<1>1. \A a, b, c \in Seq(S) : (a \o b) \o c = a \o (b \o c)
  BY Associative
<1>2. 0 \in X
  <2> SUFFICES ASSUME NEW ss \in Seq(Seq(S)), Len(ss) = 1
               PROVE  FlattenSeq(ss) = Head(ss) \o FlattenSeq(Tail(ss))
    OBVIOUS
  <2>1. ss = Append(<<>>, Head(ss)) /\ Tail(ss) = <<>> /\ Head(ss) \in Seq(S)
    <3> DEFINE T == Seq(S)
    <3>1. ss \in Seq(T) /\ ss # <<>>
      OBVIOUS
    <3> HIDE DEF T
    <3>2. PICK v \in Seq(T), x \in T : ss = Append(v, x)
      BY <3>1, SequenceEmptyOrAppend
    <3>3. v = <<>>
      BY <3>2
    <3>4. Head(ss) = x /\ Tail(ss) = <<>>
      BY <3>2, <3>3, HeadTailAppend
    <3> QED BY <3>2, <3>3, <3>4 DEF T
  <2>2. FlattenSeq(Append(<<>>, Head(ss))) = FlattenSeq(<<>>) \o Head(ss)
    <3>1. <<>> \in Seq(Seq(S))
      OBVIOUS
    <3> QED BY <2>1, <3>1, FlatAppend
  <2>3. Head(ss) \o <<>> = Head(ss) /\ <<>> \o Head(ss) = Head(ss)
    BY <2>1, ConcatEmptySeq
  <2> QED BY <2>1, <2>2, <2>3, FlatEmpty
<1>3. ASSUME NEW k \in Nat, k \in X PROVE k + 1 \in X
  <2> SUFFICES ASSUME NEW ss \in Seq(Seq(S)), Len(ss) = k + 1 + 1
               PROVE  FlattenSeq(ss) = Head(ss) \o FlattenSeq(Tail(ss))
    OBVIOUS
  <2>1. PICK v \in Seq(Seq(S)), x \in Seq(S) : ss = Append(v, x)
    <3>1. ss # <<>>
      OBVIOUS
    <3> QED BY <3>1, SequenceEmptyOrAppend
  <2>2. Len(v) = k + 1 /\ v # <<>>
    BY <2>1
  <2>3. FlattenSeq(v) = Head(v) \o FlattenSeq(Tail(v))
    BY <1>3, <2>2
  <2>4. Head(ss) = Head(v) /\ Tail(ss) = Append(Tail(v), x) /\ Tail(v) \in Seq(Seq(S)) /\ Head(v) \in Seq(S)
    BY <2>1, <2>2
  <2>5. /\ FlattenSeq(ss) = FlattenSeq(v) \o x
        /\ FlattenSeq(Tail(ss)) = FlattenSeq(Tail(v)) \o x
    BY <2>1, <2>4, FlatAppend
  <2>6. FlattenSeq(Tail(v)) \in Seq(S)
    BY <2>4, FlatSeq
  <2>7. (Head(v) \o FlattenSeq(Tail(v))) \o x = Head(v) \o (FlattenSeq(Tail(v)) \o x)
    BY <1>1, <2>4, <2>6, Zenon
  <2> QED BY <2>3, <2>4, <2>5, <2>7
<1>4. Nat \subseteq X
  BY <1>2, <1>3, AllNumbers
<1> QED
  <2> SUFFICES ASSUME NEW ss \in Seq(Seq(S)), ss # <<>>
               PROVE  FlattenSeq(ss) = Head(ss) \o FlattenSeq(Tail(ss))
    OBVIOUS
  <2>1. Len(ss) - 1 \in Nat /\ Len(ss) - 1 + 1 = Len(ss)
    OBVIOUS
  <2> QED BY <1>4, <2>1

-----------------------------------------------------------------------------
(* What sequences are made of: the messages of one pair, in their order.   *)

\* Joining sequences: the laws that the lemmas below use.
LEMMA CatFacts ==
  ASSUME NEW S
  PROVE  /\ \A x, y \in Seq(S) : Cat(x, y) \in Seq(S)
         /\ \A x \in Seq(S) : Cat(<<>>, x) = x /\ Cat(x, <<>>) = x
         /\ \A x, y \in Seq(S), m \in S : Cat(x, Append(y, m)) = Append(Cat(x, y), m)
         /\ \A x, y \in Seq(S), m \in S : Cat(x, Cat(<<m>>, y)) = Cat(Append(x, m), y)
<1>1. \A x, y \in Seq(S) : Cat(x, y) \in Seq(S)
  BY DEF Cat
<1>2. \A x \in Seq(S) : Cat(<<>>, x) = x /\ Cat(x, <<>>) = x
  BY ConcatEmptySeq DEF Cat
<1>3. \A x, y \in Seq(S), m \in S : Cat(x, Append(y, m)) = Append(Cat(x, y), m)
  BY DEF Cat
<1>4. \A x, y \in Seq(S), m \in S : Cat(x, Cat(<<m>>, y)) = Cat(Append(x, m), y)
  <2> TAKE x, y \in Seq(S), m \in S
  <2>1. <<m>> \in Seq(S)
    OBVIOUS
  <2> DEFINE u == <<m>>
  <2>2. Append(x, m) = x \o u
    OBVIOUS
  <2> HIDE DEF u
  <2>3. x \o (u \o y) = (x \o u) \o y
    BY <2>1, ConcatAssociative DEF u
  <2> QED BY <2>2, <2>3 DEF Cat, u
<1> QED BY <1>1, <1>2, <1>3, <1>4

\* Moving something between neighbours changes nothing of the whole.
LEMMA CatMoved ==
  ASSUME NEW S
  PROVE  \A x, y, v, w, r \in Seq(S) : Cat(x, y) = Cat(v, w) => Cat(x, Cat(y, r)) = Cat(v, Cat(w, r))
<1>1. \A a, b, c \in Seq(S) : Cat(Cat(a, b), c) = Cat(a, Cat(b, c))
  BY Associative DEF Cat
<1> QED BY <1>1

\* OfConcat for Cat.
LEMMA OfCat ==
  ASSUME NEW S, NEW n
  PROVE  \A s, t \in Seq(S) : Of(n, s \o t) = Cat(Of(n, s), Of(n, t))
BY OfConcat DEF Cat

\* Of one message.
LEMMA OfOne == \A n, m : Of(n, <<m>>) = IF m[1] = n THEN <<m>> ELSE <<>>
<1> TAKE n, m
<1> DEFINE e == <<>>
           S == {m}
<1>1. e \in Seq(S) /\ m \in S /\ Append(e, m) = <<m>>
  OBVIOUS
<1> HIDE DEF e, S
<1>2. Of(n, Append(e, m)) = IF m[1] = n THEN Append(Of(n, e), m) ELSE Of(n, e)
  <2>1. \A s \in Seq(S), x \in S :
          Of(n, Append(s, x)) = IF x[1] = n THEN Append(Of(n, s), x) ELSE Of(n, s)
    BY OfAppend
  <2> QED BY <1>1, <2>1, Zenon
<1>3. Of(n, e) = e
  BY OfEmpty DEF e
<1> QED BY <1>1, <1>2, <1>3 DEF e

\* Of a message and of those behind it.
LEMMA OfSplit ==
  ASSUME NEW S, NEW n
  PROVE  \A s \in Seq(S) : s # <<>> => Of(n, s) = Cat(Of(n, <<Head(s)>>), Of(n, Tail(s)))
<1> SUFFICES ASSUME NEW s \in Seq(S), s # <<>>
             PROVE  Of(n, s) = Cat(Of(n, <<Head(s)>>), Of(n, Tail(s)))
  OBVIOUS
<1> DEFINE h == <<Head(s)>>
           t == Tail(s)
<1>1. h \in Seq(S) /\ t \in Seq(S) /\ s = h \o t
  OBVIOUS
<1> HIDE DEF h, t
<1>2. Of(n, h \o t) = Cat(Of(n, h), Of(n, t))
  BY <1>1, OfCat
<1> QED BY <1>1, <1>2 DEF h, t

\* The messages of pair n from number a up to, and not with, number b.
Numbers(n, a, b) == [i \in 1 .. (b - a) |-> <<n, a + i - 1>>]
\* The next number comes behind the others.
LEMMA NumbersAppend ==
  \A n : \A a \in Nat, b \in Nat : a <= b => Numbers(n, a, b + 1) = Append(Numbers(n, a, b), <<n, b>>)
<1> SUFFICES ASSUME NEW n, NEW a \in Nat, NEW b \in Nat, a <= b
             PROVE  Numbers(n, a, b + 1) = Append(Numbers(n, a, b), <<n, b>>)
  OBVIOUS
<1> DEFINE S == {n} \X Nat
<1>1. \A k \in Nat : [i \in 1 .. k |-> <<n, a + i - 1>>] \in Seq(S) /\ Len([i \in 1 .. k |-> <<n, a + i - 1>>]) = k
  OBVIOUS
<1>2. b - a \in Nat /\ b + 1 - a = (b - a) + 1
  OBVIOUS
<1>3. /\ Numbers(n, a, b) \in Seq(S) /\ Len(Numbers(n, a, b)) = b - a
      /\ Numbers(n, a, b + 1) \in Seq(S) /\ Len(Numbers(n, a, b + 1)) = (b - a) + 1
      /\ <<n, b>> \in S
  BY <1>1, <1>2 DEF Numbers
<1>4. /\ \A i \in 1 .. (b - a) : Numbers(n, a, b + 1)[i] = Numbers(n, a, b)[i]
      /\ Numbers(n, a, b + 1)[(b - a) + 1] = <<n, b>>
  BY <1>2 DEF Numbers
<1> HIDE DEF S
<1> DEFINE u == Numbers(n, a, b)
           v == Numbers(n, a, b + 1)
           m == <<n, b>>
           k == b - a
<1>5. k \in Nat /\ u \in Seq(S) /\ Len(u) = k /\ v \in Seq(S) /\ Len(v) = k + 1 /\ m \in S
  BY <1>2, <1>3
<1>6. (\A i \in 1 .. k : v[i] = u[i]) /\ v[k + 1] = m
  BY <1>4
<1> HIDE DEF u, v, m, k
<1>7. v = Append(u, m)
  BY <1>5, <1>6
<1> QED BY <1>7 DEF u, v, m

-----------------------------------------------------------------------------
(* Sums over finite sets.                                                  *)

\* The function that a sum over S is defined by: the sums over the subsets of S.
Chosen(T) == CHOOSE x \in T : TRUE
AddUp(g, f, D) == g = [T \in D |-> IF T = {} THEN 0 ELSE f[Chosen(T)] + g[T \ {Chosen(T)}]]
Sums(g, f, S) == AddUp(g, f, SUBSET S)

\* The element that a sum takes next is one of the set.
LEMMA ChosenIn == \A T : T # {} => Chosen(T) \in T
BY DEF Chosen

\* The subsets of a finite set with at most n elements.
UpTo(S, n) == {T \in SUBSET S : Cardinality(T) <= n}

\* The sums of f over the subsets of S with up to n elements exist.
LEMMA SumsUpTo ==
  ASSUME NEW S, IsFiniteSet(S), NEW f, NEW n \in Nat
  PROVE  \E g : AddUp(g, f, UpTo(S, n))
<1> DEFINE X == {k \in Nat : ~\E g : AddUp(g, f, UpTo(S, k))}
<1> SUFFICES X = {}
  OBVIOUS
<1>1. SUFFICES ASSUME X # {} PROVE FALSE
  OBVIOUS
<1>2. PICK m \in X : \A k \in X : m <= k
  BY <1>1, LeastNumber
<1>3. \A T \in SUBSET S : IsFiniteSet(T) /\ Cardinality(T) \in Nat /\ (Cardinality(T) = 0 <=> T = {})
  BY FS_Subset, FS_CardinalityType, FS_EmptySet
<1>4. CASE m = 0
  <2>1. UpTo(S, 0) = {{}}
    BY <1>3, FS_EmptySet DEF UpTo
  <2>2. AddUp([T \in {{}} |-> 0], f, {{}})
    BY DEF AddUp
  <2> QED BY <1>2, <1>4, <2>1, <2>2
<1>5. CASE m # 0
  <2>1. m - 1 \in Nat /\ m - 1 \notin X
    BY <1>2, <1>5
  <2>2. PICK g : AddUp(g, f, UpTo(S, m - 1))
    BY <2>1
  <2> DEFINE h == [T \in UpTo(S, m) |-> IF T = {} THEN 0 ELSE f[Chosen(T)] + g[T \ {Chosen(T)}]]
  <2>3. ASSUME NEW T \in UpTo(S, m), T # {}
        PROVE  T \ {Chosen(T)} \in UpTo(S, m - 1)
    <3>1. Chosen(T) \in T /\ IsFiniteSet(T)
      BY <1>3, <2>3, ChosenIn DEF UpTo
    <3>2. Cardinality(T \ {Chosen(T)}) = Cardinality(T) - 1
      BY <3>1, FS_RemoveElement
    <3> QED BY <1>3, <2>1, <3>2 DEF UpTo
  <2>4. ASSUME NEW T \in UpTo(S, m - 1)
        PROVE  T \in UpTo(S, m) /\ h[T] = g[T]
    <3>1. T \in UpTo(S, m)
      BY <1>3, <2>1 DEF UpTo
    <3>2. g[T] = IF T = {} THEN 0 ELSE f[Chosen(T)] + g[T \ {Chosen(T)}]
      BY <2>2 DEF AddUp
    <3> QED BY <3>1, <3>2
  <2>5. \A T \in UpTo(S, m) : T # {} => h[T \ {Chosen(T)}] = g[T \ {Chosen(T)}]
    BY <2>3, <2>4
  <2>6. h = [T \in UpTo(S, m) |-> IF T = {} THEN 0 ELSE f[Chosen(T)] + h[T \ {Chosen(T)}]]
    BY <2>5
  <2>7. AddUp(h, f, UpTo(S, m))
    BY <2>6 DEF AddUp
  <2> QED BY <1>2, <2>7
<1> QED BY <1>4, <1>5

\* The sums of f over all subsets of a finite set exist.
LEMMA SumsExist ==
  ASSUME NEW S, IsFiniteSet(S), NEW f
  PROVE  \E g : Sums(g, f, S)
<1>1. Cardinality(S) \in Nat /\ UpTo(S, Cardinality(S)) = SUBSET S
  BY FS_CardinalityType, FS_Subset DEF UpTo
<1>2. PICK g : AddUp(g, f, UpTo(S, Cardinality(S)))
  BY <1>1, SumsUpTo
<1> QED BY <1>1, <1>2 DEF Sums

\* One more at c in S is one more in the sum.
Grown(e, f, c) == e = [f EXCEPT ![c] = @ + 1]
Counts(f, S) == IsFiniteSet(S) /\ f \in [S -> Nat]
LEMMA SumsGrow ==
  \A S, f, c, g, h, e : Counts(f, S) /\ c \in S /\ Sums(g, f, S) /\ Grown(e, f, c) /\ Sums(h, e, S)
                         => h[S] = g[S] + 1
<1> TAKE S, f, c, g, h, e
<1> SUFFICES ASSUME IsFiniteSet(S), f \in [S -> Nat], c \in S, Sums(g, f, S),
                    e = [f EXCEPT ![c] = @ + 1], Sums(h, e, S)
             PROVE  h[S] = g[S] + 1
  BY Zenon DEF Grown, Counts
<1> DEFINE Right(T) == g[T] \in Nat /\ h[T] = IF c \in T THEN g[T] + 1 ELSE g[T]
           X == {k \in Nat : \E T \in SUBSET S : Cardinality(T) = k /\ ~Right(T)}
<1>1. \A T \in SUBSET S : IsFiniteSet(T) /\ Cardinality(T) \in Nat
  BY FS_Subset, FS_CardinalityType
<1>2. X = {}
  <2> SUFFICES ASSUME X # {} PROVE FALSE
    OBVIOUS
  <2>1. PICK m \in X : \A k \in X : m <= k
    BY LeastNumber
  <2>2. PICK T \in SUBSET S : Cardinality(T) = m /\ ~Right(T)
    BY <2>1
  <2>3. /\ g[T] = IF T = {} THEN 0 ELSE f[Chosen(T)] + g[T \ {Chosen(T)}]
        /\ h[T] = IF T = {} THEN 0 ELSE e[Chosen(T)] + h[T \ {Chosen(T)}]
    BY DEF Sums, AddUp
  <2>4. T # {}
    BY <2>2, <2>3
  <2> DEFINE x == Chosen(T)  R == T \ {x}
  <2>5. x \in T /\ R \in SUBSET S
    BY <2>4, ChosenIn
  <2>6. Cardinality(R) = m - 1
    BY <1>1, <2>2, <2>5, FS_RemoveElement
  <2>7. Right(R)
    <3>1. m - 1 \in Nat /\ m - 1 \notin X
      BY <1>1, <2>1, <2>5, <2>6
    <3> QED BY <2>5, <2>6, <3>1
  <2> HIDE DEF x
  <2>8. /\ f[x] \in Nat /\ e[x] = IF x = c THEN f[x] + 1 ELSE f[x]
        /\ c \in T <=> c = x \/ c \in R
        /\ ~(c = x /\ c \in R)
    BY <2>5
  <2>9. g[T] = f[x] + g[R] /\ h[T] = e[x] + h[R]
    BY <2>3, <2>4 DEF x
  <2> HIDE DEF R
  <2>10. Right(T)
    BY <2>7, <2>8, <2>9
  <2> QED BY <2>2, <2>10
<1>3. Right(S)
  BY <1>1, <1>2
<1> QED BY <1>3

\* Nothing to add makes 0.
LEMMA SumsZero ==
  ASSUME NEW S, IsFiniteSet(S), NEW g, Sums(g, [c \in S |-> 0], S)
  PROVE  g[S] = 0
<1> DEFINE f == [c \in S |-> 0]
           X == {k \in Nat : \E T \in SUBSET S : Cardinality(T) = k /\ g[T] # 0}
<1>1. \A T \in SUBSET S : IsFiniteSet(T) /\ Cardinality(T) \in Nat
  BY FS_Subset, FS_CardinalityType
<1>2. X = {}
  <2> SUFFICES ASSUME X # {} PROVE FALSE
    OBVIOUS
  <2>1. PICK m \in X : \A k \in X : m <= k
    BY LeastNumber
  <2>2. PICK T \in SUBSET S : Cardinality(T) = m /\ g[T] # 0
    BY <2>1
  <2>3. g[T] = IF T = {} THEN 0 ELSE f[Chosen(T)] + g[T \ {Chosen(T)}]
    BY DEF Sums, AddUp
  <2>4. T # {} /\ Chosen(T) \in T
    BY <2>2, <2>3, ChosenIn
  <2>5. Cardinality(T \ {Chosen(T)}) = m - 1
    BY <1>1, <2>2, <2>4, FS_RemoveElement
  <2>6. g[T \ {Chosen(T)}] = 0
    BY <1>1, <2>1, <2>5
  <2> QED BY <2>2, <2>3, <2>4, <2>6
<1> QED BY <1>1, <1>2

\* None of the numbers is greater than their sum.
LEMMA SumsBound ==
  ASSUME NEW S, IsFiniteSet(S), NEW f \in [S -> Nat], NEW g, Sums(g, f, S)
  PROVE  g[S] \in Nat /\ \A c \in S : f[c] <= g[S]
<1> DEFINE Right(T) == g[T] \in Nat /\ \A c \in T : f[c] <= g[T]
           X == {k \in Nat : \E T \in SUBSET S : Cardinality(T) = k /\ ~Right(T)}
<1>1. \A T \in SUBSET S : IsFiniteSet(T) /\ Cardinality(T) \in Nat
  BY FS_Subset, FS_CardinalityType
<1>2. X = {}
  <2> SUFFICES ASSUME X # {} PROVE FALSE
    OBVIOUS
  <2>1. PICK m \in X : \A k \in X : m <= k
    BY LeastNumber
  <2>2. PICK T \in SUBSET S : Cardinality(T) = m /\ ~Right(T)
    BY <2>1
  <2>3. g[T] = IF T = {} THEN 0 ELSE f[Chosen(T)] + g[T \ {Chosen(T)}]
    BY DEF Sums, AddUp
  <2>4. T # {}
    BY <2>2, <2>3
  <2> DEFINE x == Chosen(T)  R == T \ {x}
  <2>5. x \in T /\ R \in SUBSET S
    BY <2>4, ChosenIn
  <2>6. Cardinality(R) = m - 1
    BY <1>1, <2>2, <2>5, FS_RemoveElement
  <2>7. Right(R)
    <3>1. m - 1 \in Nat /\ m - 1 \notin X
      BY <1>1, <2>1, <2>5, <2>6
    <3> QED BY <2>5, <2>6, <3>1
  <2> HIDE DEF x
  <2>8. f[x] \in Nat /\ \A c \in T : c = x \/ c \in R
    BY <2>5
  <2>9. g[T] = f[x] + g[R]
    BY <2>3, <2>4 DEF x
  <2> HIDE DEF R
  <2>10. \A c \in T : f[c] \in Nat
    OBVIOUS
  <2>11. Right(T)
    BY <2>7, <2>8, <2>9, <2>10
  <2> QED BY <2>2, <2>11
<1>3. Right(S)
  BY <1>1, <1>2
<1> QED BY <1>3

-----------------------------------------------------------------------------
(* Divisors and powers of two.                                             *)

Divides(d, n) == \E k \in Nat : n = d * k
\* The powers of two: the numbers in every set that has 1 and is closed under doubling.
Doubling(X) == 1 \in X /\ \A n \in X : 2 * n \in X
Powers == {n \in Nat : \A X \in SUBSET Nat : Doubling(X) => n \in X}

\* The remainder is 0 when the number is divided.
LEMMA NoRemainder ==
  ASSUME NEW d \in Nat \ {0}, NEW n \in Nat
  PROVE  n % d = 0 <=> Divides(d, n)
<1>1. /\ n \div d \in Nat /\ n % d \in 0 .. (d - 1)
      /\ n = d * (n \div d) + (n % d)
  <2>1. /\ n % d \in 0 .. (d - 1) /\ n \div d \in Nat
        /\ n = (n % d) + (n \div d) * d
    OBVIOUS
  <2> DEFINE q == n \div d  r == n % d
  <2>2. q \in Nat /\ r \in Nat /\ n = r + q * d
    BY <2>1
  <2> HIDE DEF q, r
  <2>3. n = d * q + r
    BY <2>2
  <2> QED BY <2>1, <2>3 DEF q, r
<1>2. ASSUME n % d = 0 PROVE Divides(d, n)
  <2>1. n = d * (n \div d)
    BY <1>1, <1>2
  <2> QED BY <1>1, <2>1 DEF Divides
<1>3. ASSUME Divides(d, n) PROVE n % d = 0
  <2>1. PICK k \in Nat : n = d * k
    BY <1>3 DEF Divides
  <2> DEFINE q == n \div d  r == n % d
  <2>2. q \in Nat /\ r \in 0 .. (d - 1) /\ d * k = d * q + r
    BY <1>1, <2>1
  <2> HIDE DEF q, r
  <2>3. \A x, y \in Nat : x < y => d * x + d <= d * y
    <3> TAKE x, y \in Nat
    <3> HAVE x < y
    <3>1. PICK z \in Nat : y = x + 1 + z
      <4>1. y - x - 1 \in Nat /\ y = x + 1 + (y - x - 1)
        OBVIOUS
      <4> QED BY <4>1
    <3>2. d * y = d * x + d + d * z /\ d * z \in Nat /\ d * x \in Nat
      BY <3>1
    <3> QED BY <3>2
  <2>4. d * k \in Nat /\ d * q \in Nat
    BY <2>2
  <2>5. ~(q < k)
    BY <2>2, <2>3, <2>4
  <2>6. ~(k < q)
    BY <2>2, <2>3, <2>4
  <2>7. q = k
    BY <2>2, <2>5, <2>6
  <2> QED BY <2>2, <2>4, <2>7 DEF r
<1> QED BY <1>2, <1>3

\* The powers of two have 1 and their doubles, and no others.
LEMMA PowersDouble ==
  /\ 1 \in Powers /\ \A n \in Powers : 2 * n \in Powers
  /\ \A n \in Powers : n = 1 \/ \E m \in Powers : n = 2 * m
<1>1. 1 \in Powers
  BY DEF Powers, Doubling
<1>2. ASSUME NEW n \in Powers PROVE 2 * n \in Powers
  BY DEF Powers, Doubling
<1>3. ASSUME NEW n \in Powers PROVE n = 1 \/ \E m \in Powers : n = 2 * m
  <2> DEFINE X == {k \in Powers : k = 1 \/ \E m \in Powers : k = 2 * m}
  <2>1. Doubling(X) /\ X \in SUBSET Nat
    BY <1>1, <1>2 DEF Powers, Doubling
  <2>2. n \in X
    BY <2>1 DEF Powers
  <2> QED BY <2>2
<1> QED BY <1>1, <1>2, <1>3

LEMMA PowersIn == \A n \in Powers : n \in Nat \ {0}
<1> TAKE n \in Powers
<1>1. Doubling(Nat \ {0}) /\ Nat \ {0} \in SUBSET Nat
  BY DEF Doubling
<1> QED BY <1>1 DEF Powers

\* Of two different powers of two, the double of one divides the other.
Compare(a, b) == a = b \/ Divides(2 * a, b) \/ Divides(2 * b, a)
LEMMA PowersCompare == \A a, b \in Powers : Compare(a, b)
<1> DEFINE X == {a \in Powers : \A b \in Powers : Compare(a, b)}
<1>1. 1 \in X
  <2> SUFFICES ASSUME NEW b \in Powers PROVE Compare(1, b)
    BY PowersDouble
  <2>1. CASE b = 1
    BY <2>1 DEF Compare
  <2>2. CASE b # 1
    <3>1. PICK m \in Powers : b = 2 * m
      BY <2>2, PowersDouble
    <3>2. m \in Nat /\ b = (2 * 1) * m
      BY <3>1, PowersIn
    <3>3. Divides(2 * 1, b)
      BY <3>2 DEF Divides
    <3> QED BY <3>3 DEF Compare
  <2> QED BY <2>1, <2>2
<1>2. ASSUME NEW a \in X PROVE 2 * a \in X
  <2>0. a \in Powers /\ 2 * a \in Powers /\ a \in Nat
    BY PowersDouble, PowersIn
  <2> SUFFICES ASSUME NEW b \in Powers PROVE Compare(2 * a, b)
    BY <2>0
  <2>1. CASE b = 1
    <3>1. 2 * a = (2 * b) * a
      BY <2>0, <2>1
    <3>2. Divides(2 * b, 2 * a)
      BY <2>0, <3>1 DEF Divides
    <3> QED BY <3>2 DEF Compare
  <2>2. CASE b # 1
    <3>1. PICK m \in Powers : b = 2 * m
      BY <2>2, PowersDouble
    <3>2. m \in Nat /\ Compare(a, m)
      BY <3>1, PowersIn
    <3>3. CASE a = m
      BY <3>1, <3>3 DEF Compare
    <3>4. CASE Divides(2 * a, m)
      <4>1. PICK k \in Nat : m = (2 * a) * k
        BY <3>4 DEF Divides
      <4>2. b = (2 * (2 * a)) * k
        BY <2>0, <3>1, <4>1
      <4> QED BY <4>2 DEF Compare, Divides
    <3>5. CASE Divides(2 * m, a)
      <4>1. PICK k \in Nat : a = (2 * m) * k
        BY <3>5 DEF Divides
      <4>2. 2 * a = (2 * b) * k
        BY <3>1, <3>2, <4>1
      <4> QED BY <4>2 DEF Compare, Divides
    <3> QED BY <3>2, <3>3, <3>4, <3>5 DEF Compare
  <2> QED BY <2>1, <2>2
<1>3. Doubling(X) /\ X \in SUBSET Nat
  BY <1>1, <1>2, PowersIn DEF Doubling
<1>4. ASSUME NEW a \in Powers PROVE a \in X
  BY <1>3 DEF Powers
<1> QED BY <1>4

\* A divisor of an allowed number is that number, or its double is a divisor too.
LEMMA DoubleDivides ==
  ASSUME NEW n \in Nat \ {0}, \A d \in 2 .. n : n % d = 0 => d % 2 = 0,
         NEW g \in Nat \ {0}, Divides(g, n), g < n
  PROVE  Divides(2 * g, n)
<1>1. PICK m \in Nat : n = g * m
  BY DEF Divides
<1>2. m # 0 /\ m # 1
  BY <1>1
<1>3. m <= g * m
  BY <1>2
<1>4. m \in 2 .. n
  BY <1>1, <1>2, <1>3
<1>5. n = m * g
  BY <1>1
<1>6. Divides(m, n)
  BY <1>5 DEF Divides
<1>7. n % m = 0
  BY <1>2, <1>6, NoRemainder
<1>8. m % 2 = 0
  BY <1>4, <1>7
<1>9. Divides(2, m)
  BY <1>8, NoRemainder
<1>10. PICK k \in Nat : m = 2 * k
  BY <1>9 DEF Divides
<1>11. n = (2 * g) * k
  BY <1>1, <1>10
<1> QED BY <1>11 DEF Divides

\* Two multiples differ by the divisor at least.
LEMMA NextMultiple ==
  ASSUME NEW d \in Nat \ {0}, NEW t \in Nat, NEW n \in Nat, Divides(d, t), Divides(d, n), t < n
  PROVE  t + d <= n
<1>1. PICK k \in Nat : t = d * k
  BY DEF Divides
<1>2. PICK m \in Nat : n = d * m
  BY DEF Divides
<1>3. k < m
  <2>1. ASSUME ~(k < m) PROVE FALSE
    <3>1. PICK z \in Nat : k = m + z
      <4>1. k - m \in Nat /\ k = m + (k - m)
        BY <2>1
      <4> QED BY <4>1
    <3>2. d * k = d * m + d * z /\ d * z \in Nat /\ d * m \in Nat
      BY <3>1
    <3> QED BY <1>1, <1>2, <3>2
  <2> QED BY <2>1
<1>4. PICK z \in Nat : m = k + 1 + z
  <2>1. m - k - 1 \in Nat /\ m = k + 1 + (m - k - 1)
    BY <1>3
  <2> QED BY <2>1
<1>5. d * m = d * k + d + d * z /\ d * z \in Nat /\ d * k \in Nat
  BY <1>4
<1> QED BY <1>1, <1>2, <1>5

\* A thread at an odd multiple of a power of two ends with a group of that size.
LEMMA NeighbourSize ==
  ASSUME NEW t \in Nat, NEW g \in Powers, NEW w \in Powers, Divides(2 * g, t),
         Divides(w, t + g), ~Divides(2 * w, t + g)
  PROVE  w = g
<1>0. g \in Nat \ {0} /\ w \in Nat \ {0}
  BY PowersIn
<1>1. PICK k \in Nat : t = (2 * g) * k
  BY DEF Divides
<1>2. PICK m \in Nat : t + g = w * m
  BY DEF Divides
<1>3. Compare(w, g)
  BY PowersCompare
<1>4. ~Divides(2 * w, g)
  <2> SUFFICES ASSUME NEW z \in Nat, g = (2 * w) * z PROVE FALSE
    BY DEF Divides
  <2>1. t + g = g * (2 * k + 1)
    BY <1>0, <1>1
  <2>2. t + g = (2 * w) * (z * (2 * k + 1))
    BY <1>0, <2>1
  <2>3. z * (2 * k + 1) \in Nat
    OBVIOUS
  <2> QED BY <2>2, <2>3 DEF Divides
<1>5. ~Divides(2 * g, w)
  <2> SUFFICES ASSUME NEW z \in Nat, w = (2 * g) * z PROVE FALSE
    BY DEF Divides
  <2>1. g * (2 * k + 1) = g * (2 * (z * m))
    BY <1>0, <1>1, <1>2
  <2>2. 2 * k + 1 = 2 * (z * m)
    <3>1. z * m \in Nat
      OBVIOUS
    <3> DEFINE x == 2 * k + 1  y == 2 * (z * m)
    <3>2. x \in Nat /\ y \in Nat /\ g * x = g * y
      BY <2>1, <3>1
    <3> HIDE DEF x, y
    <3>3. x = y
      BY <1>0, <3>2
    <3> QED BY <3>3 DEF x, y
  <2>3. z * m \in Nat
    OBVIOUS
  <2> QED BY <2>2, <2>3
<1> QED BY <1>3, <1>4, <1>5 DEF Compare

LEMMA TimesGrow ==
  ASSUME NEW c \in Nat
  PROVE  \A a, b \in Nat : a <= b => a * c <= b * c
<1> TAKE a, b \in Nat
<1> HAVE a <= b
<1>1. PICK d \in Nat : b = a + d
  <2>1. b - a \in Nat /\ b = a + (b - a)
    OBVIOUS
  <2> QED BY <2>1
<1>2. b * c = a * c + d * c /\ d * c \in Nat /\ a * c \in Nat
  BY <1>1
<1> QED BY <1>2

\* A divisor of a positive number is not greater.
LEMMA DivisorAtMost ==
  ASSUME NEW d \in Nat, NEW n \in Nat \ {0}, Divides(d, n)
  PROVE  d \in 1 .. n
<1>1. PICK k \in Nat : n = d * k
  BY DEF Divides
<1>2. k # 0 /\ d # 0
  BY <1>1
<1>3. 1 * d <= k * d
  BY <1>2, TimesGrow
<1>4. k * d = n
  BY <1>1
<1> QED BY <1>2, <1>3, <1>4

-----------------------------------------------------------------------------
(* Sums, in whatever order they are added up.                              *)

SumOf(U, f) == LET g == CHOOSE g : Sums(g, f, U) IN g[U]

\* What is left when an element is taken from a finite set.
LEMMA SmallerSet ==
  ASSUME NEW U, IsFiniteSet(U), NEW x \in U
  PROVE  /\ IsFiniteSet(U \ {x}) /\ Cardinality(U \ {x}) = Cardinality(U) - 1
         /\ Cardinality(U) \in Nat /\ Cardinality(U) - 1 \in Nat
<1>1. IsFiniteSet(U \ {x}) /\ Cardinality(U \ {x}) = Cardinality(U) - 1
  BY FS_RemoveElement
<1>2. Cardinality(U) \in Nat /\ Cardinality(U \ {x}) \in Nat
  BY <1>1, FS_CardinalityType
<1> QED BY <1>1, <1>2

\* A statement about finite sets holds when it holds of the empty one, and of
\* every other when it holds of all its subsets with one element less.
Smaller(X, R) == \A x \in R : R \ {x} \in X
LEMMA FiniteSets ==
  ASSUME NEW X, NEW U, \A R \in SUBSET U : IsFiniteSet(R) /\ Smaller(X, R) => R \in X
  PROVE  \A R \in SUBSET U : IsFiniteSet(R) => R \in X
<1> DEFINE Y == {k \in Nat : \E R \in SUBSET U : IsFiniteSet(R) /\ Cardinality(R) = k /\ R \notin X}
<1>1. Y = {}
  <2> SUFFICES ASSUME Y # {} PROVE FALSE
    OBVIOUS
  <2>1. PICK m \in Y : \A k \in Y : m <= k
    BY LeastNumber
  <2>2. PICK R \in SUBSET U : IsFiniteSet(R) /\ Cardinality(R) = m /\ R \notin X
    BY <2>1
  <2>3. PICK x \in R : R \ {x} \notin X
    BY <2>2 DEF Smaller
  <2>4. IsFiniteSet(R \ {x}) /\ Cardinality(R \ {x}) = m - 1 /\ m - 1 \in Nat /\ R \ {x} \in SUBSET U
    BY <2>2, SmallerSet
  <2>5. m - 1 \in Y
    BY <2>3, <2>4
  <2> QED BY <2>1, <2>4, <2>5
<1>2. \A R \in SUBSET U : IsFiniteSet(R) => Cardinality(R) \in Nat
  BY FS_CardinalityType
<1> QED BY <1>1, <1>2

\* Two functions that add up agree.
LEMMA SumsAgree ==
  ASSUME NEW U, NEW T, NEW f, NEW e, NEW g, NEW h, IsFiniteSet(U), T \subseteq U,
         Sums(g, f, U), Sums(h, e, T), \A x \in T : f[x] = e[x]
  PROVE  g[T] = h[T]
<1> DEFINE X == {R \in SUBSET T : g[R] = h[R]}
<1>1. \A R \in SUBSET T : IsFiniteSet(R) /\ Smaller(X, R) => R \in X
  <2> TAKE R \in SUBSET T
  <2> HAVE IsFiniteSet(R) /\ Smaller(X, R)
  <2>1. R \in SUBSET U
    OBVIOUS
  <2>2. /\ g[R] = IF R = {} THEN 0 ELSE f[Chosen(R)] + g[R \ {Chosen(R)}]
        /\ h[R] = IF R = {} THEN 0 ELSE e[Chosen(R)] + h[R \ {Chosen(R)}]
    BY <2>1 DEF Sums, AddUp
  <2>3. R # {} => Chosen(R) \in R
    BY ChosenIn
  <2> QED BY <2>2, <2>3 DEF Smaller
<1>2. IsFiniteSet(T)
  BY FS_Subset
<1> HIDE DEF X
<1>3. T \in X
  BY <1>1, <1>2, FiniteSets
<1> QED BY <1>3 DEF X

\* The sum is what any function gives that adds up.
LEMMA SumIs ==
  ASSUME NEW U, IsFiniteSet(U), NEW f
  PROVE  /\ \E g : Sums(g, f, U) /\ SumOf(U, f) = g[U]
         /\ \A g : Sums(g, f, U) => SumOf(U, f) = g[U]
<1> DEFINE c == CHOOSE g : Sums(g, f, U)
<1>1. Sums(c, f, U)
  BY SumsExist
<1>2. SumOf(U, f) = c[U]
  BY DEF SumOf
<1> HIDE DEF c
<1> QED BY <1>1, <1>2, SumsAgree

\* Only the values on the set count.
LEMMA SumSame ==
  ASSUME NEW U, IsFiniteSet(U), NEW f, NEW e, \A x \in U : f[x] = e[x]
  PROVE  SumOf(U, f) = SumOf(U, e)
<1>1. PICK g : Sums(g, f, U) /\ SumOf(U, f) = g[U]
  BY SumIs
<1>2. PICK h : Sums(h, e, U) /\ SumOf(U, e) = h[U]
  BY SumIs
<1> QED BY <1>1, <1>2, SumsAgree

LEMMA SumFirst ==
  ASSUME NEW U, IsFiniteSet(U), NEW f
  PROVE  SumOf(U, f) = IF U = {} THEN 0 ELSE f[Chosen(U)] + SumOf(U \ {Chosen(U)}, f)
<1>1. PICK g : Sums(g, f, U) /\ SumOf(U, f) = g[U]
  BY SumIs
<1>2. g[U] = IF U = {} THEN 0 ELSE f[Chosen(U)] + g[U \ {Chosen(U)}]
  BY <1>1 DEF Sums, AddUp
<1> DEFINE R == U \ {Chosen(U)}
<1>3. IsFiniteSet(R) /\ R \subseteq U
  BY FS_Subset
<1> HIDE DEF R
<1>4. PICK h : Sums(h, f, R) /\ SumOf(R, f) = h[R]
  BY <1>3, SumIs
<1>5. g[R] = h[R]
  BY <1>1, <1>3, <1>4, SumsAgree
<1> QED BY <1>1, <1>2, <1>4, <1>5 DEF R

\* Numbers have a number as their sum.
LEMMA SumNumber ==
  ASSUME NEW U, IsFiniteSet(U), NEW f, \A x \in U : f[x] \in Nat
  PROVE  SumOf(U, f) \in Nat
<1> DEFINE X == {R \in SUBSET U : SumOf(R, f) \in Nat}
<1>1. \A R \in SUBSET U : IsFiniteSet(R) /\ Smaller(X, R) => R \in X
  <2> TAKE R \in SUBSET U
  <2> HAVE IsFiniteSet(R) /\ Smaller(X, R)
  <2>1. SumOf(R, f) = IF R = {} THEN 0 ELSE f[Chosen(R)] + SumOf(R \ {Chosen(R)}, f)
    BY SumFirst
  <2>2. CASE R = {}
    BY <2>1, <2>2
  <2>3. CASE R # {}
    <3>1. Chosen(R) \in R
      BY <2>3, ChosenIn
    <3>2. f[Chosen(R)] \in Nat /\ SumOf(R \ {Chosen(R)}, f) \in Nat
      BY <3>1 DEF Smaller
    <3> QED BY <2>1, <2>3, <3>2
  <2> QED BY <2>2, <2>3
<1> HIDE DEF X
<1>2. U \in X
  BY <1>1, FiniteSets
<1> QED BY <1>2 DEF X

\* Any element can be added last.
LEMMA SumTake ==
  ASSUME NEW U, IsFiniteSet(U), NEW f, \A x \in U : f[x] \in Nat
  PROVE  \A c \in U : SumOf(U, f) = f[c] + SumOf(U \ {c}, f)
<1> DEFINE X == {R \in SUBSET U : \A c \in R : SumOf(R, f) = f[c] + SumOf(R \ {c}, f)}
<1>1. \A R \in SUBSET U : IsFiniteSet(R) /\ Smaller(X, R) => R \in X
  <2> TAKE R \in SUBSET U
  <2> HAVE IsFiniteSet(R) /\ Smaller(X, R)
  <2> SUFFICES ASSUME NEW c \in R PROVE SumOf(R, f) = f[c] + SumOf(R \ {c}, f)
    OBVIOUS
  <2> DEFINE x == Chosen(R)
  <2>1. x \in R
    BY ChosenIn
  <2>2. SumOf(R, f) = f[x] + SumOf(R \ {x}, f)
    BY SumFirst
  <2> HIDE DEF x
  <2>3. CASE c = x
    BY <2>2, <2>3
  <2>4. CASE c # x
    <3>1. R \ {x} \in X /\ R \ {c} \in X /\ c \in R \ {x} /\ x \in R \ {c}
      BY <2>1, <2>4 DEF Smaller
    <3> DEFINE T == R \ {x, c}
    <3>2. (R \ {x}) \ {c} = T /\ (R \ {c}) \ {x} = T
      OBVIOUS
    <3>3. SumOf(R \ {x}, f) = f[c] + SumOf((R \ {x}) \ {c}, f)
      BY <3>1
    <3>4. SumOf(R \ {c}, f) = f[x] + SumOf((R \ {c}) \ {x}, f)
      BY <3>1
    <3>5. IsFiniteSet(T) /\ \A y \in T : f[y] \in Nat
      BY FS_Subset
    <3>6. f[c] \in Nat /\ f[x] \in Nat /\ SumOf(T, f) \in Nat
      <4> HIDE DEF T
      <4> QED BY <2>1, <3>5, SumNumber
    <3>7. ASSUME NEW a \in Nat, NEW b \in Nat, NEW u \in Nat PROVE a + (b + u) = b + (a + u)
      OBVIOUS
    <3>8. f[x] + (f[c] + SumOf(T, f)) = f[c] + (f[x] + SumOf(T, f))
      BY <3>6, <3>7
    <3>9. SumOf(R \ {x}, f) = f[c] + SumOf(T, f) /\ SumOf(R \ {c}, f) = f[x] + SumOf(T, f)
      BY Zenon, <3>2, <3>3, <3>4
    <3> QED BY Zenon, <2>2, <3>8, <3>9
  <2> QED BY <2>3, <2>4
<1> HIDE DEF X
<1>2. U \in X
  BY <1>1, FiniteSets
<1> QED BY <1>2 DEF X

\* The same number, n times.
LEMMA SumOfSame ==
  ASSUME NEW k \in Nat, NEW N \in Nat, NEW f, \A i \in 1 .. N : f[i] = k
  PROVE  SumOf(1 .. N, f) = N * k
<1> DEFINE X == {n \in Nat : n <= N => SumOf(1 .. n, f) = n * k}
<1>1. 0 \in X
  <2>1. 1 .. 0 = {}
    OBVIOUS
  <2>2. SumOf({}, f) = 0
    BY FS_EmptySet, SumFirst
  <2>3. 0 * k = 0
    OBVIOUS
  <2> QED BY <2>1, <2>2, <2>3
<1>2. ASSUME NEW n \in Nat, n \in X PROVE n + 1 \in X
  <2> SUFFICES ASSUME n + 1 <= N PROVE SumOf(1 .. n + 1, f) = (n + 1) * k
    OBVIOUS
  <2>1. IsFiniteSet(1 .. n + 1)
    BY FS_Interval
  <2>2. n + 1 \in 1 .. n + 1 /\ (1 .. n + 1) \ {n + 1} = 1 .. n /\ \A i \in 1 .. n + 1 : f[i] = k
    OBVIOUS
  <2>3. SumOf(1 .. n + 1, f) = f[n + 1] + SumOf((1 .. n + 1) \ {n + 1}, f)
    BY <2>1, <2>2, SumTake
  <2>4. SumOf(1 .. n, f) = n * k /\ f[n + 1] = k
    BY <1>2, <2>2
  <2>5. k + n * k = (n + 1) * k
    OBVIOUS
  <2> QED BY <2>2, <2>3, <2>4, <2>5
<1> HIDE DEF X
<1>3. N \in X
  BY <1>1, <1>2, AllNumbers
<1> QED BY <1>3 DEF X

\* A finite set of numbers that has elements has a greatest one.
LEMMA GreatestNumber ==
  ASSUME NEW T, IsFiniteSet(T), T # {}, T \subseteq Nat
  PROVE  \E m \in T : \A n \in T : m >= n
<1> DEFINE X == {R \in SUBSET Nat : R # {} => \E m \in R : \A n \in R : m >= n}
<1>1. \A R \in SUBSET Nat : IsFiniteSet(R) /\ Smaller(X, R) => R \in X
  <2> TAKE R \in SUBSET Nat
  <2> HAVE IsFiniteSet(R) /\ Smaller(X, R)
  <2> SUFFICES ASSUME NEW x \in R PROVE \E m \in R : \A n \in R : m >= n
    OBVIOUS
  <2>1. CASE R \ {x} = {}
    BY <2>1
  <2>2. CASE R \ {x} # {}
    <3>1. R \ {x} \in X
      BY DEF Smaller
    <3>2. PICK m \in R \ {x} : \A n \in R \ {x} : m >= n
      BY <2>2, <3>1
    <3>3. x \in Nat /\ m \in Nat
      OBVIOUS
    <3>4. CASE x >= m
      <4>1. \A n \in R : x >= n
        <5> TAKE n \in R
        <5>1. n = x \/ m >= n
          BY <3>2
        <5> QED BY <3>3, <3>4, <5>1
      <4> QED BY <4>1
    <3>5. CASE m >= x
      <4>1. \A n \in R : m >= n
        BY <3>2, <3>5
      <4> QED BY <4>1
    <3> QED BY <3>3, <3>4, <3>5
  <2> QED BY <2>1, <2>2
<1> HIDE DEF X
<1>2. T \in X
  BY <1>1, FiniteSets
<1> QED BY <1>2 DEF X

\* One number more.
LEMMA SumMore ==
  ASSUME NEW n \in Nat, NEW f, NEW e, \A i \in 1 .. n + 1 : f[i] \in Nat,
         \A i \in 1 .. n : e[i] = f[i]
  PROVE  SumOf(1 .. n + 1, f) = f[n + 1] + SumOf(1 .. n, e)
<1>1. IsFiniteSet(1 .. n + 1) /\ IsFiniteSet(1 .. n)
  BY FS_Interval
<1>2. n + 1 \in 1 .. n + 1 /\ (1 .. n + 1) \ {n + 1} = 1 .. n
  OBVIOUS
<1>3. SumOf(1 .. n + 1, f) = f[n + 1] + SumOf((1 .. n + 1) \ {n + 1}, f)
  BY <1>1, <1>2, SumTake
<1>4. SumOf(1 .. n, f) = SumOf(1 .. n, e)
  BY <1>1, SumSame
<1> QED BY <1>2, <1>3, <1>4

\* One number less.
Without(i, n, f, e) == \A j \in 1 .. n - 1 : e[j] = IF j < i THEN f[j] ELSE f[j + 1]
LEMMA SumLess ==
  ASSUME NEW N \in Nat, NEW f, \A j \in 1 .. N : f[j] \in Nat,
         NEW i \in 1 .. N, NEW e, Without(i, N, f, e)
  PROVE  SumOf(1 .. N, f) = f[i] + SumOf(1 .. N - 1, e)
<1> DEFINE X == {n \in Nat : n + i <= N => SumOf(1 .. n + i, f) = f[i] + SumOf(1 .. n + i - 1, e)}
<1>0. i \in Nat /\ i - 1 \in Nat
  OBVIOUS
<1>1. 0 \in X
  <2>1. SumOf(1 .. (i - 1) + 1, f) = f[(i - 1) + 1] + SumOf(1 .. i - 1, e)
    <3>1. \A j \in 1 .. (i - 1) + 1 : f[j] \in Nat
      OBVIOUS
    <3>2. \A j \in 1 .. i - 1 : e[j] = f[j]
      BY DEF Without
    <3> QED BY <1>0, <3>1, <3>2, SumMore
  <2>2. (i - 1) + 1 = i /\ 0 + i = i
    OBVIOUS
  <2> QED BY <2>1, <2>2
<1>2. ASSUME NEW n \in Nat, n \in X PROVE n + 1 \in X
  <2> SUFFICES ASSUME n + 1 + i <= N
               PROVE  SumOf(1 .. n + 1 + i, f) = f[i] + SumOf(1 .. n + 1 + i - 1, e)
    OBVIOUS
  <2> DEFINE k == n + i
  <2>1. k \in Nat \ {0} /\ k + 1 <= N /\ i <= k /\ k - 1 \in Nat /\ (k - 1) + 1 = k
        /\ n + 1 + i = k + 1 /\ n + 1 + i - 1 = k /\ n + i - 1 = k - 1
    BY <1>0
  <2>2. SumOf(1 .. k, f) = f[i] + SumOf(1 .. k - 1, e)
    BY <1>2, <2>1
  <2> HIDE DEF k
  <2>3. \A j \in 1 .. k : j + 1 \in 1 .. N /\ j \in 1 .. N /\ j \in 1 .. N - 1
    BY <2>1
  <2>4. \A j \in 1 .. k : e[j] \in Nat
    BY <2>3 DEF Without
  <2>5. SumOf(1 .. k + 1, f) = f[k + 1] + SumOf(1 .. k, f)
    <3>1. \A j \in 1 .. k + 1 : f[j] \in Nat
      BY <2>1
    <3> QED BY <2>1, <3>1, SumMore
  <2>6. SumOf(1 .. k, e) = e[k] + SumOf(1 .. k - 1, e)
    <3>1. \A j \in 1 .. (k - 1) + 1 : e[j] \in Nat
      BY <2>1, <2>4
    <3>2. SumOf(1 .. (k - 1) + 1, e) = e[(k - 1) + 1] + SumOf(1 .. k - 1, e)
      BY <2>1, <3>1, SumMore
    <3> QED BY <2>1, <3>2
  <2>7. e[k] = f[k + 1]
    BY <2>1, <2>3 DEF Without
  <2>8. f[i] \in Nat /\ f[k + 1] \in Nat /\ SumOf(1 .. k - 1, e) \in Nat
    <3>1. \A j \in 1 .. k - 1 : j \in 1 .. k
      BY <2>1
    <3>2. \A j \in 1 .. k - 1 : e[j] \in Nat
      BY <2>4, <3>1
    <3>3. 1 \in Int /\ k - 1 \in Int
      BY <2>1
    <3>4. IsFiniteSet(1 .. k - 1)
      BY <3>3, FS_Interval
    <3>5. SumOf(1 .. k - 1, e) \in Nat
      BY <3>2, <3>4, SumNumber
    <3>6. i \in 1 .. N /\ k + 1 \in 1 .. N
      BY <2>1
    <3> QED BY <3>5, <3>6
  <2>9. SumOf(1 .. k + 1, f) = f[i] + SumOf(1 .. k, e)
    <3> DEFINE u == SumOf(1 .. k - 1, e)  v == f[i]  w == f[k + 1]
    <3>1. SumOf(1 .. k, f) = v + u /\ SumOf(1 .. k, e) = w + u
      BY <2>2, <2>6, <2>7
    <3>2. SumOf(1 .. k + 1, f) = w + (v + u)
      BY <2>5, <3>1
    <3>3. u \in Nat /\ v \in Nat /\ w \in Nat
      BY <2>8
    <3>4. SumOf(1 .. k, e) = w + u
      BY <3>1
    <3> HIDE DEF u, v, w
    <3>5. w + (v + u) = v + (w + u)
      BY <3>3
    <3>6. SumOf(1 .. k + 1, f) = v + SumOf(1 .. k, e)
      BY <3>2, <3>4, <3>5
    <3> QED BY <3>6 DEF v
  <2> QED BY <2>1, <2>9
<1> HIDE DEF X
<1>3. N - i \in X
  <2>1. N - i \in Nat
    OBVIOUS
  <2> QED BY <1>1, <1>2, <2>1, AllNumbers
<1>4. N - i + i = N /\ N - i + i - 1 = N - 1
  OBVIOUS
<1> QED BY <1>3, <1>4 DEF X

\* A change of one number.
LEMMA SumChange ==
  ASSUME NEW T, IsFiniteSet(T), NEW f, NEW e, NEW c \in T,
         \A x \in T : f[x] \in Nat /\ e[x] \in Nat, \A x \in T \ {c} : e[x] = f[x]
  PROVE  /\ SumOf(T, f) \in Nat /\ SumOf(T, e) \in Nat
         /\ SumOf(T, e) + f[c] = SumOf(T, f) + e[c]
<1> DEFINE R == T \ {c}  r == SumOf(R, f)
<1>1. IsFiniteSet(R)
  BY FS_RemoveElement
<1>2. SumOf(T, f) = f[c] + r
  BY SumTake
<1>3. SumOf(T, e) = e[c] + SumOf(R, e)
  BY SumTake
<1> HIDE DEF R
<1>4. SumOf(R, e) = r
  BY <1>1, SumSame DEF R
<1>5. r \in Nat
  BY <1>1, SumNumber DEF R
<1>6. SumOf(T, e) = e[c] + r /\ f[c] \in Nat /\ e[c] \in Nat
  BY <1>3, <1>4
<1> HIDE DEF r
<1> QED BY <1>2, <1>5, <1>6
=============================================================================
