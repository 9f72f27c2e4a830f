---------------------------- MODULE TailqProofs ----------------------------
(***************************************************************************)
(* IInv is an inductive invariant of Tailq, and Tailq implements ListSpec, *)
(* for every set of heads and every finite set of elements.                *)
(***************************************************************************)
EXTENDS Tailq, SequenceTheorems, FiniteSetTheorems, TLAPS

\* For the induction facts alone, which do not depend on a recursion.
Nats == INSTANCE NatFacts WITH Base <- 0, Step <- +

-----------------------------------------------------------------------------
(* Sequences of distinct elements *)

\* The length of such a sequence is bounded by the number of elements.
LEMMA OrdersAre ==
    Orders = {s \in Seq(Elems) : \A i, j \in 1 .. Len(s) : s[i] = s[j] => i = j}
  <1>1. ASSUME NEW s \in Orders
        PROVE  s \in Seq(Elems) /\ \A i, j \in 1 .. Len(s) : s[i] = s[j] => i = j
    <2>1. PICK n \in 0 .. Cardinality(Elems) : s \in [1 .. n -> Elems]
      BY DEF Orders
    <2>2. n \in Nat
      BY <2>1, ElemsAssumption, FS_CardinalityType
    <2>3. s \in Seq(Elems) /\ DOMAIN s = 1 .. Len(s)
      BY <2>1, <2>2
    <2> QED
      BY <2>3 DEF Orders
  <1>2. ASSUME NEW s \in Seq(Elems), \A i, j \in 1 .. Len(s) : s[i] = s[j] => i = j
        PROVE  s \in Orders
    <2>1. PICK n \in Nat : n = Len(s)
      OBVIOUS
    <2>2. s \in [1 .. n -> Elems] /\ DOMAIN s = 1 .. n
      BY <2>1, LenProperties
    <2>3. s \in Injection(1 .. n, Elems)
      BY <1>2, <2>1, <2>2 DEF Injection, IsInjective
    <2>4. Cardinality(1 .. n) <= Cardinality(Elems)
      BY <2>3, ElemsAssumption, FS_Injection
    <2>5. Cardinality(1 .. n) = n
      <3>1. Cardinality(1 .. n) = IF 1 > n THEN 0 ELSE n - 1 + 1
        BY FS_Interval, 1 \in Int, n \in Int
      <3> QED
        BY <3>1
    <2>6. n \in 0 .. Cardinality(Elems)
      BY <2>4, <2>5, ElemsAssumption, FS_CardinalityType
    <2>7. \A i, j \in DOMAIN s : s[i] = s[j] => i = j
      BY <1>2, <2>1, <2>2
    <2>8. s \in UNION {[1 .. k -> Elems] : k \in 0 .. Cardinality(Elems)}
      BY <2>2, <2>6
    <2> QED
      BY <2>7, <2>8 DEF Orders
  <1> QED
    BY <1>1, <1>2

LEMMA OrderFacts ==
    ASSUME NEW s \in Orders
    PROVE  /\ s \in Seq(Elems) /\ Len(s) \in Nat
           /\ DOMAIN s = 1 .. Len(s)
           /\ \A i \in 1 .. Len(s) : s[i] \in Elems
           /\ \A i, j \in 1 .. Len(s) : s[i] = s[j] => i = j
  <1>1. s \in Seq(Elems) /\ \A i, j \in 1 .. Len(s) : s[i] = s[j] => i = j
    BY OrdersAre
  <1>2. Len(s) \in Nat /\ DOMAIN s = 1 .. Len(s)
    BY <1>1, LenProperties
  <1>3. \A i \in 1 .. Len(s) : s[i] \in Elems
    BY <1>1, ElementOfSeq
  <1> QED
    BY <1>1, <1>2, <1>3

LEMMA IsOrder ==
    ASSUME NEW n \in Nat, NEW s \in [1 .. n -> Elems],
           \A i, j \in 1 .. n : s[i] = s[j] => i = j
    PROVE  s \in Orders /\ Len(s) = n
  <1>1. s \in Seq(Elems) /\ Len(s) = n
    OBVIOUS
  <1> QED
    BY <1>1, OrdersAre

\* The places along a queue are distinct.
LEMMA PlaceFacts ==
    ASSUME NEW h \in Heads, NEW s \in Orders
    PROVE  /\ \A i \in 0 .. Len(s) : Place(h, s, i) \in Places
           /\ Place(h, s, 0) = h
           /\ \A i \in 1 .. Len(s) : Place(h, s, i) = s[i] /\ s[i] # h /\ s[i] # NULL
           /\ \A i, j \in 0 .. Len(s) : Place(h, s, i) = Place(h, s, j) => i = j
  <1>1. /\ Len(s) \in Nat
        /\ \A i \in 1 .. Len(s) : s[i] \in Elems
        /\ \A i, j \in 1 .. Len(s) : s[i] = s[j] => i = j
    BY OrderFacts
  <1>2. \A i \in 1 .. Len(s) : Place(h, s, i) = s[i] /\ s[i] # h /\ s[i] # NULL
    BY <1>1, DisjointAssumption DEF Place
  <1>3. Place(h, s, 0) = h
    BY DEF Place
  <1>4. \A i \in 0 .. Len(s) : i = 0 \/ i \in 1 .. Len(s)
    BY <1>1
  <1>5. \A i, j \in 0 .. Len(s) : Place(h, s, i) = Place(h, s, j) => i = j
    BY <1>1, <1>2, <1>3, <1>4
  <1>6. \A i \in 0 .. Len(s) : Place(h, s, i) \in Places
    BY <1>1, <1>2, <1>3, <1>4 DEF Places
  <1> QED
    BY <1>2, <1>3, <1>5, <1>6

-----------------------------------------------------------------------------
(* The sequence of a queue *)

Holds(h, s) == \A e \in Elems : on[e] = h <=> \E i \in 1 .. Len(s) : s[i] = e

Chain(h, s) == s \in Orders /\ Represents(h, s) /\ Holds(h, s)

\* L gives every queue its sequence.
Shape(L) == L \in [Heads -> Orders] /\ \A h \in Heads : Chain(h, L[h])

\* Links lead through one sequence only.
LEMMA OneSequence ==
    ASSUME NEW h \in Heads, NEW s \in Orders, NEW t \in Orders,
           Represents(h, s), Represents(h, t)
    PROVE  s = t
  <1>1. /\ Len(s) \in Nat /\ Len(t) \in Nat
        /\ s \in Seq(Elems) /\ t \in Seq(Elems)
        /\ \A i \in 1 .. Len(s) : Place(h, s, i) = s[i] /\ s[i] # NULL
        /\ \A i \in 1 .. Len(t) : Place(h, t, i) = t[i] /\ t[i] # NULL
        /\ Place(h, s, 0) = h /\ Place(h, t, 0) = h
    BY OrderFacts, PlaceFacts
  <1>2. PICK m, n \in Nat : m = Len(s) /\ n = Len(t)
    BY <1>1
  <1>3. \A i \in 0 .. m : next[Place(h, s, i)] = IF i = m THEN NULL ELSE s[i + 1]
    BY <1>2 DEF Represents
  <1>4. \A i \in 0 .. n : next[Place(h, t, i)] = IF i = n THEN NULL ELSE t[i + 1]
    BY <1>2 DEF Represents
  <1> DEFINE T == {i \in Nat : i <= m => i <= n /\ Place(h, s, i) = Place(h, t, i)}
  <1>5. T = Nat
    <2>1. 0 \in T
      BY <1>1, <1>2
    <2>2. ASSUME NEW i \in T PROVE i + 1 \in T
      <3> SUFFICES ASSUME i + 1 <= m
                   PROVE  i + 1 <= n /\ Place(h, s, i + 1) = Place(h, t, i + 1)
        OBVIOUS
      <3>1. i \in Nat /\ i \in 0 .. m /\ i # m /\ i + 1 \in 1 .. m
        BY <1>2
      <3>2. i <= n /\ Place(h, s, i) = Place(h, t, i)
        BY <3>1
      <3>3. next[Place(h, t, i)] = s[i + 1] /\ s[i + 1] # NULL
        BY <1>1, <1>2, <1>3, <3>1, <3>2
      <3>4. i # n
        BY <1>2, <1>4, <3>1, <3>2, <3>3
      <3>5. i \in 0 .. n /\ i + 1 \in 1 .. n
        BY <1>2, <3>1, <3>2, <3>4
      <3>6. t[i + 1] = s[i + 1]
        BY <1>4, <3>3, <3>4, <3>5
      <3> QED
        BY <1>1, <1>2, <3>1, <3>5, <3>6
    <2> HIDE DEF T
    <2>3. T \in SUBSET Nat
      BY DEF T
    <2> QED
      BY <2>1, <2>2, <2>3, Nats!AllNat
  <1>6. \A i \in 0 .. m : i <= n /\ Place(h, s, i) = Place(h, t, i)
    BY <1>5
  <1> HIDE DEF T
  <1>7. m <= n
    BY <1>2, <1>6
  <1>8. m = n
    <2>1. next[Place(h, t, m)] = NULL
      BY <1>2, <1>3, <1>6
    <2> SUFFICES ASSUME m < n PROVE FALSE
      BY <1>2, <1>7
    <2>2. m \in 0 .. n /\ m + 1 \in 1 .. n /\ m # n
      BY <1>2
    <2>3. t[m + 1] = NULL
      BY <1>4, <2>1, <2>2
    <2> QED
      BY <1>1, <1>2, <2>2, <2>3
  <1>9. \A i \in 1 .. m : s[i] = t[i]
    BY <1>1, <1>2, <1>6, <1>8
  <1> QED
    BY <1>1, <1>2, <1>8, <1>9, SeqEqual

\* So a shape is that of Content.
LEMMA ContentIs ==
    ASSUME NEW h \in Heads, NEW s, Chain(h, s)
    PROVE  Content(h) = s
  <1>1. s \in Orders /\ Represents(h, s)
    BY DEF Chain
  <1>2. Content(h) \in Orders /\ Represents(h, Content(h))
    BY <1>1 DEF Content
  <1> QED
    BY <1>1, <1>2, OneSequence

LEMMA ShapeIs ==
    ASSUME NEW L, Shape(L)
    PROVE  L = [h \in Heads |-> Content(h)]
  <1>1. L \in [Heads -> Orders]
    BY DEF Shape
  <1>2. \A h \in Heads : L[h] = Content(h)
    BY ContentIs DEF Shape
  <1> QED
    BY <1>1, <1>2

LEMMA ShapeLinks ==
    ASSUME TypeOK
    PROVE  WellLinked <=> \E L : Shape(L)
  <1>1. ASSUME NEW h \in Heads, NEW s \in Orders
        PROVE  Holds(h, s) <=> {s[i] : i \in DOMAIN s} = {e \in Elems : on[e] = h}
    <2>1. DOMAIN s = 1 .. Len(s) /\ \A i \in 1 .. Len(s) : s[i] \in Elems
      BY OrderFacts
    <2> QED
      BY <2>1 DEF Holds
  <1>2. ASSUME WellLinked PROVE \E L : Shape(L)
    <2>1. \A h \in Heads : Chain(h, Content(h))
      <3> TAKE h \in Heads
      <3>1. PICK s \in Orders : Represents(h, s) /\ Holds(h, s)
        BY <1>1, <1>2 DEF WellLinked
      <3>2. Chain(h, s)
        BY <3>1 DEF Chain
      <3> QED
        BY <3>2, ContentIs
    <2>2. Shape([h \in Heads |-> Content(h)])
      BY <2>1 DEF Shape, Chain
    <2> QED
      BY <2>2
  <1>3. ASSUME NEW L, Shape(L) PROVE WellLinked
    BY <1>1, <1>3 DEF WellLinked, Shape, Chain
  <1> QED
    BY <1>2, <1>3

-----------------------------------------------------------------------------
(* What the macros do to the sequences *)

\* A queue none of whose links is written keeps its sequence.
LEMMA FrameChain ==
    ASSUME NEW g \in Heads, NEW s, Chain(g, s),
           next'[g] = next[g], last'[g] = last[g],
           \A x \in Elems : on[x] = g => next'[x] = next[x] /\ prev'[x] = prev[x],
           \A x \in Elems : on'[x] = g <=> on[x] = g
    PROVE  Chain(g, s)'
  <1>1. s \in Orders /\ Represents(g, s) /\ Holds(g, s)
    BY DEF Chain
  <1>2. /\ Len(s) \in Nat
        /\ \A i \in 1 .. Len(s) : s[i] \in Elems /\ on[s[i]] = g
    BY <1>1, OrderFacts DEF Holds
  <1>3. \A i \in 1 .. Len(s) : next'[s[i]] = next[s[i]] /\ prev'[s[i]] = prev[s[i]]
    BY <1>2
  <1>4. \A i \in 0 .. Len(s) : next'[Place(g, s, i)] = next[Place(g, s, i)]
    BY <1>2, <1>3 DEF Place
  <1>5. Represents(g, s)'
    BY <1>1, <1>3, <1>4 DEF Represents
  <1>6. Holds(g, s)'
    BY <1>1 DEF Holds
  <1> QED
    BY <1>1, <1>5, <1>6 DEF Chain

\* The sequence with e after the first i.
Inserted(s, i, e) ==
    [k \in 1 .. Len(s) + 1 |-> IF k <= i THEN s[k] ELSE IF k = i + 1 THEN e ELSE s[k - 1]]

\* The sequence without its i-th.
Removed(s, i) == [k \in 1 .. Len(s) - 1 |-> IF k < i THEN s[k] ELSE s[k + 1]]

\* e is linked in between the place p and the element n that follows it, if any.
LEMMA InsertChain ==
    ASSUME TypeOK, NEW h \in Heads, NEW s, Chain(h, s), NEW i \in 0 .. Len(s),
           NEW e \in Elems, on[e] = NULL,
           NEW p, NEW n, p = Place(h, s, i), n = next[p],
           next'[e] = n, next'[p] = e, \A x \in Places \ {e, p} : next'[x] = next[x],
           prev'[e] = p,
           \A x \in Elems \ {e} : prev'[x] = IF x = n THEN e ELSE prev[x],
           last'[h] = IF n = NULL THEN e ELSE last[h],
           on'[e] = h, \A x \in Elems \ {e} : on'[x] = on[x]
    PROVE  Chain(h, Inserted(s, i, e))'
  <1>1. s \in Orders /\ Represents(h, s) /\ Holds(h, s)
    BY DEF Chain
  <1>2. PICK m \in Nat : m = Len(s)
    BY <1>1, OrderFacts
  <1>3. /\ \A k \in 1 .. m : s[k] \in Elems /\ s[k] # e /\ s[k] # NULL
        /\ \A j, k \in 1 .. m : s[j] = s[k] => j = k
        /\ e # h /\ e # NULL /\ h # NULL /\ e \in Places /\ h \in Places
    <2>1. \A k \in 1 .. m : s[k] \in Elems /\ on[s[k]] = h
      BY <1>1, <1>2, OrderFacts DEF Holds
    <2> QED
      BY <1>1, <1>2, <2>1, OrderFacts, DisjointAssumption DEF Places
  <1>4. /\ \A k \in 0 .. m : Place(h, s, k) \in Places /\ Place(h, s, k) # e
        /\ Place(h, s, 0) = h /\ \A k \in 1 .. m : Place(h, s, k) = s[k]
        /\ \A j, k \in 0 .. m : Place(h, s, j) = Place(h, s, k) => j = k
    BY <1>1, <1>2, <1>3, PlaceFacts DEF Place
  <1>5. PICK t : t = Inserted(s, i, e)
    OBVIOUS
  <1>6. /\ t \in [1 .. m + 1 -> Elems]
        /\ \A k \in 1 .. m + 1 : t[k] = IF k <= i THEN s[k] ELSE IF k = i + 1 THEN e ELSE s[k - 1]
    BY <1>2, <1>3, <1>5 DEF Inserted
  <1>7. t \in Orders /\ Len(t) = m + 1
    <2>1. \A j, k \in 1 .. m + 1 : t[j] = t[k] => j = k
      BY <1>2, <1>3, <1>6
    <2> QED
      BY <1>6, <2>1, IsOrder, m + 1 \in Nat
  <1>8. /\ Place(h, t, 0) = h
        /\ \A k \in 1 .. m + 1 : Place(h, t, k) = t[k]
    BY <1>1, <1>7, PlaceFacts
  <1>9. \A k \in 0 .. m + 1 :
           Place(h, t, k) = IF k <= i THEN Place(h, s, k)
                            ELSE IF k = i + 1 THEN e ELSE Place(h, s, k - 1)
    BY <1>2, <1>4, <1>6, <1>8
  <1>10. \A k \in 0 .. m : next[Place(h, s, k)] = IF k = m THEN NULL ELSE s[k + 1]
    BY <1>1, <1>2 DEF Represents
  <1>11. /\ next'[e] = n /\ next'[p] = e
         /\ \A x \in Places : x # e /\ x # p => next'[x] = next[x]
    OBVIOUS
  <1>12. n = IF i = m THEN NULL ELSE s[i + 1]
    BY <1>2, <1>10
  <1>13. ASSUME NEW k \in 0 .. m + 1
         PROVE  next'[Place(h, t, k)] = IF k = m + 1 THEN NULL ELSE t[k + 1]
    <2>1. CASE k < i
      <3>1. k \in 0 .. m /\ k # i /\ k # m /\ k + 1 \in 1 .. m + 1 /\ k + 1 <= i
        BY <1>2, <2>1
      <3>2. Place(h, t, k) = Place(h, s, k) /\ Place(h, s, k) # p /\ Place(h, s, k) # e
        BY <1>2, <1>4, <1>9, <3>1
      <3>3. next'[Place(h, s, k)] = next[Place(h, s, k)]
        BY <1>4, <1>11, <3>1, <3>2
      <3>4. next[Place(h, s, k)] = s[k + 1] /\ t[k + 1] = s[k + 1]
        BY <1>6, <1>10, <3>1
      <3> QED
        BY <1>2, <3>1, <3>2, <3>3, <3>4
    <2>2. CASE k = i
      <3>1. k # m + 1 /\ k + 1 = i + 1 /\ i + 1 \in 1 .. m + 1
        BY <1>2, <2>2
      <3>2. Place(h, t, k) = p
        BY <1>9, <2>2
      <3>3. t[k + 1] = e
        BY <1>2, <1>6, <3>1
      <3> QED
        BY <1>11, <3>1, <3>2, <3>3
    <2>3. CASE k = i + 1
      <3>1. (k = m + 1 <=> i = m) /\ i \in 0 .. m
        BY <1>2, <2>3
      <3>2. Place(h, t, k) = e
        BY <1>2, <1>9, <2>3
      <3>3. i # m => t[k + 1] = s[i + 1]
        <4> HAVE i # m
        <4>1. k + 1 \in 1 .. m + 1 /\ ~(k + 1 <= i) /\ k + 1 # i + 1 /\ (k + 1) - 1 = i + 1
          BY <1>2, <2>3
        <4> QED
          BY <1>6, <4>1
      <3> QED
        BY <1>11, <1>12, <3>1, <3>2, <3>3
    <2>4. CASE k > i + 1
      <3>1. k - 1 \in 0 .. m /\ k - 1 # i /\ (k - 1) + 1 = k /\ (k - 1 = m <=> k = m + 1)
        BY <1>2, <2>4
      <3>2. Place(h, t, k) = Place(h, s, k - 1) /\ Place(h, s, k - 1) # p /\ Place(h, s, k - 1) # e
        BY <1>2, <1>4, <1>9, <2>4, <3>1
      <3>3. next'[Place(h, t, k)] = IF k = m + 1 THEN NULL ELSE s[k]
        <4>1. Place(h, s, k - 1) \in Places
          BY <1>4, <3>1
        <4>2. next[Place(h, s, k - 1)] = IF k - 1 = m THEN NULL ELSE s[(k - 1) + 1]
          BY <1>10, <3>1
        <4>3. next'[Place(h, s, k - 1)] = next[Place(h, s, k - 1)]
          BY <1>11, <3>2, <4>1
        <4> QED
          BY <3>1, <3>2, <4>2, <4>3
      <3>4. k # m + 1 => t[k + 1] = s[k]
        BY <1>2, <1>6, <2>4
      <3> QED
        BY <3>3, <3>4
    <2> QED
      BY <1>2, <2>1, <2>2, <2>3, <2>4
  <1>14. ASSUME NEW k \in 1 .. m + 1
         PROVE  prev'[t[k]] = Place(h, t, k - 1)
    <2>1. \A j \in 1 .. m : prev[s[j]] = Place(h, s, j - 1)
      BY <1>1, <1>2 DEF Represents
    <2>2. CASE k <= i
      <3>1. k \in 1 .. m /\ k - 1 \in 0 .. m /\ k - 1 \in 0 .. m + 1 /\ k - 1 <= i
        BY <1>2, <2>2
      <3>2. t[k] = s[k] /\ s[k] # n /\ s[k] \in Elems \ {e}
        <4>1. i # m => i + 1 \in 1 .. m /\ k # i + 1
          BY <1>2, <2>2
        <4> QED
          BY <1>3, <1>6, <1>12, <2>2, <3>1, <4>1
      <3> QED
        BY <1>9, <2>1, <3>1, <3>2
    <2>3. CASE k = i + 1
      <3>1. t[k] = e /\ k - 1 = i /\ k - 1 \in 0 .. m + 1
        BY <1>2, <1>6, <2>3
      <3> QED
        BY <1>9, <3>1
    <2>4. CASE k = i + 2
      <3>1. i # m /\ i + 1 \in 1 .. m /\ k - 1 = i + 1 /\ k - 1 \in 0 .. m + 1
        BY <1>2, <2>4
      <3>2. t[k] = n /\ n \in Elems \ {e}
        BY <1>3, <1>6, <1>12, <2>4, <3>1
      <3>3. Place(h, t, k - 1) = e
        BY <1>9, <2>4, <3>1
      <3> QED
        BY <3>2, <3>3
    <2>5. CASE k > i + 2
      <3>1. k - 1 \in 1 .. m /\ k - 1 \in 0 .. m + 1 /\ k - 1 > i + 1 /\ i + 1 \in 1 .. m /\ i # m
        BY <1>2, <2>5
      <3>2. t[k] = s[k - 1] /\ s[k - 1] # n /\ s[k - 1] \in Elems \ {e}
        BY <1>3, <1>6, <1>12, <2>5, <3>1
      <3>3. Place(h, t, k - 1) = Place(h, s, (k - 1) - 1)
        BY <1>2, <1>9, <3>1
      <3> QED
        BY <2>1, <3>1, <3>2, <3>3
    <2> QED
      BY <1>2, <2>2, <2>3, <2>4, <2>5
  <1>15. last'[h] = Place(h, t, m + 1)
    <2>1. last[h] = Place(h, s, m)
      BY <1>1, <1>2 DEF Represents
    <2>2. CASE i = m
      BY <1>2, <1>9, <1>12, <2>2
    <2>3. CASE i # m
      <3>1. i + 1 \in 1 .. m /\ m + 1 > i + 1 /\ (m + 1) - 1 = m /\ m + 1 \in 0 .. m + 1
        BY <1>2, <2>3
      <3>2. n # NULL
        BY <1>3, <1>12, <2>3, <3>1
      <3>3. Place(h, t, m + 1) = Place(h, s, m)
        BY <1>2, <1>9, <3>1
      <3> QED
        BY <2>1, <3>2, <3>3
    <2> QED
      BY <2>2, <2>3
  <1>16. Represents(h, t)'
    BY <1>7, <1>13, <1>14, <1>15 DEF Represents
  <1>17. Holds(h, t)'
    <2> SUFFICES ASSUME NEW x \in Elems
                 PROVE  on'[x] = h <=> \E k \in 1 .. m + 1 : t[k] = x
      BY <1>7 DEF Holds
    <2>1. CASE x = e
      <3>1. i + 1 \in 1 .. m + 1 /\ t[i + 1] = e
        BY <1>2, <1>6
      <3> QED
        BY <2>1, <3>1
    <2>2. CASE x # e
      <3>1. on'[x] = on[x]
        BY <2>2
      <3>2. on[x] = h <=> \E k \in 1 .. m : s[k] = x
        BY <1>1, <1>2 DEF Holds
      <3>3. ASSUME NEW k \in 1 .. m, s[k] = x PROVE \E j \in 1 .. m + 1 : t[j] = x
        <4>1. CASE k <= i
          <5>1. k \in 1 .. m + 1 /\ t[k] = x
            BY <1>2, <1>6, <3>3, <4>1
          <5> QED
            BY <5>1
        <4>2. CASE k > i
          <5>1. k + 1 \in 1 .. m + 1 /\ t[k + 1] = x
            BY <1>2, <1>6, <3>3, <4>2
          <5> QED
            BY <5>1
        <4> QED
          BY <1>2, <4>1, <4>2
      <3>4. ASSUME NEW k \in 1 .. m + 1, t[k] = x PROVE \E j \in 1 .. m : s[j] = x
        <4>1. CASE k <= i
          <5>1. k \in 1 .. m /\ s[k] = x
            BY <1>2, <1>6, <3>4, <4>1
          <5> QED
            BY <5>1
        <4>2. CASE k > i
          <5>1. k - 1 \in 1 .. m /\ s[k - 1] = x
            BY <1>2, <1>6, <2>2, <3>4, <4>2
          <5> QED
            BY <5>1
        <4> QED
          BY <1>2, <4>1, <4>2
      <3> QED
        BY <3>1, <3>2, <3>3, <3>4
    <2> QED
      BY <2>1, <2>2
  <1> QED
    BY <1>5, <1>7, <1>16, <1>17 DEF Chain

\* The element at i is unlinked; its own links stay.
LEMMA RemoveChain ==
    ASSUME TypeOK, NEW h \in Heads, NEW s, Chain(h, s), NEW i \in 1 .. Len(s),
           NEW e, e = s[i],
           NEW p, NEW n, p = prev[e], n = next[e],
           next'[p] = n, \A x \in Places \ {p} : next'[x] = next[x],
           \A x \in Elems : prev'[x] = IF x = n THEN p ELSE prev[x],
           last'[h] = IF n = NULL THEN p ELSE last[h],
           on'[e] = NULL, \A x \in Elems \ {e} : on'[x] = on[x]
    PROVE  Chain(h, Removed(s, i))' /\ p = Place(h, s, i - 1)
  <1>1. s \in Orders /\ Represents(h, s) /\ Holds(h, s)
    BY DEF Chain
  <1>2. PICK m \in Nat : m = Len(s)
    BY <1>1, OrderFacts
  <1>3. /\ \A k \in 1 .. m : s[k] \in Elems /\ s[k] # NULL
        /\ \A j, k \in 1 .. m : s[j] = s[k] => j = k
        /\ e \in Elems /\ h # NULL
    BY <1>1, <1>2, OrderFacts, DisjointAssumption
  <1>4. /\ \A k \in 0 .. m : Place(h, s, k) \in Places
        /\ Place(h, s, 0) = h /\ \A k \in 1 .. m : Place(h, s, k) = s[k]
        /\ \A j, k \in 0 .. m : Place(h, s, j) = Place(h, s, k) => j = k
    BY <1>1, <1>2, PlaceFacts
  <1>5. PICK t : t = Removed(s, i)
    OBVIOUS
  <1>6. m - 1 \in Nat /\ i \in 0 .. m /\ i - 1 \in 0 .. m
    BY <1>2
  <1>7. /\ t \in [1 .. m - 1 -> Elems]
        /\ \A k \in 1 .. m - 1 : t[k] = IF k < i THEN s[k] ELSE s[k + 1]
    BY <1>2, <1>3, <1>5 DEF Removed
  <1>8. t \in Orders /\ Len(t) = m - 1
    <2>1. \A j, k \in 1 .. m - 1 : t[j] = t[k] => j = k
      BY <1>2, <1>3, <1>7
    <2> QED
      BY <1>6, <1>7, <2>1, IsOrder
  <1>9. /\ Place(h, t, 0) = h
        /\ \A k \in 1 .. m - 1 : Place(h, t, k) = t[k]
    BY <1>1, <1>8, PlaceFacts
  <1>10. \A k \in 0 .. m - 1 : Place(h, t, k) = IF k < i THEN Place(h, s, k) ELSE Place(h, s, k + 1)
    BY <1>2, <1>4, <1>7, <1>9
  <1>11. /\ \A k \in 0 .. m : next[Place(h, s, k)] = IF k = m THEN NULL ELSE s[k + 1]
         /\ \A k \in 1 .. m : prev[s[k]] = Place(h, s, k - 1)
         /\ last[h] = Place(h, s, m)
    BY <1>1, <1>2 DEF Represents
  <1>12. /\ n = IF i = m THEN NULL ELSE s[i + 1]
         /\ p = Place(h, s, i - 1)
    BY <1>2, <1>4, <1>6, <1>11
  <1>13. next'[p] = n /\ \A x \in Places : x # p => next'[x] = next[x]
    OBVIOUS
  <1>14. ASSUME NEW k \in 0 .. m - 1
         PROVE  next'[Place(h, t, k)] = IF k = m - 1 THEN NULL ELSE t[k + 1]
    <2>1. CASE k < i - 1
      <3>1. k \in 0 .. m /\ k # i - 1 /\ k # m /\ k < i /\ k + 1 \in 1 .. m - 1 /\ k + 1 < i
        BY <1>2, <2>1
      <3>2. Place(h, t, k) = Place(h, s, k) /\ Place(h, s, k) # p
        BY <1>4, <1>6, <1>10, <1>12, <3>1
      <3>3. next'[Place(h, s, k)] = next[Place(h, s, k)]
        BY <1>4, <1>13, <3>1, <3>2
      <3>4. next[Place(h, s, k)] = s[k + 1] /\ t[k + 1] = s[k + 1]
        BY <1>7, <1>11, <3>1
      <3> QED
        BY <1>2, <2>1, <3>2, <3>3, <3>4
    <2>2. CASE k = i - 1
      <3>1. k < i /\ (k = m - 1 <=> i = m)
        BY <1>2, <2>2
      <3>2. Place(h, t, k) = p
        BY <1>10, <1>12, <2>2, <3>1
      <3>3. i # m => t[k + 1] = s[i + 1]
        <4> HAVE i # m
        <4>1. k + 1 \in 1 .. m - 1 /\ ~(k + 1 < i) /\ (k + 1) + 1 = i + 1
          BY <1>2, <2>2
        <4> QED
          BY <1>7, <4>1
      <3> QED
        BY <1>12, <1>13, <3>1, <3>2, <3>3
    <2>3. CASE k > i - 1
      <3>1. /\ k + 1 \in 0 .. m /\ k + 1 # i - 1 /\ ~(k < i)
            /\ (k + 1 = m <=> k = m - 1)
        BY <1>2, <2>3
      <3>2. Place(h, t, k) = Place(h, s, k + 1) /\ Place(h, s, k + 1) # p
        BY <1>4, <1>6, <1>10, <1>12, <3>1
      <3>3. next'[Place(h, s, k + 1)] = next[Place(h, s, k + 1)]
        BY <1>4, <1>13, <3>1, <3>2
      <3>4. next[Place(h, s, k + 1)] = IF k = m - 1 THEN NULL ELSE s[(k + 1) + 1]
        BY <1>11, <3>1
      <3>5. k # m - 1 => t[k + 1] = s[(k + 1) + 1]
        <4> HAVE k # m - 1
        <4>1. k + 1 \in 1 .. m - 1 /\ ~(k + 1 < i)
          BY <1>2, <2>3
        <4> QED
          BY <1>7, <4>1
      <3> QED
        BY <3>2, <3>3, <3>4, <3>5
    <2> QED
      BY <1>2, <2>1, <2>2, <2>3
  <1>15. ASSUME NEW k \in 1 .. m - 1
         PROVE  prev'[t[k]] = Place(h, t, k - 1)
    <2>1. CASE k < i
      <3>1. k \in 1 .. m /\ k - 1 \in 0 .. m - 1 /\ k - 1 < i
        BY <1>2, <2>1
      <3>2. t[k] = s[k] /\ s[k] # n /\ s[k] \in Elems
        <4>1. i # m => i + 1 \in 1 .. m /\ k # i + 1
          BY <1>2, <2>1
        <4> QED
          BY <1>3, <1>7, <1>12, <2>1, <3>1, <4>1
      <3> QED
        BY <1>10, <1>11, <3>1, <3>2
    <2>2. CASE k = i
      <3>1. i # m /\ i + 1 \in 1 .. m /\ k - 1 = i - 1 /\ k - 1 \in 0 .. m - 1 /\ k - 1 < i /\ ~(k < i)
        BY <1>2, <2>2
      <3>2. t[k] = n /\ n \in Elems
        BY <1>3, <1>7, <1>12, <2>2, <3>1
      <3>3. Place(h, t, k - 1) = p
        BY <1>10, <1>12, <3>1
      <3> QED
        BY <3>2, <3>3
    <2>3. CASE k > i
      <3>1. /\ k + 1 \in 1 .. m /\ k + 1 # i + 1 /\ i + 1 \in 1 .. m /\ i # m
            /\ k - 1 \in 0 .. m - 1 /\ ~(k - 1 < i) /\ ~(k < i) /\ (k - 1) + 1 = (k + 1) - 1
        BY <1>2, <2>3
      <3>2. t[k] = s[k + 1] /\ s[k + 1] # n /\ s[k + 1] \in Elems
        BY <1>3, <1>7, <1>12, <3>1
      <3>3. prev[s[k + 1]] = Place(h, s, (k + 1) - 1)
        BY <1>11, <3>1
      <3>4. Place(h, t, k - 1) = Place(h, s, (k + 1) - 1)
        BY <1>10, <3>1
      <3> QED
        BY <3>2, <3>3, <3>4
    <2> QED
      BY <1>2, <2>1, <2>2, <2>3
  <1>16. last'[h] = Place(h, t, m - 1)
    <2>1. m - 1 \in 0 .. m - 1
      BY <1>6
    <2>2. CASE i = m
      <3>1. m - 1 < i /\ i - 1 = m - 1
        BY <1>2, <2>2
      <3> QED
        BY <1>10, <1>12, <2>1, <2>2, <3>1
    <2>3. CASE i # m
      <3>1. i + 1 \in 1 .. m /\ ~(m - 1 < i) /\ (m - 1) + 1 = m
        BY <1>2, <2>3
      <3>2. n # NULL
        BY <1>3, <1>12, <2>3, <3>1
      <3>3. Place(h, t, m - 1) = Place(h, s, m)
        BY <1>10, <2>1, <3>1
      <3> QED
        BY <1>11, <3>2, <3>3
    <2> QED
      BY <2>2, <2>3
  <1>17. Represents(h, t)'
    BY <1>8, <1>14, <1>15, <1>16 DEF Represents
  <1>18. Holds(h, t)'
    <2> SUFFICES ASSUME NEW x \in Elems
                 PROVE  on'[x] = h <=> \E k \in 1 .. m - 1 : t[k] = x
      BY <1>8 DEF Holds
    <2>1. CASE x = e
      <3>1. on'[x] # h
        BY <1>3, <2>1
      <3>2. ASSUME NEW k \in 1 .. m - 1 PROVE t[k] # x
        <4>1. CASE k < i
          <5>1. k \in 1 .. m /\ k # i
            BY <1>2, <4>1
          <5> QED
            BY <1>2, <1>3, <1>7, <2>1, <4>1, <5>1
        <4>2. CASE k >= i
          <5>1. k + 1 \in 1 .. m /\ k + 1 # i /\ ~(k < i)
            BY <1>2, <4>2
          <5> QED
            BY <1>2, <1>3, <1>7, <2>1, <5>1
        <4> QED
          BY <1>2, <4>1, <4>2
      <3> QED
        BY <3>1, <3>2
    <2>2. CASE x # e
      <3>1. on'[x] = on[x]
        BY <2>2
      <3>2. on[x] = h <=> \E k \in 1 .. m : s[k] = x
        BY <1>1, <1>2 DEF Holds
      <3>3. ASSUME NEW k \in 1 .. m, s[k] = x PROVE \E j \in 1 .. m - 1 : t[j] = x
        <4>1. CASE k < i
          <5>1. k \in 1 .. m - 1 /\ t[k] = x
            BY <1>2, <1>7, <3>3, <4>1
          <5> QED
            BY <5>1
        <4>2. CASE k > i
          <5>1. k - 1 \in 1 .. m - 1 /\ t[k - 1] = x
            BY <1>2, <1>7, <3>3, <4>2
          <5> QED
            BY <5>1
        <4>3. k # i
          BY <2>2, <3>3
        <4> QED
          BY <1>2, <4>1, <4>2, <4>3
      <3>4. ASSUME NEW k \in 1 .. m - 1, t[k] = x PROVE \E j \in 1 .. m : s[j] = x
        <4>1. k \in 1 .. m /\ k + 1 \in 1 .. m
          BY <1>2
        <4> QED
          BY <1>7, <3>4, <4>1
      <3> QED
        BY <3>1, <3>2, <3>3, <3>4
    <2> QED
      BY <2>1, <2>2
  <1> QED
    BY <1>5, <1>8, <1>12, <1>17, <1>18 DEF Chain

\* f takes the place of the element at i.
LEMMA ReplaceChain ==
    ASSUME TypeOK, NEW h \in Heads, NEW s, Chain(h, s), NEW i \in 1 .. Len(s),
           NEW f \in Elems, on[f] = NULL,
           NEW e, e = s[i],
           NEW p, NEW n, p = prev[e], n = next[e],
           next'[f] = n, next'[p] = f, \A x \in Places \ {f, p} : next'[x] = next[x],
           prev'[f] = p,
           \A x \in Elems \ {f} : prev'[x] = IF x = n THEN f ELSE prev[x],
           last'[h] = IF n = NULL THEN f ELSE last[h],
           on'[e] = NULL, on'[f] = h, \A x \in Elems \ {e, f} : on'[x] = on[x]
    PROVE  Chain(h, [s EXCEPT ![i] = f])' /\ p = Place(h, s, i - 1)
  <1>1. s \in Orders /\ Represents(h, s) /\ Holds(h, s)
    BY DEF Chain
  <1>2. PICK m \in Nat : m = Len(s)
    BY <1>1, OrderFacts
  <1>3. /\ \A k \in 1 .. m : s[k] \in Elems /\ s[k] # NULL /\ s[k] # f
        /\ \A j, k \in 1 .. m : s[j] = s[k] => j = k
        /\ e \in Elems /\ h # NULL /\ f # h /\ f # NULL /\ f \in Places
        /\ DOMAIN s = 1 .. m
    <2>1. \A k \in 1 .. m : s[k] \in Elems /\ on[s[k]] = h
      BY <1>1, <1>2, OrderFacts DEF Holds
    <2> QED
      BY <1>1, <1>2, <2>1, OrderFacts, DisjointAssumption DEF Places
  <1>4. /\ \A k \in 0 .. m : Place(h, s, k) \in Places /\ Place(h, s, k) # f
        /\ Place(h, s, 0) = h /\ \A k \in 1 .. m : Place(h, s, k) = s[k]
        /\ \A j, k \in 0 .. m : Place(h, s, j) = Place(h, s, k) => j = k
    BY <1>1, <1>2, <1>3, PlaceFacts DEF Place
  <1>5. PICK t : t = [s EXCEPT ![i] = f]
    OBVIOUS
  <1>6. i \in 1 .. m /\ i \in 0 .. m /\ i - 1 \in 0 .. m /\ i # i - 1
    BY <1>2
  <1>7. t \in [1 .. m -> Elems] /\ \A k \in 1 .. m : t[k] = IF k = i THEN f ELSE s[k]
    <2>1. s \in [1 .. m -> Elems]
      BY <1>1, <1>2, OrderFacts, LenProperties
    <2> QED
      BY <1>5, <1>6, <2>1
  <1>8. t \in Orders /\ Len(t) = m
    <2>1. \A j, k \in 1 .. m : t[j] = t[k] => j = k
      BY <1>3, <1>7
    <2> QED
      BY <1>7, <2>1, IsOrder
  <1>9. /\ Place(h, t, 0) = h
        /\ \A k \in 1 .. m : Place(h, t, k) = t[k]
    BY <1>1, <1>8, PlaceFacts
  <1>10. \A k \in 0 .. m : Place(h, t, k) = IF k = i THEN f ELSE Place(h, s, k)
    BY <1>2, <1>4, <1>7, <1>9
  <1>11. /\ \A k \in 0 .. m : next[Place(h, s, k)] = IF k = m THEN NULL ELSE s[k + 1]
         /\ \A k \in 1 .. m : prev[s[k]] = Place(h, s, k - 1)
         /\ last[h] = Place(h, s, m)
    BY <1>1, <1>2 DEF Represents
  <1>12. /\ n = IF i = m THEN NULL ELSE s[i + 1]
         /\ p = Place(h, s, i - 1)
    BY <1>2, <1>4, <1>6, <1>11
  <1>13. /\ next'[p] = f /\ next'[f] = n
         /\ \A x \in Places : x # p /\ x # f => next'[x] = next[x]
    OBVIOUS
  <1>14. ASSUME NEW k \in 0 .. m
         PROVE  next'[Place(h, t, k)] = IF k = m THEN NULL ELSE t[k + 1]
    <2>1. CASE k = i
      <3>1. k # m => k + 1 \in 1 .. m /\ k + 1 # i
        BY <1>2, <2>1
      <3> QED
        BY <1>7, <1>10, <1>12, <1>13, <2>1, <3>1
    <2>2. CASE k = i - 1
      <3>1. k # m /\ k # i /\ k + 1 = i
        BY <1>2, <2>2
      <3>2. Place(h, t, k) = p /\ t[k + 1] = f
        BY <1>6, <1>7, <1>10, <1>12, <2>2, <3>1
      <3> QED
        BY <1>13, <3>1, <3>2
    <2>3. CASE k # i /\ k # i - 1
      <3>1. Place(h, t, k) = Place(h, s, k) /\ Place(h, s, k) # p
        BY <1>4, <1>6, <1>10, <1>12, <2>3
      <3>2. next'[Place(h, s, k)] = next[Place(h, s, k)]
        BY <1>4, <1>13, <3>1
      <3>3. k # m => k + 1 \in 1 .. m /\ k + 1 # i
        BY <1>2, <2>3
      <3>4. next'[Place(h, t, k)] = next[Place(h, s, k)]
        BY <3>1, <3>2
      <3>5. next[Place(h, s, k)] = IF k = m THEN NULL ELSE s[k + 1]
        BY <1>11
      <3>6. k # m => t[k + 1] = s[k + 1]
        BY <1>7, <3>3
      <3> QED
        BY <3>4, <3>5, <3>6
    <2> QED
      BY <2>1, <2>2, <2>3
  <1>15. ASSUME NEW k \in 1 .. m
         PROVE  prev'[t[k]] = Place(h, t, k - 1)
    <2>0. k - 1 \in 0 .. m
      BY <1>2
    <2>1. CASE k = i
      <3>1. k - 1 # i
        BY <1>2, <2>1
      <3> QED
        BY <1>7, <1>10, <1>12, <2>0, <2>1, <3>1
    <2>2. CASE k = i + 1
      <3>1. i # m /\ k - 1 = i /\ k # i
        BY <1>2, <2>2
      <3>2. t[k] = n /\ n \in Elems \ {f}
        BY <1>3, <1>7, <1>12, <2>2, <3>1
      <3> QED
        BY <1>10, <2>0, <3>1, <3>2
    <2>3. CASE k # i /\ k # i + 1
      <3>1. k - 1 # i
        BY <1>2, <2>3
      <3>2. t[k] = s[k] /\ s[k] # n /\ s[k] \in Elems \ {f}
        <4>1. i # m => i + 1 \in 1 .. m
          BY <1>2
        <4> QED
          BY <1>3, <1>7, <1>12, <2>3, <4>1
      <3>3. prev'[s[k]] = prev[s[k]]
        BY <3>2
      <3> QED
        BY <1>10, <1>11, <2>0, <3>1, <3>2, <3>3
    <2> QED
      BY <2>1, <2>2, <2>3
  <1>16. last'[h] = Place(h, t, m)
    <2>1. m \in 0 .. m
      BY <1>2
    <2>2. i # m => n # NULL
      <3>1. i # m => i + 1 \in 1 .. m
        BY <1>2
      <3> QED
        BY <1>3, <1>12, <3>1
    <2> QED
      BY <1>10, <1>11, <1>12, <2>1, <2>2
  <1>17. Represents(h, t)'
    BY <1>8, <1>14, <1>15, <1>16 DEF Represents
  <1>18. Holds(h, t)'
    <2> SUFFICES ASSUME NEW x \in Elems
                 PROVE  on'[x] = h <=> \E k \in 1 .. m : t[k] = x
      BY <1>8 DEF Holds
    <2>1. on'[f] = h /\ on'[e] = NULL
      OBVIOUS
    <2>2. \A k \in 1 .. m : t[k] # e
      BY <1>2, <1>3, <1>7
    <2>3. t[i] = f
      BY <1>6, <1>7
    <2>4. CASE x = e \/ x = f
      BY <1>3, <1>6, <2>1, <2>2, <2>3, <2>4
    <2>5. CASE x # e /\ x # f
      <3>1. on'[x] = on[x]
        BY <2>5
      <3>2. on[x] = h <=> \E k \in 1 .. m : s[k] = x
        BY <1>1, <1>2 DEF Holds
      <3>3. \A k \in 1 .. m : t[k] = x <=> s[k] = x
        BY <1>7, <2>5
      <3> QED
        BY <3>1, <3>2, <3>3
    <2> QED
      BY <2>4, <2>5
  <1> QED
    BY <1>5, <1>8, <1>12, <1>17, <1>18 DEF Chain

\* The elements of g, which has some, go to the end of h.
LEMMA ConcatChain ==
    ASSUME TypeOK, NEW h \in Heads, NEW g \in Heads, h # g,
           NEW s, Chain(h, s), NEW t, Chain(g, t), next[g] # NULL,
           next' = [next EXCEPT ![last[h]] = next[g], ![g] = NULL],
           prev' = [prev EXCEPT ![next[g]] = last[h]],
           last' = [last EXCEPT ![h] = last[g], ![g] = g],
           on' = [x \in Elems |-> IF on[x] = g THEN h ELSE on[x]]
    PROVE  Chain(h, s \o t)' /\ Chain(g, <<>>)'
  <1>1. /\ s \in Orders /\ Represents(h, s) /\ Holds(h, s)
        /\ t \in Orders /\ Represents(g, t) /\ Holds(g, t)
    BY DEF Chain
  <1>2. PICK m, n \in Nat : m = Len(s) /\ n = Len(t)
    BY <1>1, OrderFacts
  <1>3. /\ \A k \in 1 .. m : s[k] \in Elems /\ s[k] # NULL /\ s[k] # g /\ on[s[k]] = h
        /\ \A k \in 1 .. n : t[k] \in Elems /\ t[k] # NULL /\ t[k] # g /\ on[t[k]] = g
        /\ \A j, k \in 1 .. m : s[j] = s[k] => j = k
        /\ \A j, k \in 1 .. n : t[j] = t[k] => j = k
        /\ h # NULL /\ g # NULL
    <2>1. /\ \A k \in 1 .. m : s[k] \in Elems
          /\ \A k \in 1 .. n : t[k] \in Elems
          /\ \A j, k \in 1 .. m : s[j] = s[k] => j = k
          /\ \A j, k \in 1 .. n : t[j] = t[k] => j = k
      BY <1>1, <1>2, OrderFacts
    <2>2. \A k \in 1 .. m : on[s[k]] = h
      BY <1>1, <1>2, <2>1 DEF Holds
    <2>3. \A k \in 1 .. n : on[t[k]] = g
      BY <1>1, <1>2, <2>1 DEF Holds
    <2> QED
      BY <2>1, <2>2, <2>3, DisjointAssumption
  <1>4. /\ \A k \in 0 .. m : Place(h, s, k) \in Places /\ Place(h, s, k) # g
        /\ Place(h, s, 0) = h /\ \A k \in 1 .. m : Place(h, s, k) = s[k]
        /\ \A j, k \in 0 .. m : Place(h, s, j) = Place(h, s, k) => j = k
    BY <1>1, <1>2, <1>3, PlaceFacts DEF Place
  <1>5. /\ \A k \in 0 .. n : Place(g, t, k) \in Places
        /\ Place(g, t, 0) = g /\ \A k \in 1 .. n : Place(g, t, k) = t[k]
    BY <1>1, <1>2, PlaceFacts
  <1>6. /\ \A k \in 0 .. m : next[Place(h, s, k)] = IF k = m THEN NULL ELSE s[k + 1]
        /\ \A k \in 1 .. m : prev[s[k]] = Place(h, s, k - 1)
        /\ last[h] = Place(h, s, m)
        /\ \A k \in 0 .. n : next[Place(g, t, k)] = IF k = n THEN NULL ELSE t[k + 1]
        /\ \A k \in 1 .. n : prev[t[k]] = Place(g, t, k - 1)
        /\ last[g] = Place(g, t, n)
    BY <1>1, <1>2 DEF Represents
  <1>7. n # 0 /\ next[g] = t[1] /\ last[g] = t[n] /\ n \in 1 .. n /\ 1 \in 1 .. n
    <2>1. 0 \in 0 .. n
      BY <1>2
    <2>2. next[g] = IF 0 = n THEN NULL ELSE t[0 + 1]
      BY <1>5, <1>6, <2>1
    <2>3. n # 0
      BY <2>2
    <2> QED
      BY <1>2, <1>5, <1>6, <2>2, <2>3
  <1>8. PICK u : u = s \o t
    OBVIOUS
  <1>9. /\ u \in [1 .. m + n -> Elems]
        /\ \A k \in 1 .. m + n : u[k] = IF k <= m THEN s[k] ELSE t[k - m]
    <2>1. s \in Seq(Elems) /\ t \in Seq(Elems)
      BY <1>1, OrderFacts
    <2>2. /\ u \in Seq(Elems) /\ Len(u) = m + n
          /\ \A k \in 1 .. m + n : u[k] = IF k <= m THEN s[k] ELSE t[k - m]
      BY <1>2, <1>8, <2>1, ConcatProperties
    <2> QED
      BY <2>2, LenProperties
  <1>10. \A k \in 1 .. m + n : (k <= m => k \in 1 .. m) /\ (~(k <= m) => k - m \in 1 .. n)
    BY <1>2
  <1>11. u \in Orders /\ Len(u) = m + n
    <2>1. \A j \in 1 .. m, k \in 1 .. n : s[j] # t[k]
      BY <1>3
    <2>2. \A j, k \in 1 .. m + n : u[j] = u[k] => j = k
      BY <1>2, <1>3, <1>9, <1>10, <2>1
    <2> QED
      BY <1>9, <2>2, IsOrder, m + n \in Nat
  <1>12. /\ Place(h, u, 0) = h
         /\ \A k \in 1 .. m + n : Place(h, u, k) = u[k]
    BY <1>1, <1>11, PlaceFacts
  <1>13. \A k \in 0 .. m + n : Place(h, u, k) = IF k <= m THEN Place(h, s, k) ELSE t[k - m]
    BY <1>2, <1>4, <1>9, <1>12
  <1>14. last[h] \in Places /\ g \in Places /\ last[h] # g
    BY <1>4, <1>6, m \in 0 .. m DEF Places
  <1>15. /\ next'[last[h]] = t[1] /\ next'[g] = NULL
         /\ \A x \in Places : x # last[h] /\ x # g => next'[x] = next[x]
         /\ prev'[t[1]] = last[h]
         /\ \A x \in Elems : x # t[1] => prev'[x] = prev[x]
         /\ last'[h] = t[n] /\ last'[g] = g
    BY <1>3, <1>7, <1>14 DEF TypeOK
  <1>16. ASSUME NEW k \in 0 .. m + n
         PROVE  next'[Place(h, u, k)] = IF k = m + n THEN NULL ELSE u[k + 1]
    <2>1. CASE k < m
      <3>1. k \in 0 .. m /\ k <= m /\ k # m /\ k # m + n /\ k + 1 \in 1 .. m + n /\ k + 1 <= m
        BY <1>2, <2>1
      <3>2. Place(h, s, k) # last[h]
        BY <1>4, <1>6, <3>1, m \in 0 .. m
      <3>3. next'[Place(h, s, k)] = s[k + 1]
        BY <1>4, <1>6, <1>15, <3>1, <3>2
      <3>4. u[k + 1] = s[k + 1]
        BY <1>9, <3>1
      <3> QED
        BY <1>13, <3>1, <3>3, <3>4
    <2>2. CASE k = m
      <3>1. k # m + n /\ k + 1 \in 1 .. m + n /\ ~(k + 1 <= m) /\ (k + 1) - m = 1
        BY <1>2, <1>7, <2>2
      <3>2. u[k + 1] = t[1]
        BY <1>9, <3>1
      <3>3. Place(h, u, k) = last[h]
        BY <1>2, <1>6, <1>13, <2>2
      <3> QED
        BY <1>15, <3>1, <3>2, <3>3
    <2>3. CASE k > m
      <3>1. k - m \in 1 .. n /\ k - m \in 0 .. n /\ ~(k <= m) /\ (k - m = n <=> k = m + n)
        BY <1>2, <2>3
      <3>2. Place(h, u, k) = t[k - m] /\ t[k - m] = Place(g, t, k - m)
        BY <1>5, <1>13, <3>1
      <3>3. next[t[k - m]] = IF k = m + n THEN NULL ELSE t[(k - m) + 1]
        BY <1>6, <3>1, <3>2
      <3>4. t[k - m] # last[h]
        <4>1. CASE m = 0
          BY <1>3, <1>4, <1>6, <3>1, <4>1, DisjointAssumption
        <4>2. CASE m # 0
          <5>1. m \in 1 .. m
            BY <1>2, <4>2
          <5>2. last[h] = s[m] /\ on[s[m]] = h /\ on[t[k - m]] = g
            BY <1>3, <1>4, <1>6, <3>1, <5>1
          <5> QED
            BY <5>2
        <4> QED
          BY <4>1, <4>2
      <3>5. next'[t[k - m]] = next[t[k - m]]
        BY <1>3, <1>15, <3>1, <3>4 DEF Places
      <3>6. k # m + n => u[k + 1] = t[(k - m) + 1]
        <4> HAVE k # m + n
        <4>1. k + 1 \in 1 .. m + n /\ ~(k + 1 <= m)
          <5>1. k \in Int /\ m \in Nat /\ n \in Nat /\ k <= m + n /\ k > m /\ k # m + n
            BY <1>2, <2>3
          <5> QED
            BY ONLY <5>1
        <4>2. (k + 1) - m = (k - m) + 1
          BY <1>2, <2>3
        <4> QED
          BY <1>9, <4>1, <4>2
      <3> QED
        BY <3>2, <3>3, <3>5, <3>6
    <2> QED
      BY <1>2, <2>1, <2>2, <2>3
  <1>17. ASSUME NEW k \in 1 .. m + n
         PROVE  prev'[u[k]] = Place(h, u, k - 1)
    <2>0. k - 1 \in 0 .. m + n
      BY <1>2
    <2>1. CASE k <= m
      <3>1. k \in 1 .. m /\ k - 1 <= m
        BY <1>2, <2>1
      <3>2. u[k] = s[k] /\ s[k] # t[1]
        BY <1>3, <1>7, <1>9, <2>1, <3>1
      <3>3. prev'[s[k]] = Place(h, s, k - 1)
        BY <1>3, <1>6, <1>15, <3>1, <3>2
      <3> QED
        BY <1>13, <2>0, <3>1, <3>2, <3>3
    <2>2. CASE k = m + 1
      <3>1. ~(k <= m) /\ k - m = 1 /\ k - 1 <= m /\ k - 1 = m
        BY <1>2, <2>2
      <3> QED
        BY <1>6, <1>9, <1>13, <1>15, <2>0, <3>1
    <2>3. CASE k > m + 1
      <3>1. /\ ~(k <= m) /\ k - m \in 1 .. n /\ k - m # 1 /\ ~(k - 1 <= m)
            /\ (k - m) - 1 = (k - 1) - m /\ (k - 1) - m \in 1 .. n
        BY <1>2, <2>3
      <3>2. u[k] = t[k - m] /\ t[k - m] # t[1]
        BY <1>3, <1>7, <1>9, <3>1
      <3>3. prev'[t[k - m]] = Place(g, t, (k - m) - 1)
        BY <1>3, <1>6, <1>15, <3>1, <3>2
      <3>4. Place(g, t, (k - 1) - m) = t[(k - 1) - m]
        BY <1>5, <3>1
      <3> QED
        BY <1>13, <2>0, <3>1, <3>2, <3>3, <3>4
    <2> QED
      BY <1>2, <2>1, <2>2, <2>3
  <1>18. last'[h] = Place(h, u, m + n)
    <2>1. m + n \in 0 .. m + n /\ ~(m + n <= m) /\ (m + n) - m = n
      BY <1>2, <1>7
    <2> QED
      BY <1>13, <1>15, <2>1
  <1>19. Represents(h, u)'
    BY <1>11, <1>16, <1>17, <1>18 DEF Represents
  <1>20. Holds(h, u)'
    <2> SUFFICES ASSUME NEW x \in Elems
                 PROVE  on'[x] = h <=> \E k \in 1 .. m + n : u[k] = x
      BY <1>11 DEF Holds
    <2>1. on'[x] = h <=> on[x] = h \/ on[x] = g
      OBVIOUS
    <2>2. /\ on[x] = h <=> \E k \in 1 .. m : s[k] = x
          /\ on[x] = g <=> \E k \in 1 .. n : t[k] = x
      BY <1>1, <1>2 DEF Holds
    <2>3. ASSUME NEW k \in 1 .. m PROVE k \in 1 .. m + n /\ u[k] = s[k]
      <3>1. k \in 1 .. m + n /\ k <= m
        BY <1>2
      <3> QED
        BY <1>9, <3>1
    <2>4. ASSUME NEW k \in 1 .. n PROVE m + k \in 1 .. m + n /\ u[m + k] = t[k]
      <3>1. m + k \in 1 .. m + n /\ ~(m + k <= m) /\ (m + k) - m = k
        BY <1>2
      <3> QED
        BY <1>9, <3>1
    <2>5. \A k \in 1 .. m + n : (\E j \in 1 .. m : s[j] = u[k]) \/ (\E j \in 1 .. n : t[j] = u[k])
      BY <1>9, <1>10
    <2> QED
      BY <2>1, <2>2, <2>3, <2>4, <2>5
  <1>21. Chain(g, <<>>)'
    <2>1. <<>> \in Orders
      <3>1. <<>> \in Seq(Elems) /\ Len(<<>>) = 0
        BY EmptySeq
      <3> QED
        BY <3>1, OrdersAre
    <2>2. Represents(g, <<>>)'
      BY <1>15 DEF Represents, Place
    <2>3. Holds(g, <<>>)'
      BY DEF Holds
    <2> QED
      BY <2>1, <2>2, <2>3 DEF Chain
  <1> QED
    BY <1>8, <1>11, <1>19, <1>20, <1>21 DEF Chain

-----------------------------------------------------------------------------
(* States, by their sequences *)

\* The loop is where LoopOnCourse says, by the sequence that L gives its queue.
OnCourse(L) ==
    loop.mode # "none" =>
       LET c == L[loop.head]
           k == Len(loop.seen)
       IN  /\ loop.head \in Heads
           /\ loop.mode = "walk" =>
                 /\ k <= Len(c)
                 /\ \A i \in 1 .. k : loop.seen[i] = c[i]
                 /\ loop.var = IF k = Len(c) THEN NULL ELSE c[k + 1]
           /\ loop.mode = "drain" => loop.var = IF c = <<>> THEN NULL ELSE c[1]
           /\ loop.mode = "freed" => loop.tmp = IF c = <<>> THEN NULL ELSE c[1]

Sound(L) == Shape(L) /\ OnCourse(L)

LEMMA IInvIs ==
    IInv <=> TypeOK /\ \E L : Sound(L)
  <1>1. ASSUME NEW L, Shape(L)
        PROVE  OnCourse(L) <=> OnQueue /\ LoopOnCourse
    <2>1. CASE loop.mode = "none"
      BY <2>1 DEF OnCourse, OnQueue, LoopOnCourse
    <2>2. CASE loop.mode # "none" /\ loop.head \in Heads
      <3>1. Content(loop.head) = L[loop.head]
        BY <1>1, <2>2, ContentIs DEF Shape
      <3> QED
        BY <2>2, <3>1 DEF OnCourse, OnQueue, LoopOnCourse
    <2>3. CASE loop.mode # "none" /\ loop.head \notin Heads
      BY <2>3 DEF OnCourse, OnQueue
    <2> QED
      BY <2>1, <2>2, <2>3
  <1>2. WellLinked => TypeOK
    BY DEF WellLinked
  <1> QED
    BY <1>1, <1>2, ShapeLinks DEF IInv, Sound

\* What holds in every state holds in the next.
LEMMA IInvIsNext == (IInv <=> TypeOK /\ \E L : Sound(L))'
  <1>1. IInv <=> TypeOK /\ \E L : Sound(L)
    BY IInvIs
  <1> QED
    BY <1>1, PTL

LEMMA ShapeIsNext == (\A L : Shape(L) => L = [h \in Heads |-> Content(h)])'
  <1>1. \A L : Shape(L) => L = [h \in Heads |-> Content(h)]
    BY ShapeIs
  <1> QED
    BY <1>1, PTL

\* A macro leaves the loop under way, and its queue, alone.
LEMMA Arrive ==
    ASSUME NEW L, Sound(L), TypeOK', NEW M, Shape(M)', loop' = loop,
           \A h \in Heads : ~Mine(h) => M[h] = L[h]
    PROVE  IInv'
  <1>1. loop.mode # "none" => loop.head \in Heads /\ M[loop.head] = L[loop.head]
    BY DEF Sound, OnCourse, Mine
  <1>2. OnCourse(M)'
    BY <1>1 DEF Sound, OnCourse
  <1>3. Sound(M)'
    BY <1>2 DEF Sound
  <1> QED
    BY <1>3, IInvIsNext

\* What a queue h has, no other queue has.
LEMMA Apart ==
    ASSUME NEW h \in Heads, NEW g \in Heads \ {h}, NEW s, Chain(h, s), NEW i \in 0 .. Len(s)
    PROVE  /\ Place(h, s, i) # g
           /\ Place(h, s, i) \in Elems => on[Place(h, s, i)] # g
           /\ Place(h, s, i) # NULL
  <1>1. s \in Orders /\ Holds(h, s)
    BY DEF Chain
  <1>2. Len(s) \in Nat /\ \A k \in 1 .. Len(s) : s[k] \in Elems /\ on[s[k]] = h
    BY <1>1, OrderFacts DEF Holds
  <1>3. CASE i = 0
    BY <1>3, DisjointAssumption DEF Place
  <1>4. CASE i # 0
    BY <1>2, <1>4, DisjointAssumption DEF Place
  <1> QED
    BY <1>3, <1>4

\* A queue with a new sequence, among the others as they were.
LEMMA OneChanged ==
    ASSUME NEW L, Shape(L), NEW h \in Heads, NEW s, Chain(h, s)',
           \A g \in Heads \ {h} : Chain(g, L[g])'
    PROVE  Shape([L EXCEPT ![h] = s])'
  <1>1. s \in Orders /\ L \in [Heads -> Orders]
    BY DEF Chain, Shape
  <1>2. PICK M : M = [L EXCEPT ![h] = s]
    OBVIOUS
  <1>3. M \in [Heads -> Orders]
    BY <1>1, <1>2
  <1>4. ASSUME NEW g \in Heads PROVE Chain(g, M[g])'
    <2>1. CASE g = h
      <3>1. M[h] = s
        BY <1>1, <1>2
      <3> QED
        BY <2>1, <3>1
    <2>2. CASE g # h
      <3>1. M[g] = L[g]
        BY <1>1, <1>2, <2>2
      <3> QED
        BY <2>2, <3>1
    <2> QED
      BY <2>1, <2>2
  <1>5. Shape(M)'
    BY <1>3, <1>4 DEF Shape
  <1> QED
    BY <1>2, <1>5

\* Of the links and the owners, only those that lead to e and from e change.
Between(h, e, p, n) ==
    /\ next'[e] = n /\ next'[p] = e /\ \A x \in Places \ {e, p} : next'[x] = next[x]
    /\ prev'[e] = p
    /\ \A x \in Elems \ {e} : prev'[x] = IF x = n THEN e ELSE prev[x]
    /\ last'[h] = IF n = NULL THEN e ELSE last[h]
    /\ \A g \in Heads \ {h} : last'[g] = last[g]
    /\ on'[e] = h /\ \A x \in Elems \ {e} : on'[x] = on[x]

LEMMA InsertShape ==
    ASSUME TypeOK, NEW L, Shape(L), NEW h \in Heads, NEW i \in 0 .. Len(L[h]),
           NEW e \in Elems, on[e] = NULL,
           NEW p, NEW n, p = Place(h, L[h], i), n = next[p], Between(h, e, p, n)
    PROVE  Shape([L EXCEPT ![h] = Inserted(L[h], i, e)])'
  <1>0. /\ next'[e] = n /\ next'[p] = e /\ \A x \in Places \ {e, p} : next'[x] = next[x]
        /\ prev'[e] = p
        /\ \A x \in Elems \ {e} : prev'[x] = IF x = n THEN e ELSE prev[x]
        /\ last'[h] = IF n = NULL THEN e ELSE last[h]
        /\ \A g \in Heads \ {h} : last'[g] = last[g]
        /\ on'[e] = h /\ \A x \in Elems \ {e} : on'[x] = on[x]
    BY DEF Between
  <1>1. Chain(h, L[h]) /\ \A g \in Heads : Chain(g, L[g])
    BY DEF Shape
  <1>2. Chain(h, Inserted(L[h], i, e))'
    BY <1>0, <1>1, InsertChain DEF Shape
  <1>3. ASSUME NEW g \in Heads \ {h} PROVE Chain(g, L[g])'
    <2>1. p # g /\ (p \in Elems => on[p] # g)
      BY <1>1, Apart
    <2>2. n # NULL => n \in Elems /\ on[n] = h
      <3>1. n = IF i = Len(L[h]) THEN NULL ELSE L[h][i + 1]
        BY <1>1 DEF Chain, Represents
      <3>2. /\ Len(L[h]) \in Nat
            /\ \A k \in 1 .. Len(L[h]) : L[h][k] \in Elems /\ on[L[h][k]] = h
        BY <1>1, OrderFacts DEF Chain, Holds
      <3>3. i # Len(L[h]) => i + 1 \in 1 .. Len(L[h])
        BY <3>2
      <3> QED
        BY <3>1, <3>2, <3>3
    <2>3. g # e /\ g # NULL /\ on[e] # g
      BY DisjointAssumption
    <2>4. next'[g] = next[g]
      BY <1>0, <2>1, <2>3 DEF Places
    <2>5. \A x \in Elems : on[x] = g => next'[x] = next[x] /\ prev'[x] = prev[x]
      <3> SUFFICES ASSUME NEW x \in Elems, on[x] = g PROVE next'[x] = next[x] /\ prev'[x] = prev[x]
        OBVIOUS
      <3>1. x # e /\ x # p /\ x # n
        BY <2>1, <2>2, <2>3, DisjointAssumption
      <3> QED
        BY <1>0, <3>1 DEF Places
    <2>6. \A x \in Elems : on'[x] = g <=> on[x] = g
      BY <1>0, <2>3
    <2> QED
      BY <1>0, <1>1, <2>4, <2>5, <2>6, FrameChain
  <1> QED
    BY <1>2, <1>3, OneChanged

LEMMA RemoveShape ==
    ASSUME TypeOK, NEW L, Shape(L), NEW h \in Heads, NEW e \in Elems, on[e] = h, Unlink(h, e)
    PROVE  /\ next' \in [Places -> Elems \cup {NULL}]
           /\ prev' \in [Elems -> Places] /\ last' \in [Heads -> Places]
           /\ on' \in [Elems -> Heads \cup {NULL}]
           /\ \E i \in 1 .. Len(L[h]) :
                 L[h][i] = e /\ Shape([L EXCEPT ![h] = Removed(L[h], i)])'
  <1>1. Chain(h, L[h]) /\ \A g \in Heads : Chain(g, L[g])
    BY DEF Shape
  <1>2. PICK i \in 1 .. Len(L[h]) : L[h][i] = e
    BY <1>1 DEF Chain, Holds
  <1>3. PICK p \in Places, n \in Elems \cup {NULL} : p = prev[e] /\ n = next[e]
    BY DEF TypeOK, Places
  <1>4. /\ next' = [next EXCEPT ![p] = n]
        /\ on' = [on EXCEPT ![e] = NULL]
        /\ Back(h, n, p)
    BY <1>3 DEF Unlink
  <1>L. /\ next'[p] = n /\ \A x \in Places \ {p} : next'[x] = next[x]
        /\ on'[e] = NULL /\ \A x \in Elems \ {e} : on'[x] = on[x]
    BY <1>3, <1>4 DEF TypeOK
  <1>5. /\ prev' \in [Elems -> Places] /\ last' \in [Heads -> Places]
        /\ \A x \in Elems : prev'[x] = IF x = n THEN p ELSE prev[x]
        /\ last'[h] = IF n = NULL THEN p ELSE last[h]
        /\ \A g \in Heads \ {h} : last'[g] = last[g]
    <2>1. NULL \notin Elems
      BY DisjointAssumption
    <2>2. prev \in [Elems -> Places] /\ last \in [Heads -> Places]
      BY DEF TypeOK
    <2>3. CASE n # NULL
      BY <1>3, <1>4, <2>2, <2>3 DEF Back
    <2>4. CASE n = NULL
      BY <1>3, <1>4, <2>1, <2>2, <2>4 DEF Back
    <2> QED
      BY <2>3, <2>4
  <1>6. Chain(h, Removed(L[h], i))' /\ p = Place(h, L[h], i - 1)
    BY <1>L, <1>1, <1>2, <1>3, <1>5, RemoveChain
  <1>7. /\ Len(L[h]) \in Nat
        /\ \A k \in 1 .. Len(L[h]) : L[h][k] \in Elems /\ on[L[h][k]] = h
    BY <1>1, OrderFacts DEF Chain, Holds
  <1>8. ASSUME NEW g \in Heads \ {h} PROVE Chain(g, L[g])'
    <2>1. p # g /\ (p \in Elems => on[p] # g)
      <3>1. i - 1 \in 0 .. Len(L[h])
        BY <1>7
      <3> QED
        BY <1>1, <1>6, <3>1, Apart
    <2>2. n # NULL => on[n] = h
      <3>1. i \in 0 .. Len(L[h])
        BY <1>7
      <3>2. Place(h, L[h], i) = e
        BY <1>2, <1>7 DEF Place
      <3>3. next[Place(h, L[h], i)] = IF i = Len(L[h]) THEN NULL ELSE L[h][i + 1]
        BY <1>1, <3>1 DEF Chain, Represents
      <3>4. i # Len(L[h]) => i + 1 \in 1 .. Len(L[h])
        BY <1>7
      <3> QED
        BY <1>3, <1>7, <3>2, <3>3, <3>4
    <2>3. g # NULL /\ g \notin Elems
      BY DisjointAssumption
    <2>4. next'[g] = next[g]
      BY <1>L, <2>1 DEF Places
    <2>5. \A x \in Elems : on[x] = g => next'[x] = next[x] /\ prev'[x] = prev[x]
      <3> SUFFICES ASSUME NEW x \in Elems, on[x] = g PROVE next'[x] = next[x] /\ prev'[x] = prev[x]
        OBVIOUS
      <3>1. x # p /\ x # n
        BY <2>1, <2>2, DisjointAssumption
      <3> QED
        BY <1>L, <1>5, <3>1 DEF Places
    <2>6. \A x \in Elems : on'[x] = g <=> on[x] = g
      BY <1>L, <2>3
    <2> QED
      BY <1>1, <1>5, <2>4, <2>5, <2>6, FrameChain
  <1>9. Shape([L EXCEPT ![h] = Removed(L[h], i)])'
    BY <1>6, <1>8, OneChanged
  <1>10. next' \in [Places -> Elems \cup {NULL}] /\ on' \in [Elems -> Heads \cup {NULL}]
    BY <1>3, <1>4 DEF TypeOK
  <1> QED
    BY <1>2, <1>5, <1>9, <1>10

\* Of the links and the owners, only those that led to e and now lead to f change.
Instead(h, e, f, p, n) ==
    /\ next'[f] = n /\ next'[p] = f /\ \A x \in Places \ {f, p} : next'[x] = next[x]
    /\ prev'[f] = p
    /\ \A x \in Elems \ {f} : prev'[x] = IF x = n THEN f ELSE prev[x]
    /\ last'[h] = IF n = NULL THEN f ELSE last[h]
    /\ \A g \in Heads \ {h} : last'[g] = last[g]
    /\ on'[e] = NULL /\ on'[f] = h /\ \A x \in Elems \ {e, f} : on'[x] = on[x]

LEMMA ReplaceShape ==
    ASSUME TypeOK, NEW L, Shape(L), NEW h \in Heads, NEW i \in 1 .. Len(L[h]),
           NEW f \in Elems, on[f] = NULL, NEW e, e = L[h][i],
           NEW p, NEW n, p = prev[e], n = next[e], Instead(h, e, f, p, n)
    PROVE  Shape([L EXCEPT ![h] = [L[h] EXCEPT ![i] = f]])'
  <1>0. /\ next'[f] = n /\ next'[p] = f /\ \A x \in Places \ {f, p} : next'[x] = next[x]
        /\ prev'[f] = p
        /\ \A x \in Elems \ {f} : prev'[x] = IF x = n THEN f ELSE prev[x]
        /\ last'[h] = IF n = NULL THEN f ELSE last[h]
        /\ \A g \in Heads \ {h} : last'[g] = last[g]
        /\ on'[e] = NULL /\ on'[f] = h /\ \A x \in Elems \ {e, f} : on'[x] = on[x]
    BY DEF Instead
  <1>1. Chain(h, L[h]) /\ \A g \in Heads : Chain(g, L[g])
    BY DEF Shape
  <1>2. Chain(h, [L[h] EXCEPT ![i] = f])' /\ p = Place(h, L[h], i - 1)
    BY <1>0, <1>1, ReplaceChain
  <1>3. /\ Len(L[h]) \in Nat
        /\ \A k \in 1 .. Len(L[h]) : L[h][k] \in Elems /\ on[L[h][k]] = h
    BY <1>1, OrderFacts DEF Chain, Holds
  <1>4. ASSUME NEW g \in Heads \ {h} PROVE Chain(g, L[g])'
    <2>1. p # g /\ (p \in Elems => on[p] # g)
      <3>1. i - 1 \in 0 .. Len(L[h])
        BY <1>3
      <3> QED
        BY <1>1, <1>2, <3>1, Apart
    <2>2. n # NULL => on[n] = h
      <3>1. i \in 0 .. Len(L[h])
        BY <1>3
      <3>2. Place(h, L[h], i) = e
        BY <1>3 DEF Place
      <3>3. next[Place(h, L[h], i)] = IF i = Len(L[h]) THEN NULL ELSE L[h][i + 1]
        BY <1>1, <3>1 DEF Chain, Represents
      <3>4. i # Len(L[h]) => i + 1 \in 1 .. Len(L[h])
        BY <1>3
      <3> QED
        BY <1>3, <3>2, <3>3, <3>4
    <2>3. g # NULL /\ g \notin Elems /\ e \in Elems /\ on[e] = h
      BY <1>3, DisjointAssumption
    <2>4. next'[g] = next[g]
      BY <1>0, <2>1, <2>3 DEF Places
    <2>5. \A x \in Elems : on[x] = g => next'[x] = next[x] /\ prev'[x] = prev[x]
      <3> SUFFICES ASSUME NEW x \in Elems, on[x] = g PROVE next'[x] = next[x] /\ prev'[x] = prev[x]
        OBVIOUS
      <3>1. x # p /\ x # n /\ x # f
        BY <2>1, <2>2, <2>3, DisjointAssumption
      <3> QED
        BY <1>0, <3>1 DEF Places
    <2>6. \A x \in Elems : on'[x] = g <=> on[x] = g
      BY <1>0, <2>3
    <2> QED
      BY <1>0, <1>1, <2>4, <2>5, <2>6, FrameChain
  <1> QED
    BY <1>2, <1>4, OneChanged

LEMMA ConcatShape ==
    ASSUME TypeOK, NEW L, Shape(L), NEW h \in Heads, NEW g \in Heads, h # g, next[g] # NULL,
           next' = [next EXCEPT ![last[h]] = next[g], ![g] = NULL],
           prev' = [prev EXCEPT ![next[g]] = last[h]],
           last' = [last EXCEPT ![h] = last[g], ![g] = g],
           on' = [x \in Elems |-> IF on[x] = g THEN h ELSE on[x]]
    PROVE  Shape([L EXCEPT ![h] = L[h] \o L[g], ![g] = <<>>])'
  <1>1. Chain(h, L[h]) /\ Chain(g, L[g]) /\ \A x \in Heads : Chain(x, L[x])
    BY DEF Shape
  <1>2. Chain(h, L[h] \o L[g])' /\ Chain(g, <<>>)'
    BY <1>1, ConcatChain
  <1>3. ASSUME NEW q \in Heads \ {h, g} PROVE Chain(q, L[q])'
    <2>1. last[h] # q /\ (last[h] \in Elems => on[last[h]] # q)
      <3>1. last[h] = Place(h, L[h], Len(L[h])) /\ Len(L[h]) \in 0 .. Len(L[h])
        BY <1>1, OrderFacts DEF Chain, Represents
      <3> QED
        BY <1>1, <3>1, Apart
    <2>2. on[next[g]] = g
      <3>1. /\ Len(L[g]) \in Nat
            /\ \A k \in 1 .. Len(L[g]) : L[g][k] \in Elems /\ on[L[g][k]] = g
        BY <1>1, OrderFacts DEF Chain, Holds
      <3>2. 0 \in 0 .. Len(L[g]) /\ Place(g, L[g], 0) = g
        BY <3>1 DEF Place
      <3>3. next[g] = IF 0 = Len(L[g]) THEN NULL ELSE L[g][0 + 1]
        BY <1>1, <3>2 DEF Chain, Represents
      <3>4. 0 # Len(L[g]) => 0 + 1 \in 1 .. Len(L[g])
        BY <3>1
      <3> QED
        BY <3>1, <3>3, <3>4
    <2>3. q \notin Elems /\ g \notin Elems /\ q # g /\ q # h
      BY DisjointAssumption
    <2>4. next'[q] = next[q] /\ last'[q] = last[q]
      BY <2>1, <2>3 DEF TypeOK, Places
    <2>5. \A x \in Elems : on[x] = q => next'[x] = next[x] /\ prev'[x] = prev[x]
      <3> SUFFICES ASSUME NEW x \in Elems, on[x] = q PROVE next'[x] = next[x] /\ prev'[x] = prev[x]
        OBVIOUS
      <3>1. x # last[h] /\ x # g /\ x # next[g]
        BY <2>1, <2>2, <2>3
      <3> QED
        BY <3>1 DEF TypeOK, Places
    <2>6. \A x \in Elems : on'[x] = q <=> on[x] = q
      BY <2>3
    <2> QED
      BY <1>1, <2>4, <2>5, <2>6, FrameChain
  <1>4. PICK M : M = [L EXCEPT ![h] = L[h] \o L[g], ![g] = <<>>]
    OBVIOUS
  <1>5. /\ L \in [Heads -> Orders] /\ L[h] \o L[g] \in Orders /\ <<>> \in Orders
    BY <1>2 DEF Shape, Chain
  <1>6. /\ M \in [Heads -> Orders] /\ M[h] = L[h] \o L[g] /\ M[g] = <<>>
        /\ \A q \in Heads \ {h, g} : M[q] = L[q]
    BY <1>4, <1>5
  <1>7. ASSUME NEW q \in Heads PROVE Chain(q, M[q])'
    <2>1. CASE q \in {h, g}
      BY <1>2, <1>6, <2>1
    <2>2. CASE q \notin {h, g}
      <3>1. M[q] = L[q] /\ q \in Heads \ {h, g}
        BY <1>6, <2>2
      <3> QED
        BY <1>3, <3>1
    <2> QED
      BY <2>1, <2>2
  <1>8. Shape(M)'
    BY <1>6, <1>7 DEF Shape
  <1> QED
    BY <1>4, <1>8

-----------------------------------------------------------------------------
(* The same sequences, as ListSpec writes them *)

LEMMA SegmentFacts ==
    ASSUME NEW s \in Seq(Elems), NEW a \in Int, NEW b \in Int, a >= 1, a <= b + 1, b <= Len(s)
    PROVE  /\ SubSeq(s, a, b) \in Seq(Elems) /\ Len(SubSeq(s, a, b)) = b - a + 1
           /\ \A k \in 1 .. b - a + 1 : SubSeq(s, a, b)[k] = s[a + k - 1]
  <1>1. \A k \in a .. b : s[k] \in Elems
    OBVIOUS
  <1>2. /\ SubSeq(s, a, b) \in Seq(Elems)
        /\ Len(SubSeq(s, a, b)) = IF a <= b THEN b - a + 1 ELSE 0
        /\ \A k \in 1 .. b - a + 1 : SubSeq(s, a, b)[k] = s[a + k - 1]
    BY <1>1, SubSeqProperties
  <1>3. (IF a <= b THEN b - a + 1 ELSE 0) = b - a + 1
    OBVIOUS
  <1> QED
    BY <1>2, <1>3

LEMMA JoinFacts ==
    ASSUME NEW s \in Seq(Elems), NEW t \in Seq(Elems)
    PROVE  /\ s \o t \in Seq(Elems) /\ Len(s \o t) = Len(s) + Len(t)
           /\ \A k \in 1 .. Len(s) + Len(t) :
                 (s \o t)[k] = IF k <= Len(s) THEN s[k] ELSE t[k - Len(s)]
  BY ConcatProperties

LEMMA InsertedFacts ==
    ASSUME NEW s \in Seq(Elems), NEW e \in Elems, NEW i \in 0 .. Len(s)
    PROVE  /\ Inserted(s, i, e) \in Seq(Elems) /\ Len(Inserted(s, i, e)) = Len(s) + 1
           /\ \A k \in 1 .. Len(s) + 1 :
                 Inserted(s, i, e)[k] = IF k <= i THEN s[k] ELSE IF k = i + 1 THEN e ELSE s[k - 1]
  <1>1. PICK m \in Nat : m = Len(s)
    OBVIOUS
  <1>2. PICK t : t = Inserted(s, i, e)
    OBVIOUS
  <1>3. /\ t \in [1 .. m + 1 -> Elems]
        /\ \A k \in 1 .. m + 1 : t[k] = IF k <= i THEN s[k] ELSE IF k = i + 1 THEN e ELSE s[k - 1]
    BY <1>1, <1>2 DEF Inserted
  <1>4. m + 1 \in Nat /\ t \in Seq(Elems) /\ Len(t) = m + 1
    BY <1>1, <1>3
  <1> QED
    BY <1>1, <1>2, <1>3, <1>4

LEMMA InsertAtIs ==
    ASSUME NEW s \in Seq(Elems), NEW e \in Elems, NEW i \in 0 .. Len(s)
    PROVE  /\ Inserted(s, i, e) = Lists!InsertAt(s, i + 1, e)
           /\ i = 0 => Inserted(s, i, e) = <<e>> \o s
           /\ i = Len(s) => Inserted(s, i, e) = Append(s, e)
  <1>1. PICK m \in Nat : m = Len(s)
    OBVIOUS
  <1>2. /\ Inserted(s, i, e) \in Seq(Elems) /\ Len(Inserted(s, i, e)) = m + 1
        /\ \A k \in 1 .. m + 1 :
              Inserted(s, i, e)[k] = IF k <= i THEN s[k] ELSE IF k = i + 1 THEN e ELSE s[k - 1]
    BY <1>1, InsertedFacts
  <1>3. <<e>> \in Seq(Elems) /\ Len(<<e>>) = 1 /\ <<e>>[1] = e
    OBVIOUS
  <1>4. Lists!InsertAt(s, i + 1, e) = Inserted(s, i, e)
    <2>1. PICK a, b \in Seq(Elems) : a = SubSeq(s, 1, i) /\ b = SubSeq(s, i + 1, m)
      <3>1. SubSeq(s, 1, i) \in Seq(Elems)
        BY <1>1, SegmentFacts, 1 \in Int, i \in Int
      <3>2. SubSeq(s, i + 1, m) \in Seq(Elems)
        BY <1>1, SegmentFacts, i + 1 \in Int, m \in Int
      <3> QED
        BY <3>1, <3>2
    <2>2. /\ Len(a) = i /\ \A k \in 1 .. i : a[k] = s[k]
      <3>1. Len(a) = i - 1 + 1 /\ \A k \in 1 .. i - 1 + 1 : a[k] = s[1 + k - 1]
        BY <1>1, <2>1, SegmentFacts, 1 \in Int, i \in Int
      <3>2. i - 1 + 1 = i /\ \A k \in 1 .. i : 1 + k - 1 = k
        BY <1>1
      <3> QED
        BY <3>1, <3>2
    <2>3. /\ Len(b) = m - i /\ \A k \in 1 .. m - i : b[k] = s[i + k]
      <3>1. Len(b) = m - (i + 1) + 1 /\ \A k \in 1 .. m - (i + 1) + 1 : b[k] = s[i + 1 + k - 1]
        BY <1>1, <2>1, SegmentFacts, i + 1 \in Int, m \in Int
      <3>2. m - (i + 1) + 1 = m - i /\ \A k \in 1 .. m - i : i + 1 + k - 1 = i + k
        BY <1>1
      <3> QED
        BY <3>1, <3>2
    <2>4. PICK c \in Seq(Elems) :
             /\ c = a \o <<e>> /\ Len(c) = i + 1
             /\ \A k \in 1 .. i + 1 : c[k] = IF k <= i THEN s[k] ELSE e
      <3>1. /\ a \o <<e>> \in Seq(Elems) /\ Len(a \o <<e>>) = i + 1
            /\ \A k \in 1 .. i + 1 : (a \o <<e>>)[k] = IF k <= i THEN a[k] ELSE <<e>>[k - i]
        BY <1>3, <2>2, JoinFacts
      <3>2. \A k \in 1 .. i + 1 : (a \o <<e>>)[k] = IF k <= i THEN s[k] ELSE e
        <4> TAKE k \in 1 .. i + 1
        <4>1. k <= i => k \in 1 .. i
          OBVIOUS
        <4>2. ~(k <= i) => k - i = 1
          OBVIOUS
        <4> QED
          BY <1>3, <2>2, <3>1, <4>1, <4>2
      <3> QED
        BY <3>1, <3>2
    <2>5. PICK d \in Seq(Elems) :
             /\ d = c \o b /\ Len(d) = m + 1
             /\ \A k \in 1 .. m + 1 : d[k] = IF k <= i + 1 THEN c[k] ELSE b[k - (i + 1)]
      <3>1. /\ c \o b \in Seq(Elems) /\ Len(c \o b) = (i + 1) + (m - i)
            /\ \A k \in 1 .. (i + 1) + (m - i) : (c \o b)[k] = IF k <= i + 1 THEN c[k] ELSE b[k - (i + 1)]
        BY <2>1, <2>3, <2>4, JoinFacts
      <3>2. (i + 1) + (m - i) = m + 1
        BY <1>1
      <3> QED
        BY <3>1, <3>2
    <2>6. ASSUME NEW k \in 1 .. m + 1 PROVE d[k] = Inserted(s, i, e)[k]
      <3>1. CASE k <= i
        <4>1. k \in 1 .. i + 1 /\ k <= i + 1
          BY <3>1
        <4> QED
          BY <1>2, <2>4, <2>5, <3>1, <4>1
      <3>2. CASE k = i + 1
        <4>1. k \in 1 .. i + 1 /\ k <= i + 1 /\ ~(k <= i)
          BY <3>2
        <4> QED
          BY <1>2, <2>4, <2>5, <3>2, <4>1
      <3>3. CASE k > i + 1
        <4>1. k - (i + 1) \in 1 .. m - i /\ i + (k - (i + 1)) = k - 1 /\ ~(k <= i + 1) /\ ~(k <= i) /\ k # i + 1
          BY <1>1, <3>3
        <4> QED
          BY <1>2, <2>3, <2>5, <4>1
      <3> QED
        BY <1>1, <3>1, <3>2, <3>3
    <2>7. d = Inserted(s, i, e)
      BY <1>2, <2>5, <2>6, SeqEqual
    <2>8. Lists!InsertAt(s, i + 1, e) = (SubSeq(s, 1, i) \o <<e>>) \o SubSeq(s, i + 1, m)
      <3>1. (i + 1) - 1 = i
        OBVIOUS
      <3> QED
        BY <1>1, <3>1 DEF Lists!InsertAt
    <2> QED
      BY <2>1, <2>4, <2>5, <2>7, <2>8
  <1>5. ASSUME i = 0 PROVE Inserted(s, i, e) = <<e>> \o s
    <2>1. PICK d \in Seq(Elems) :
             /\ d = <<e>> \o s /\ Len(d) = 1 + m
             /\ \A k \in 1 .. 1 + m : d[k] = IF k <= 1 THEN <<e>>[k] ELSE s[k - 1]
      BY <1>1, <1>3, JoinFacts
    <2>2. ASSUME NEW k \in 1 .. m + 1 PROVE d[k] = Inserted(s, i, e)[k]
      <3>1. k \in 1 .. 1 + m /\ ~(k <= i) /\ (k <= 1 => k = 1) /\ (k = i + 1 <=> k = 1)
        BY <1>1, <1>5
      <3> QED
        BY <1>2, <1>3, <2>1, <3>1
    <2>3. Len(d) = Len(Inserted(s, i, e))
      BY <1>2, <2>1
    <2> QED
      BY <1>2, <2>1, <2>2, <2>3, SeqEqual
  <1>6. ASSUME i = m PROVE Inserted(s, i, e) = Append(s, e)
    <2>1. PICK d \in Seq(Elems) :
             /\ d = Append(s, e) /\ Len(d) = m + 1
             /\ \A k \in 1 .. m : d[k] = s[k]
             /\ d[m + 1] = e
      BY <1>1, AppendProperties
    <2>2. ASSUME NEW k \in 1 .. m + 1 PROVE d[k] = Inserted(s, i, e)[k]
      <3>1. (k <= i => k \in 1 .. m) /\ (~(k <= i) => k = m + 1)
        BY <1>1, <1>6
      <3> QED
        BY <1>2, <1>6, <2>1, <3>1
    <2>3. Len(d) = Len(Inserted(s, i, e))
      BY <1>2, <2>1
    <2> QED
      BY <1>2, <2>1, <2>2, <2>3, SeqEqual
  <1> QED
    BY <1>1, <1>4, <1>5, <1>6

LEMMA RemoveAtIs ==
    ASSUME NEW s \in Seq(Elems), NEW i \in 1 .. Len(s)
    PROVE  Removed(s, i) = Lists!RemoveAt(s, i)
  <1>1. PICK m \in Nat : m = Len(s)
    OBVIOUS
  <1>2. PICK t : t = Removed(s, i)
    OBVIOUS
  <1>3. m - 1 \in Nat /\ i - 1 \in Nat /\ i - 1 \in Int /\ i + 1 \in Int /\ i \in Int
    BY <1>1
  <1>4. /\ t \in Seq(Elems) /\ Len(t) = m - 1
        /\ \A k \in 1 .. m - 1 : t[k] = IF k < i THEN s[k] ELSE s[k + 1]
    <2>1. /\ t \in [1 .. m - 1 -> Elems]
          /\ \A k \in 1 .. m - 1 : t[k] = IF k < i THEN s[k] ELSE s[k + 1]
      BY <1>1, <1>2 DEF Removed
    <2> QED
      BY <1>3, <2>1
  <1>5. PICK a \in Seq(Elems) :
           a = SubSeq(s, 1, i - 1) /\ Len(a) = i - 1 /\ \A k \in 1 .. i - 1 : a[k] = s[k]
    <2>1. /\ SubSeq(s, 1, i - 1) \in Seq(Elems) /\ Len(SubSeq(s, 1, i - 1)) = (i - 1) - 1 + 1
          /\ \A k \in 1 .. (i - 1) - 1 + 1 : SubSeq(s, 1, i - 1)[k] = s[1 + k - 1]
      BY <1>1, <1>3, SegmentFacts, 1 \in Int
    <2>2. (i - 1) - 1 + 1 = i - 1 /\ \A k \in 1 .. i - 1 : 1 + k - 1 = k
      BY <1>3
    <2> QED
      BY <2>1, <2>2
  <1>6. PICK b \in Seq(Elems) :
           b = SubSeq(s, i + 1, m) /\ Len(b) = m - i /\ \A k \in 1 .. m - i : b[k] = s[i + k]
    <2>1. /\ SubSeq(s, i + 1, m) \in Seq(Elems) /\ Len(SubSeq(s, i + 1, m)) = m - (i + 1) + 1
          /\ \A k \in 1 .. m - (i + 1) + 1 : SubSeq(s, i + 1, m)[k] = s[i + 1 + k - 1]
      BY <1>1, <1>3, SegmentFacts, m \in Int
    <2>2. m - (i + 1) + 1 = m - i /\ \A k \in 1 .. m - i : i + 1 + k - 1 = i + k
      BY <1>1, <1>3
    <2>3. Len(SubSeq(s, i + 1, m)) = m - i
      BY <2>1, <2>2
    <2>4. \A k \in 1 .. m - i : SubSeq(s, i + 1, m)[k] = s[i + k]
      BY <2>1, <2>2
    <2> QED
      BY <2>1, <2>3, <2>4
  <1>7. PICK d \in Seq(Elems) :
           /\ d = a \o b /\ Len(d) = m - 1
           /\ \A k \in 1 .. m - 1 : d[k] = IF k <= i - 1 THEN a[k] ELSE b[k - (i - 1)]
    <2>1. /\ a \o b \in Seq(Elems) /\ Len(a \o b) = (i - 1) + (m - i)
          /\ \A k \in 1 .. (i - 1) + (m - i) : (a \o b)[k] = IF k <= i - 1 THEN a[k] ELSE b[k - (i - 1)]
      BY <1>5, <1>6, JoinFacts
    <2>2. (i - 1) + (m - i) = m - 1
      BY <1>1, <1>3
    <2> QED
      BY <2>1, <2>2
  <1>8. ASSUME NEW k \in 1 .. m - 1 PROVE d[k] = t[k]
    <2>1. CASE k < i
      <3>1. k <= i - 1 /\ k \in 1 .. i - 1
        BY <1>3, <2>1
      <3> QED
        BY <1>4, <1>5, <1>7, <2>1, <3>1
    <2>2. CASE ~(k < i)
      <3>1. ~(k <= i - 1) /\ k - (i - 1) \in 1 .. m - i /\ i + (k - (i - 1)) = k + 1
        BY <1>1, <1>3, <2>2
      <3> QED
        BY <1>4, <1>6, <1>7, <2>2, <3>1
    <2> QED
      BY <2>1, <2>2
  <1>9. d = t
    BY <1>4, <1>7, <1>8, SeqEqual
  <1>10. Lists!RemoveAt(s, i) = SubSeq(s, 1, i - 1) \o SubSeq(s, i + 1, m)
    BY <1>1 DEF Lists!RemoveAt
  <1> QED
    BY <1>2, <1>5, <1>6, <1>7, <1>9, <1>10

-----------------------------------------------------------------------------
(* The macros keep the invariant, and do what ListSpec says *)

\* Where an element is in its queue.
LEMMA Found ==
    ASSUME NEW L, Sound(L), NEW h \in Heads
    PROVE  /\ Chain(h, L[h]) /\ L[h] \in Orders /\ L[h] \in Seq(Elems)
           /\ Len(L[h]) \in Nat /\ DOMAIN L[h] = 1 .. Len(L[h])
           /\ \A e \in Elems : on[e] = h => \E i \in 1 .. Len(L[h]) : L[h][i] = e
           /\ \A i \in 1 .. Len(L[h]) : L[h][i] \in Elems /\ on[L[h][i]] = h
           /\ \A i \in 1 .. Len(L[h]) : /\ prev[L[h][i]] = Place(h, L[h], i - 1)
                                        /\ next[Place(h, L[h], i - 1)] = L[h][i]
           /\ next[Place(h, L[h], Len(L[h]))] = NULL
           /\ last[h] = Place(h, L[h], Len(L[h]))
  <1>1. Chain(h, L[h]) /\ L[h] \in Orders /\ Represents(h, L[h]) /\ Holds(h, L[h])
    BY DEF Sound, Shape, Chain
  <1>2. /\ L[h] \in Seq(Elems) /\ Len(L[h]) \in Nat /\ DOMAIN L[h] = 1 .. Len(L[h])
        /\ \A i \in 1 .. Len(L[h]) : L[h][i] \in Elems
    BY <1>1, OrderFacts
  <1>3. \A i \in 1 .. Len(L[h]) : i - 1 \in 0 .. Len(L[h]) /\ i - 1 # Len(L[h]) /\ (i - 1) + 1 = i
    BY <1>2
  <1>4. \A i \in 0 .. Len(L[h]) :
           next[Place(h, L[h], i)] = IF i = Len(L[h]) THEN NULL ELSE L[h][i + 1]
    BY <1>1 DEF Represents
  <1>5. \A i \in 1 .. Len(L[h]) : next[Place(h, L[h], i - 1)] = L[h][i]
    BY <1>3, <1>4
  <1>6. next[Place(h, L[h], Len(L[h]))] = NULL
    BY <1>2, <1>4
  <1> QED
    BY <1>1, <1>2, <1>5, <1>6 DEF Represents, Holds

\* An element in no queue is in no sequence.
LEMMA Outside ==
    ASSUME NEW L, Sound(L), NEW e \in Elems, on[e] = NULL
    PROVE  [h \in Heads |-> Content(h)] = L /\ ~Lists!OnList(e)
  <1>1. [h \in Heads |-> Content(h)] = L
    BY ShapeIs DEF Sound
  <1>2. ASSUME NEW h \in Heads, NEW i \in DOMAIN L[h] PROVE L[h][i] # e
    BY <1>2, Found, DisjointAssumption
  <1> QED
    BY <1>1, <1>2 DEF Lists!OnList

\* L with another sequence for h.
With(L, h, s) == [L EXCEPT ![h] = s]

\* A step from the sequences L to the sequences M.
Becomes(L, M) ==
    /\ IInv'
    /\ [x \in Heads |-> Content(x)] = L
    /\ [x \in Heads |-> Content(x)]' = M

\* What the four ways to insert do: e goes into h between p and n.
Splice(h, e, p, n) ==
    /\ Mine(h) /\ on[e] = NULL /\ loop' = loop
    /\ next' = [next EXCEPT ![e] = n, ![p] = e]
    /\ BackAnd(h, n, e, e, p)
    /\ on' = [on EXCEPT ![e] = h]

LEMMA InsertStep ==
    ASSUME IInv, NEW L, Sound(L), NEW h \in Heads, NEW i \in 0 .. Len(L[h]),
           NEW e \in Elems, NEW p \in Places, NEW n \in Elems \cup {NULL},
           p = Place(h, L[h], i), n = next[p], Splice(h, e, p, n)
    PROVE  Becomes(L, With(L, h, Inserted(L[h], i, e))) /\ ~Lists!OnList(e)
  <1>1. TypeOK
    BY DEF IInv, WellLinked
  <1>0. /\ Mine(h) /\ on[e] = NULL /\ loop' = loop
        /\ next' = [next EXCEPT ![e] = n, ![p] = e]
        /\ BackAnd(h, n, e, e, p)
        /\ on' = [on EXCEPT ![e] = h]
    BY DEF Splice
  <1>2. Chain(h, L[h])
    BY Found
  <1>3. e # NULL /\ e \in Places /\ p # e /\ n # e
    <2>1. p # e
      BY <1>0, <1>2, Found, DisjointAssumption DEF Place
    <2>2. n # e
      <3>1. i # Len(L[h]) => i + 1 \in 1 .. Len(L[h])
        BY Found
      <3>2. n = IF i = Len(L[h]) THEN NULL ELSE L[h][i + 1]
        BY <1>2 DEF Chain, Represents
      <3> QED
        BY <1>0, <3>1, <3>2, Found, DisjointAssumption
    <2> QED
      BY <2>1, <2>2, DisjointAssumption DEF Places
  <1>4. /\ prev' \in [Elems -> Places] /\ last' \in [Heads -> Places]
        /\ prev'[e] = p
        /\ \A x \in Elems \ {e} : prev'[x] = IF x = n THEN e ELSE prev[x]
        /\ last'[h] = IF n = NULL THEN e ELSE last[h]
        /\ \A g \in Heads \ {h} : last'[g] = last[g]
    <2>1. BackAnd(h, n, e, e, p) /\ n # e /\ e \in Places
      BY <1>0, <1>3
    <2>2. prev \in [Elems -> Places] /\ last \in [Heads -> Places] /\ NULL \notin Elems
      BY <1>1, DisjointAssumption DEF TypeOK
    <2>3. CASE n # NULL
      BY <2>1, <2>2, <2>3 DEF BackAnd
    <2>4. CASE n = NULL
      BY <2>1, <2>2, <2>4 DEF BackAnd
    <2> QED
      BY <2>3, <2>4
  <1>5. /\ next'[e] = n /\ next'[p] = e /\ \A x \in Places \ {e, p} : next'[x] = next[x]
        /\ on'[e] = h /\ \A x \in Elems \ {e} : on'[x] = on[x]
        /\ next' \in [Places -> Elems \cup {NULL}] /\ on' \in [Elems -> Heads \cup {NULL}]
    BY <1>0, <1>1, <1>3 DEF TypeOK
  <1>6. PICK M : M = [L EXCEPT ![h] = Inserted(L[h], i, e)]
    OBVIOUS
  <1>7. Shape(M)'
    <2>1. Shape(L) /\ Between(h, e, p, n) /\ on[e] = NULL
      BY <1>0, <1>4, <1>5 DEF Sound, Between
    <2>2. Shape([L EXCEPT ![h] = Inserted(L[h], i, e)])'
      BY <1>1, <2>1, InsertShape
    <2> QED
      BY <1>6, <2>2
  <1>8. TypeOK'
    BY <1>0, <1>1, <1>4, <1>5 DEF TypeOK
  <1>9. \A g \in Heads : ~Mine(g) => M[g] = L[g]
    BY <1>0, <1>6 DEF Sound, Shape
  <1>10. IInv'
    BY <1>0, <1>7, <1>8, <1>9, Arrive
  <1>11. [x \in Heads |-> Content(x)]' = M
    BY <1>7, ShapeIsNext
  <1> QED
    BY <1>0, <1>6, <1>10, <1>11, Outside DEF Becomes, With

LEMMA InsertHeadStep ==
    ASSUME IInv, NEW h \in Heads, NEW e \in Elems, TAILQ_INSERT_HEAD(h, e)
    PROVE  IInv' /\ Lists!InsertHead(h, e)
  <1>1. TypeOK /\ \E L : Sound(L)
    BY IInvIs
  <1>2. PICK L : Sound(L)
    BY <1>1
  <1>3. /\ Mine(h) /\ on[e] = NULL /\ loop' = loop
        /\ next' = [next EXCEPT ![e] = next[h], ![h] = e]
        /\ BackAnd(h, next[h], e, e, h)
        /\ on' = [on EXCEPT ![e] = h]
        /\ call' = <<"INSERT_HEAD", h, e>>
    BY DEF TAILQ_INSERT_HEAD
  <1>4. /\ 0 \in 0 .. Len(L[h]) /\ h = Place(h, L[h], 0)
        /\ h \in Places /\ next[h] \in Elems \cup {NULL}
    BY <1>1, <1>2, Found DEF Place, Places, TypeOK
  <1>5. Becomes(L, With(L, h, Inserted(L[h], 0, e))) /\ ~Lists!OnList(e)
    <2>1. PICK n \in Elems \cup {NULL} : n = next[h]
      BY <1>4
    <2>2. Splice(h, e, h, n)
      BY <1>3, <2>1 DEF Splice
    <2> QED
      BY <1>2, <1>3, <1>4, <2>1, <2>2, InsertStep
  <1>6. Inserted(L[h], 0, e) = <<e>> \o L[h]
    BY <1>2, <1>4, Found, InsertAtIs
  <1>7. Lists!InsertHead(h, e)
    BY <1>3, <1>5, <1>6 DEF Lists!InsertHead, Becomes, With
  <1> QED
    BY <1>5, <1>7 DEF Becomes

LEMMA InsertTailStep ==
    ASSUME IInv, NEW h \in Heads, NEW e \in Elems, TAILQ_INSERT_TAIL(h, e)
    PROVE  IInv' /\ Lists!InsertTail(h, e)
  <1>1. TypeOK /\ \E L : Sound(L)
    BY IInvIs
  <1>2. PICK L : Sound(L)
    BY <1>1
  <1>3. PICK p \in Places : p = last[h]
    BY <1>1 DEF TypeOK
  <1>4. /\ Mine(h) /\ on[e] = NULL /\ loop' = loop
        /\ next' = [next EXCEPT ![e] = NULL, ![p] = e]
        /\ prev' = [prev EXCEPT ![e] = p]
        /\ last' = [last EXCEPT ![h] = e]
        /\ on' = [on EXCEPT ![e] = h]
        /\ call' = <<"INSERT_TAIL", h, e>>
    BY <1>3 DEF TAILQ_INSERT_TAIL
  <1>5. BackAnd(h, NULL, e, e, p)
    BY <1>4 DEF BackAnd
  <1>6. PICK i \in 0 .. Len(L[h]) : i = Len(L[h]) /\ p = Place(h, L[h], i) /\ next[p] = NULL
    BY <1>2, <1>3, Found
  <1>7. Becomes(L, With(L, h, Inserted(L[h], i, e))) /\ ~Lists!OnList(e)
    <2>1. PICK n \in Elems \cup {NULL} : n = NULL
      OBVIOUS
    <2>2. Splice(h, e, p, n) /\ p = Place(h, L[h], i) /\ n = next[p]
      BY <1>4, <1>5, <1>6, <2>1 DEF Splice
    <2> QED
      BY <1>2, <2>1, <2>2, InsertStep
  <1>8. Inserted(L[h], i, e) = Append(L[h], e)
    BY <1>2, <1>6, Found, InsertAtIs
  <1>9. Lists!InsertTail(h, e)
    BY <1>4, <1>7, <1>8 DEF Lists!InsertTail, Becomes, With
  <1> QED
    BY <1>7, <1>9 DEF Becomes

LEMMA InsertAfterStep ==
    ASSUME IInv, NEW h \in Heads, NEW d \in Elems, NEW e \in Elems, TAILQ_INSERT_AFTER(h, d, e)
    PROVE  IInv' /\ Lists!InsertAfter(h, d, e)
  <1>1. TypeOK /\ \E L : Sound(L)
    BY IInvIs
  <1>2. PICK L : Sound(L)
    BY <1>1
  <1>3. PICK n \in Elems \cup {NULL} : n = next[d]
    BY <1>1 DEF TypeOK, Places
  <1>4. /\ Mine(h) /\ on[d] = h /\ on[e] = NULL /\ loop' = loop
        /\ next' = [next EXCEPT ![e] = n, ![d] = e]
        /\ BackAnd(h, n, e, e, d)
        /\ on' = [on EXCEPT ![e] = h]
        /\ call' = <<"INSERT_AFTER", h, d, e>>
    BY <1>3 DEF TAILQ_INSERT_AFTER
  <1>5. PICK i \in 1 .. Len(L[h]) : L[h][i] = d
    BY <1>2, <1>4, Found
  <1>6. i \in 0 .. Len(L[h]) /\ d = Place(h, L[h], i) /\ d \in Places /\ i \in DOMAIN L[h]
    BY <1>2, <1>5, Found DEF Place, Places
  <1>7. Becomes(L, With(L, h, Inserted(L[h], i, e))) /\ ~Lists!OnList(e)
    <2>1. Splice(h, e, d, n)
      BY <1>4 DEF Splice
    <2> QED
      BY <1>2, <1>3, <1>4, <1>6, <2>1, InsertStep
  <1>8. Inserted(L[h], i, e) = Lists!InsertAt(L[h], i + 1, e)
    BY <1>2, <1>6, Found, InsertAtIs
  <1>9. Lists!InsertAfter(h, d, e)
    BY <1>4, <1>5, <1>6, <1>7, <1>8 DEF Lists!InsertAfter, Becomes, With
  <1> QED
    BY <1>7, <1>9 DEF Becomes

LEMMA InsertBeforeStep ==
    ASSUME IInv, NEW d \in Elems, NEW e \in Elems, TAILQ_INSERT_BEFORE(d, e)
    PROVE  IInv' /\ \E h \in Heads : Lists!InsertBefore(h, d, e)
  <1>1. TypeOK /\ \E L : Sound(L)
    BY IInvIs
  <1>2. PICK L : Sound(L)
    BY <1>1
  <1>3. PICK h \in Heads, p \in Places : h = on[d] /\ p = prev[d]
    BY <1>1 DEF TypeOK, TAILQ_INSERT_BEFORE
  <1>4. /\ Mine(h) /\ on[e] = NULL /\ loop' = loop
        /\ prev' = [prev EXCEPT ![e] = p, ![d] = e] /\ last' = last
        /\ next' = [next EXCEPT ![e] = d, ![p] = e]
        /\ on' = [on EXCEPT ![e] = h]
        /\ call' = <<"INSERT_BEFORE", d, e>>
    BY <1>3 DEF TAILQ_INSERT_BEFORE
  <1>5. BackAnd(h, d, e, e, p)
    <2>1. d # e /\ d # NULL
      BY <1>3, <1>4, DisjointAssumption
    <2>2. prev' = [prev EXCEPT ![d] = e, ![e] = p]
      BY <1>4, <2>1
    <2> QED
      BY <1>4, <2>1, <2>2 DEF BackAnd
  <1>6. PICK j \in 1 .. Len(L[h]) : L[h][j] = d
    BY <1>2, <1>3, Found
  <1>7. PICK i \in 0 .. Len(L[h]) : i = j - 1 /\ i + 1 = j
    BY <1>2, Found
  <1>8. p = Place(h, L[h], i) /\ d = next[p] /\ j \in DOMAIN L[h]
    BY <1>2, <1>3, <1>6, <1>7, Found
  <1>9. Becomes(L, With(L, h, Inserted(L[h], i, e))) /\ ~Lists!OnList(e)
    <2>1. PICK n \in Elems \cup {NULL} : n = d
      OBVIOUS
    <2>2. Splice(h, e, p, n) /\ p = Place(h, L[h], i) /\ n = next[p]
      BY <1>4, <1>5, <1>8, <2>1 DEF Splice
    <2> QED
      BY <1>2, <2>1, <2>2, InsertStep
  <1>10. Inserted(L[h], i, e) = Lists!InsertAt(L[h], j, e)
    BY <1>2, <1>7, Found, InsertAtIs
  <1>11. Lists!InsertBefore(h, d, e)
    BY <1>4, <1>6, <1>8, <1>9, <1>10 DEF Lists!InsertBefore, Becomes, With
  <1> QED
    BY <1>9, <1>11 DEF Becomes

\* TAILQ_REMOVE, and the body of a destructor's loop.
LEMMA RemoveStep ==
    ASSUME IInv, NEW h \in Heads, NEW e \in Elems, TAILQ_REMOVE(h, e)
    PROVE  IInv' /\ Lists!Delete(h, e)
  <1>1. TypeOK /\ \E L : Sound(L)
    BY IInvIs
  <1>2. PICK L : Sound(L)
    BY <1>1
  <1>3. Mine(h) /\ on[e] = h /\ Unlink(h, e) /\ loop' = loop /\ call' = <<"REMOVE", h, e>>
    BY DEF TAILQ_REMOVE, Unlink
  <1>4. /\ next' \in [Places -> Elems \cup {NULL}]
        /\ prev' \in [Elems -> Places] /\ last' \in [Heads -> Places]
        /\ on' \in [Elems -> Heads \cup {NULL}]
        /\ \E i \in 1 .. Len(L[h]) :
              L[h][i] = e /\ Shape([L EXCEPT ![h] = Removed(L[h], i)])'
    <2>1. Shape(L)
      BY <1>2 DEF Sound
    <2> QED
      BY <1>1, <1>3, <2>1, RemoveShape
  <1>5. PICK i \in 1 .. Len(L[h]) :
           L[h][i] = e /\ Shape([L EXCEPT ![h] = Removed(L[h], i)])'
    BY <1>4
  <1>6. PICK M : M = [L EXCEPT ![h] = Removed(L[h], i)]
    OBVIOUS
  <1>7. Shape(M)'
    BY <1>5, <1>6
  <1>8. IInv'
    <2>1. TypeOK'
      BY <1>1, <1>3, <1>4 DEF TypeOK
    <2>2. \A g \in Heads : ~Mine(g) => M[g] = L[g]
      BY <1>2, <1>3, <1>6 DEF Sound, Shape
    <2> QED
      BY <1>2, <1>3, <1>7, <2>1, <2>2, Arrive
  <1>9. [x \in Heads |-> Content(x)]' = M /\ [x \in Heads |-> Content(x)] = L
    BY <1>2, <1>7, ShapeIsNext, ShapeIs DEF Sound
  <1>10. Removed(L[h], i) = Lists!RemoveAt(L[h], i) /\ i \in DOMAIN L[h]
    BY <1>2, <1>5, Found, RemoveAtIs
  <1>11. Lists!Delete(h, e)
    BY <1>3, <1>5, <1>6, <1>9, <1>10 DEF Lists!Delete
  <1> QED
    BY <1>8, <1>11

LEMMA ReplaceStep ==
    ASSUME IInv, NEW h \in Heads, NEW e \in Elems, NEW f \in Elems, TAILQ_REPLACE(h, e, f)
    PROVE  IInv' /\ Lists!Replace(h, e, f)
  <1>1. TypeOK /\ \E L : Sound(L)
    BY IInvIs
  <1>2. PICK L : Sound(L)
    BY <1>1
  <1>3. PICK p \in Places, n \in Elems \cup {NULL} : p = prev[e] /\ n = next[e]
    BY <1>1 DEF TypeOK, Places
  <1>4. /\ Mine(h) /\ on[e] = h /\ on[f] = NULL /\ loop' = loop
        /\ BackAnd(h, n, f, f, p)
        /\ next' = [next EXCEPT ![f] = n, ![p] = f]
        /\ on' = [on EXCEPT ![e] = NULL, ![f] = h]
        /\ call' = <<"REPLACE", h, e, f>>
    BY <1>3 DEF TAILQ_REPLACE
  <1>5. PICK i \in 1 .. Len(L[h]) : L[h][i] = e
    BY <1>2, <1>4, Found
  <1>6. e # f /\ p # f /\ n # f
    <2>1. e # f
      BY <1>4, DisjointAssumption
    <2>2. p # f
      <3>1. i - 1 = 0 \/ i - 1 \in 1 .. Len(L[h])
        BY <1>2, Found
      <3>2. p = Place(h, L[h], i - 1)
        BY <1>2, <1>3, <1>5, Found
      <3> QED
        BY <1>2, <1>4, <3>1, <3>2, Found, DisjointAssumption DEF Place
    <2>3. n # f
      <3>1. i = Len(L[h]) \/ (i + 1 \in 1 .. Len(L[h]) /\ (i + 1) - 1 = i)
        BY <1>2, Found
      <3>2. Place(h, L[h], i) = e
        BY <1>5 DEF Place
      <3>3. n = NULL \/ (i + 1 \in 1 .. Len(L[h]) /\ n = L[h][i + 1])
        BY <1>2, <1>3, <3>1, <3>2, Found
      <3> QED
        BY <1>2, <1>4, <3>3, Found, DisjointAssumption
    <2> QED
      BY <2>1, <2>2, <2>3
  <1>7. /\ prev' \in [Elems -> Places] /\ last' \in [Heads -> Places]
        /\ prev'[f] = p
        /\ \A x \in Elems \ {f} : prev'[x] = IF x = n THEN f ELSE prev[x]
        /\ last'[h] = IF n = NULL THEN f ELSE last[h]
        /\ \A g \in Heads \ {h} : last'[g] = last[g]
    <2>1. /\ prev \in [Elems -> Places] /\ last \in [Heads -> Places] /\ NULL \notin Elems
          /\ f \in Places
      BY <1>1, DisjointAssumption DEF TypeOK, Places
    <2>2. CASE n # NULL
      BY <1>3, <1>4, <1>6, <2>1, <2>2 DEF BackAnd
    <2>3. CASE n = NULL
      BY <1>3, <1>4, <1>6, <2>1, <2>3 DEF BackAnd
    <2> QED
      BY <2>2, <2>3
  <1>8. /\ next'[f] = n /\ next'[p] = f /\ \A x \in Places \ {f, p} : next'[x] = next[x]
        /\ on'[e] = NULL /\ on'[f] = h /\ \A x \in Elems \ {e, f} : on'[x] = on[x]
        /\ next' \in [Places -> Elems \cup {NULL}] /\ on' \in [Elems -> Heads \cup {NULL}]
    BY <1>1, <1>3, <1>4, <1>6 DEF TypeOK, Places
  <1>9. PICK M : M = [L EXCEPT ![h] = [L[h] EXCEPT ![i] = f]]
    OBVIOUS
  <1>10. Shape(M)'
    <2>1. Shape(L) /\ on[f] = NULL /\ e = L[h][i] /\ Instead(h, e, f, p, n)
      BY <1>2, <1>4, <1>5, <1>7, <1>8 DEF Sound, Instead
    <2>2. Shape([L EXCEPT ![h] = [L[h] EXCEPT ![i] = f]])'
      BY <1>1, <1>3, <2>1, ReplaceShape
    <2> QED
      BY <1>9, <2>2
  <1>11. IInv'
    <2>1. TypeOK'
      BY <1>1, <1>4, <1>7, <1>8 DEF TypeOK
    <2>2. \A g \in Heads : ~Mine(g) => M[g] = L[g]
      BY <1>2, <1>4, <1>9 DEF Sound, Shape
    <2> QED
      BY <1>2, <1>4, <1>10, <2>1, <2>2, Arrive
  <1>12. [x \in Heads |-> Content(x)]' = M /\ [x \in Heads |-> Content(x)] = L
    BY <1>2, <1>10, ShapeIsNext, ShapeIs DEF Sound
  <1>13. i \in DOMAIN L[h] /\ ~Lists!OnList(f)
    BY <1>2, <1>4, Found, Outside
  <1>14. Lists!Replace(h, e, f)
    BY <1>4, <1>5, <1>9, <1>12, <1>13 DEF Lists!Replace
  <1> QED
    BY <1>11, <1>14

\* Sequences stay where no link and no owner changes.
LEMMA SameShape ==
    ASSUME NEW L, Shape(L), next' = next, prev' = prev, last' = last, on' = on
    PROVE  Shape(L)'
  <1>1. ASSUME NEW h \in Heads PROVE Chain(h, L[h])'
    <2>1. Chain(h, L[h])
      BY DEF Shape
    <2> QED
      BY <2>1 DEF Chain, Represents, Holds
  <1> QED
    BY <1>1 DEF Shape

LEMMA ConcatStep ==
    ASSUME IInv, NEW h \in Heads, NEW g \in Heads, TAILQ_CONCAT(h, g)
    PROVE  IInv' /\ Lists!Concat(h, g)
  <1>1. TypeOK /\ \E L : Sound(L)
    BY IInvIs
  <1>2. PICK L : Sound(L)
    BY <1>1
  <1>3. /\ h # g /\ Mine(h) /\ Mine(g) /\ loop' = loop /\ call' = <<"CONCAT", h, g>>
        /\ on' = [x \in Elems |-> IF on[x] = g THEN h ELSE on[x]]
    BY DEF TAILQ_CONCAT
  <1>4. PICK M : M = [L EXCEPT ![h] = L[h] \o L[g], ![g] = <<>>]
    OBVIOUS
  <1>5. Shape(M)' /\ next' \in [Places -> Elems \cup {NULL}] /\ prev' \in [Elems -> Places]
        /\ last' \in [Heads -> Places]
    <2>1. CASE next[g] # NULL
      <3>1. /\ next' = [next EXCEPT ![last[h]] = next[g], ![g] = NULL]
            /\ prev' = [prev EXCEPT ![next[g]] = last[h]]
            /\ last' = [last EXCEPT ![h] = last[g], ![g] = g]
        BY <2>1 DEF TAILQ_CONCAT
      <3>2. Shape(L)
        BY <1>2 DEF Sound
      <3>3. Shape([L EXCEPT ![h] = L[h] \o L[g], ![g] = <<>>])'
        BY <1>1, <1>3, <2>1, <3>1, <3>2, ConcatShape
      <3>4. next' \in [Places -> Elems \cup {NULL}] /\ prev' \in [Elems -> Places]
        BY <1>1, <2>1, <3>1 DEF TypeOK, Places
      <3>5. last' \in [Heads -> Places]
        BY <1>1, <3>1 DEF TypeOK, Places
      <3> QED
        BY <1>4, <3>3, <3>4, <3>5
    <2>2. CASE next[g] = NULL
      <3>1. next' = next /\ prev' = prev /\ last' = last
        BY <2>2 DEF TAILQ_CONCAT
      <3>2. /\ L[g] \in Seq(Elems) /\ L[h] \in Seq(Elems) /\ Len(L[g]) \in Nat
            /\ \A i \in 1 .. Len(L[g]) : next[Place(g, L[g], i - 1)] # NULL
        BY <1>2, Found, DisjointAssumption
      <3>3. Len(L[g]) = 0
        <4>1. 1 \in 1 .. Len(L[g]) => next[Place(g, L[g], 1 - 1)] # NULL
          BY <3>2
        <4>2. Place(g, L[g], 1 - 1) = g
          BY DEF Place
        <4> QED
          BY <2>2, <3>2, <4>1, <4>2
      <3>4. L[g] = <<>>
        BY <3>2, <3>3, EmptySeq
      <3>5. L[h] \o L[g] = L[h]
        BY <3>2, <3>4
      <3>6. M = L
        BY <1>2, <1>4, <3>4, <3>5 DEF Sound, Shape
      <3>7. \A x \in Elems : on[x] # g
        BY <1>2, <3>3, Found
      <3>8. on' = on
        BY <1>1, <1>3, <3>7 DEF TypeOK
      <3>9. Shape(L)'
        BY <1>2, <3>1, <3>8, SameShape DEF Sound
      <3> QED
        BY <1>1, <3>1, <3>6, <3>9 DEF TypeOK
    <2> QED
      BY <2>1, <2>2
  <1>6. IInv'
    <2>1. on' \in [Elems -> Heads \cup {NULL}]
      BY <1>1, <1>3 DEF TypeOK
    <2>2. TypeOK'
      BY <1>1, <1>3, <1>5, <2>1 DEF TypeOK
    <2>3. \A x \in Heads : ~Mine(x) => M[x] = L[x]
      BY <1>2, <1>3, <1>4 DEF Sound, Shape
    <2> QED
      BY <1>2, <1>3, <1>5, <2>2, <2>3, Arrive
  <1>7. [x \in Heads |-> Content(x)]' = M /\ [x \in Heads |-> Content(x)] = L
    BY <1>2, <1>5, ShapeIsNext, ShapeIs DEF Sound
  <1>8. Lists!Concat(h, g)
    BY <1>2, <1>3, <1>4, <1>7 DEF Lists!Concat, Sound, Shape
  <1> QED
    BY <1>6, <1>8

-----------------------------------------------------------------------------
(* The loops keep the invariant *)

\* A step that writes no link and no owner, to a loop that is on course.
LEMMA LoopMoves ==
    ASSUME IInv, NEW L, Sound(L), UNCHANGED <<next, last, prev, on, call>>,
           loop' \in [mode : {"none", "walk", "drain", "freed"},
                      head : Heads \cup {NULL}, var : Elems \cup {NULL},
                      tmp : Elems \cup {NULL}, seen : Seq(Elems)],
           OnCourse(L)'
    PROVE  IInv' /\ UNCHANGED Lists!vars
  <1>1. TypeOK /\ Shape(L)
    BY DEF IInv, WellLinked, Sound
  <1>2. Shape(L)'
    BY <1>1, SameShape
  <1>3. TypeOK'
    BY <1>1 DEF TypeOK
  <1>4. Sound(L)'
    BY <1>2 DEF Sound
  <1>5. IInv'
    BY <1>3, <1>4, IInvIsNext
  <1>6. [h \in Heads |-> Content(h)]' = L /\ [h \in Heads |-> Content(h)] = L
    BY <1>1, <1>2, ShapeIsNext, ShapeIs
  <1> QED
    BY <1>5, <1>6 DEF Lists!vars

\* The first element of a queue, where both loops start.
LEMMA FirstOf ==
    ASSUME IInv, NEW L, Sound(L), NEW h \in Heads
    PROVE  /\ next[h] = IF L[h] = <<>> THEN NULL ELSE L[h][1]
           /\ L[h] = <<>> <=> Len(L[h]) = 0
           /\ next[h] \in Elems \cup {NULL}
  <1>1. L[h] \in Seq(Elems) /\ Len(L[h]) \in Nat
    BY Found
  <1>2. L[h] = <<>> <=> Len(L[h]) = 0
    BY <1>1, EmptySeq
  <1>3. Place(h, L[h], 0) = h /\ 0 \in 0 .. Len(L[h])
    BY <1>1 DEF Place
  <1>4. next[h] = IF 0 = Len(L[h]) THEN NULL ELSE L[h][0 + 1]
    BY <1>3 DEF Sound, Shape, Chain, Represents
  <1>5. next[h] \in Elems \cup {NULL}
    BY DEF IInv, WellLinked, TypeOK, Places
  <1> QED
    BY <1>2, <1>4, <1>5

LEMMA ForeachStep ==
    ASSUME IInv, NEW h \in Heads, TAILQ_FOREACH(h)
    PROVE  IInv' /\ UNCHANGED Lists!vars
  <1>1. PICK L : Sound(L)
    BY IInvIs
  <1>2. PICK n \in Elems \cup {NULL} :
           n = next[h] /\ n = IF L[h] = <<>> THEN NULL ELSE L[h][1]
    BY <1>1, FirstOf
  <1>3. /\ loop' = [mode |-> "walk", head |-> h, var |-> n, tmp |-> NULL, seen |-> <<>>]
        /\ UNCHANGED <<next, last, prev, on, call>>
    BY <1>2 DEF TAILQ_FOREACH
  <1>4. loop' \in [mode : {"none", "walk", "drain", "freed"},
                   head : Heads \cup {NULL}, var : Elems \cup {NULL},
                   tmp : Elems \cup {NULL}, seen : Seq(Elems)]
    BY <1>3
  <1>5. Len(<<>>) = 0 /\ Len(L[h]) \in Nat /\ (L[h] = <<>> <=> Len(L[h]) = 0)
    BY <1>1, Found, FirstOf
  <1>6. OnCourse(L)'
    BY <1>2, <1>3, <1>5 DEF OnCourse
  <1> QED
    BY <1>1, <1>3, <1>4, <1>6, LoopMoves

LEMMA ForeachSafeStep ==
    ASSUME IInv, NEW h \in Heads, TAILQ_FOREACH_SAFE(h)
    PROVE  IInv' /\ UNCHANGED Lists!vars
  <1>1. PICK L : Sound(L)
    BY IInvIs
  <1>2. PICK n \in Elems \cup {NULL} :
           n = next[h] /\ n = IF L[h] = <<>> THEN NULL ELSE L[h][1]
    BY <1>1, FirstOf
  <1>3. /\ loop' = [mode |-> "drain", head |-> h, var |-> n, tmp |-> NULL, seen |-> <<>>]
        /\ UNCHANGED <<next, last, prev, on, call>>
    BY <1>2 DEF TAILQ_FOREACH_SAFE
  <1>4. loop' \in [mode : {"none", "walk", "drain", "freed"},
                   head : Heads \cup {NULL}, var : Elems \cup {NULL},
                   tmp : Elems \cup {NULL}, seen : Seq(Elems)]
    BY <1>3
  <1>5. OnCourse(L)'
    BY <1>2, <1>3 DEF OnCourse
  <1> QED
    BY <1>1, <1>3, <1>4, <1>5, LoopMoves

LEMMA ForeachNextStep ==
    ASSUME IInv, foreach_next
    PROVE  IInv' /\ UNCHANGED Lists!vars
  <1>1. TypeOK /\ \E L : Sound(L)
    BY IInvIs
  <1>2. PICK L : Sound(L)
    BY <1>1
  <1>3. loop.mode = "walk" /\ loop.var # NULL /\ UNCHANGED <<next, last, prev, on, call>>
    BY DEF foreach_next
  <1>4. /\ loop.head \in Heads /\ Len(loop.seen) <= Len(L[loop.head])
        /\ \A i \in 1 .. Len(loop.seen) : loop.seen[i] = L[loop.head][i]
        /\ loop.var = IF Len(loop.seen) = Len(L[loop.head]) THEN NULL
                      ELSE L[loop.head][Len(loop.seen) + 1]
    BY <1>2, <1>3 DEF Sound, OnCourse
  <1>5. PICK h \in Heads, v \in Elems, t \in Elems \cup {NULL}, s \in Seq(Elems), k \in Nat :
           /\ h = loop.head /\ v = loop.var /\ t = loop.tmp /\ s = loop.seen /\ k = Len(s)
    <2>1. /\ loop.var \in Elems /\ loop.tmp \in Elems \cup {NULL}
          /\ loop.seen \in Seq(Elems)
      BY <1>1, <1>3 DEF TypeOK
    <2>2. Len(loop.seen) \in Nat
      BY <2>1
    <2> QED
      BY <1>4, <2>1, <2>2
  <1>6. PICK c \in Seq(Elems), m \in Nat :
           c = L[h] /\ m = Len(c) /\ k < m /\ v = c[k + 1] /\ \A i \in 1 .. k : s[i] = c[i]
    <2>1. L[h] \in Seq(Elems) /\ Len(L[h]) \in Nat
      BY <1>2, Found
    <2> QED
      BY <1>3, <1>4, <1>5, <2>1
  <1>7. next[v] = IF k + 1 = m THEN NULL ELSE c[k + 1 + 1]
    <2>1. k + 1 \in 0 .. m /\ k + 1 # 0
      BY <1>6
    <2>2. Place(h, c, k + 1) = v
      BY <1>6, <2>1 DEF Place
    <2>3. next[Place(h, c, k + 1)] = IF k + 1 = Len(c) THEN NULL ELSE c[k + 1 + 1]
      BY <1>2, <1>6, <2>1 DEF Sound, Shape, Chain, Represents
    <2> QED
      BY <1>6, <2>2, <2>3
  <1>8. PICK n \in Elems \cup {NULL} : n = next[v]
    BY <1>1 DEF TypeOK, Places
  <1>9. loop' = [mode |-> "walk", head |-> h, var |-> n, tmp |-> t, seen |-> Append(s, v)]
    BY <1>1, <1>3, <1>5, <1>8 DEF TypeOK, foreach_next
  <1>10. /\ Append(s, v) \in Seq(Elems) /\ Len(Append(s, v)) = k + 1
         /\ \A i \in 1 .. k + 1 : Append(s, v)[i] = c[i]
    <2>1. Append(s, v) \in Seq(Elems) /\ Len(Append(s, v)) = k + 1
      BY <1>5
    <2>2. \A i \in 1 .. k : Append(s, v)[i] = s[i]
      BY <1>5
    <2>3. Append(s, v)[k + 1] = v
      BY <1>5
    <2>4. \A i \in 1 .. k + 1 : i = k + 1 \/ i \in 1 .. k
      OBVIOUS
    <2> QED
      BY <1>6, <2>1, <2>2, <2>3, <2>4
  <1>11. loop' \in [mode : {"none", "walk", "drain", "freed"},
                    head : Heads \cup {NULL}, var : Elems \cup {NULL},
                    tmp : Elems \cup {NULL}, seen : Seq(Elems)]
    BY <1>9, <1>10
  <1>12. PICK q \in Seq(Elems) : q = Append(s, v)
    BY <1>10
  <1>13. OnCourse(L)'
    <2>1. /\ loop' = [mode |-> "walk", head |-> h, var |-> n, tmp |-> t, seen |-> q]
          /\ Len(q) = k + 1 /\ k + 1 <= m /\ \A i \in 1 .. k + 1 : q[i] = c[i]
          /\ n = IF k + 1 = m THEN NULL ELSE c[k + 1 + 1]
      BY <1>6, <1>7, <1>8, <1>9, <1>10, <1>12
    <2> QED
      BY <1>6, <2>1 DEF OnCourse
  <1> QED
    BY <1>2, <1>3, <1>11, <1>13, LoopMoves

LEMMA DrainNextStep ==
    ASSUME IInv, drain_next
    PROVE  IInv' /\ UNCHANGED Lists!vars
  <1>1. TypeOK /\ \E L : Sound(L)
    BY IInvIs
  <1>2. PICK L : Sound(L)
    BY <1>1
  <1>3. loop.mode = "freed" /\ UNCHANGED <<next, last, prev, on, call>>
    BY DEF drain_next
  <1>4. /\ loop.head \in Heads
        /\ loop.tmp = IF L[loop.head] = <<>> THEN NULL ELSE L[loop.head][1]
    BY <1>2, <1>3 DEF Sound, OnCourse
  <1>5. PICK h \in Heads, t \in Elems \cup {NULL}, s \in Seq(Elems) :
           h = loop.head /\ t = loop.tmp /\ s = loop.seen
    BY <1>1, <1>4 DEF TypeOK
  <1>6. loop' = [mode |-> "drain", head |-> h, var |-> t, tmp |-> t, seen |-> s]
    BY <1>1, <1>5 DEF TypeOK, drain_next
  <1>7. loop' \in [mode : {"none", "walk", "drain", "freed"},
                   head : Heads \cup {NULL}, var : Elems \cup {NULL},
                   tmp : Elems \cup {NULL}, seen : Seq(Elems)]
    BY <1>6
  <1>8. OnCourse(L)'
    BY <1>4, <1>5, <1>6 DEF OnCourse
  <1> QED
    BY <1>2, <1>3, <1>7, <1>8, LoopMoves

LEMMA LoopEndStep ==
    ASSUME IInv, loop_end
    PROVE  IInv' /\ UNCHANGED Lists!vars
  <1>1. PICK L : Sound(L)
    BY IInvIs
  <1>2. /\ UNCHANGED <<next, last, prev, on, call>>
        /\ loop' = [mode |-> "none", head |-> NULL, var |-> NULL, tmp |-> NULL, seen |-> <<>>]
    BY DEF loop_end, NoLoop
  <1>3. loop' \in [mode : {"none", "walk", "drain", "freed"},
                   head : Heads \cup {NULL}, var : Elems \cup {NULL},
                   tmp : Elems \cup {NULL}, seen : Seq(Elems)]
    BY <1>2
  <1>4. OnCourse(L)'
    BY <1>2 DEF OnCourse
  <1> QED
    BY <1>1, <1>2, <1>3, <1>4, LoopMoves

LEMMA StutterStep ==
    ASSUME IInv, UNCHANGED vars
    PROVE  IInv' /\ UNCHANGED Lists!vars
  <1>1. TypeOK /\ \E L : Sound(L)
    BY IInvIs
  <1>2. PICK L : Sound(L)
    BY <1>1
  <1>3. UNCHANGED <<next, last, prev, on, call>> /\ loop' = loop
    BY DEF vars
  <1>4. OnCourse(L)'
    BY <1>2, <1>3 DEF OnCourse, Sound
  <1>5. loop' \in [mode : {"none", "walk", "drain", "freed"},
                   head : Heads \cup {NULL}, var : Elems \cup {NULL},
                   tmp : Elems \cup {NULL}, seen : Seq(Elems)]
    BY <1>1, <1>3 DEF TypeOK
  <1> QED
    BY <1>2, <1>3, <1>4, <1>5, LoopMoves

\* The body of a destructor's loop: the first element goes, and tmp holds the
\* second, which is the first from then on.
LEMMA DrainBodyStep ==
    ASSUME IInv, drain_body
    PROVE  IInv' /\ \E h \in Heads, e \in Elems : Lists!Delete(h, e)
  <1>1. TypeOK /\ \E L : Sound(L)
    BY IInvIs
  <1>2. PICK L : Sound(L)
    BY <1>1
  <1>3. loop.mode = "drain" /\ loop.var # NULL /\ Unlink(loop.head, loop.var)
    BY DEF drain_body
  <1>4. /\ loop.head \in Heads
        /\ loop.var = IF L[loop.head] = <<>> THEN NULL ELSE L[loop.head][1]
    BY <1>2, <1>3 DEF Sound, OnCourse
  <1>5. PICK h \in Heads, e \in Elems, s \in Seq(Elems) :
           h = loop.head /\ e = loop.var /\ s = loop.seen
    BY <1>1, <1>3, <1>4 DEF TypeOK
  <1>6. Unlink(h, e) /\ call' = <<"REMOVE", h, e>>
    BY <1>3, <1>5 DEF Unlink
  <1>7. /\ L[h] \in Orders /\ L[h] \in Seq(Elems) /\ Len(L[h]) \in Nat /\ Len(L[h]) # 0
        /\ e = L[h][1] /\ 1 \in 1 .. Len(L[h]) /\ on[e] = h
    <2>1. L[h] # <<>> /\ e = L[h][1]
      BY <1>3, <1>4, <1>5
    <2>2. L[h] \in Orders /\ L[h] \in Seq(Elems) /\ Len(L[h]) \in Nat
      BY <1>2, Found
    <2>3. Len(L[h]) # 0 /\ 1 \in 1 .. Len(L[h])
      BY <2>1, <2>2, EmptySeq
    <2> QED
      BY <1>2, <2>1, <2>2, <2>3, Found
  <1>8. /\ next' \in [Places -> Elems \cup {NULL}]
        /\ prev' \in [Elems -> Places] /\ last' \in [Heads -> Places]
        /\ on' \in [Elems -> Heads \cup {NULL}]
        /\ \E i \in 1 .. Len(L[h]) :
              L[h][i] = e /\ Shape([L EXCEPT ![h] = Removed(L[h], i)])'
    <2>1. Shape(L)
      BY <1>2 DEF Sound
    <2> QED
      BY <1>1, <1>6, <1>7, <2>1, RemoveShape
  <1>9. PICK i \in 1 .. Len(L[h]) :
           L[h][i] = e /\ Shape([L EXCEPT ![h] = Removed(L[h], i)])'
    BY <1>8
  <1>10. i = 1
    BY <1>7, <1>9, OrderFacts
  <1>11. PICK M : M = [L EXCEPT ![h] = Removed(L[h], 1)]
    OBVIOUS
  <1>12. Shape(M)' /\ M[h] = Removed(L[h], 1)
    BY <1>2, <1>9, <1>10, <1>11 DEF Sound, Shape
  <1>13. PICK n \in Elems \cup {NULL} : n = next[e]
    BY <1>1 DEF TypeOK, Places
  <1>14. n = IF 1 = Len(L[h]) THEN NULL ELSE L[h][1 + 1]
    <2>1. Place(h, L[h], 1) = e /\ 1 \in 0 .. Len(L[h])
      BY <1>7 DEF Place
    <2>2. next[Place(h, L[h], 1)] = IF 1 = Len(L[h]) THEN NULL ELSE L[h][1 + 1]
      BY <1>2, <2>1 DEF Sound, Shape, Chain, Represents
    <2> QED
      BY <1>13, <2>1, <2>2
  <1>15. n = IF M[h] = <<>> THEN NULL ELSE M[h][1]
    <2>1. PICK m \in Nat : m = Len(L[h]) /\ m # 0 /\ m - 1 \in Nat
      BY <1>7
    <2>2. /\ M[h] \in [1 .. m - 1 -> Elems]
          /\ \A k \in 1 .. m - 1 : M[h][k] = IF k < 1 THEN L[h][k] ELSE L[h][k + 1]
      <3>1. \A k \in 1 .. m - 1 : k \in 1 .. m /\ k + 1 \in 1 .. m
        BY <2>1
      <3> QED
        BY <1>7, <1>12, <2>1, <3>1 DEF Removed
    <2>3. M[h] \in Seq(Elems) /\ Len(M[h]) = m - 1
      <3>1. PICK j \in Nat : j = m - 1
        BY <2>1
      <3>2. PICK q \in [1 .. j -> Elems] : q = M[h]
        BY <2>2, <3>1
      <3>3. q \in Seq(Elems) /\ Len(q) = j
        OBVIOUS
      <3> QED
        BY <3>1, <3>2, <3>3
    <2>4. CASE m = 1
      <3>1. M[h] = <<>>
        BY <2>3, <2>4, EmptySeq
      <3> QED
        BY <1>14, <2>1, <2>4, <3>1
    <2>5. CASE m # 1
      <3>1. PICK j \in Nat : j = m - 1
        BY <2>1
      <3>2. j # 0
        BY <2>5, <3>1
      <3>3. m - 1 # 0 /\ 1 \in 1 .. m - 1 /\ ~(1 < 1)
        BY <3>1, <3>2
      <3>4. M[h] # <<>>
        <4>1. Len(<<>>) = 0
          OBVIOUS
        <4> QED
          BY <2>3, <3>3, <4>1
      <3>5. M[h][1] = L[h][1 + 1]
        BY <2>2, <3>3
      <3> QED
        BY <1>14, <2>1, <2>5, <3>4, <3>5
    <2> QED
      BY <2>4, <2>5
  <1>16. loop' = [mode |-> "freed", head |-> h, var |-> e, tmp |-> n, seen |-> Append(s, e)]
    BY <1>1, <1>5, <1>13 DEF TypeOK, drain_body
  <1>17. IInv'
    <2>1. Append(s, e) \in Seq(Elems)
      OBVIOUS
    <2>2. TypeOK'
      BY <1>8, <1>16, <2>1 DEF TypeOK
    <2>3. OnCourse(M)'
      BY <1>15, <1>16 DEF OnCourse
    <2>4. Sound(M)'
      BY <1>12, <2>3 DEF Sound
    <2> QED
      BY <2>2, <2>4, IInvIsNext
  <1>18. [x \in Heads |-> Content(x)]' = M /\ [x \in Heads |-> Content(x)] = L
    BY <1>2, <1>12, ShapeIsNext, ShapeIs DEF Sound
  <1>19. Removed(L[h], 1) = Lists!RemoveAt(L[h], 1) /\ 1 \in DOMAIN L[h]
    BY <1>2, <1>7, Found, RemoveAtIs
  <1>20. Lists!Delete(h, e)
    BY <1>6, <1>7, <1>11, <1>18, <1>19 DEF Lists!Delete
  <1> QED
    BY <1>17, <1>20

-----------------------------------------------------------------------------
(* The theorems *)

\* Every queue is empty at first.
LEMMA InitIInv ==
    ASSUME Init
    PROVE  IInv /\ Lists!Init
  <1>1. PICK L : L = [h \in Heads |-> <<>>]
    OBVIOUS
  <1>2. <<>> \in Seq(Elems) /\ Len(<<>>) = 0 /\ <<>> \in Orders
    <2>1. <<>> \in Seq(Elems) /\ Len(<<>>) = 0
      OBVIOUS
    <2> QED
      BY <2>1, OrdersAre
  <1>3. TypeOK
    <2>1. loop \in [mode : {"none", "walk", "drain", "freed"},
                    head : Heads \cup {NULL}, var : Elems \cup {NULL},
                    tmp : Elems \cup {NULL}, seen : Seq(Elems)]
      BY <1>2 DEF Init, NoLoop
    <2> QED
      BY <2>1 DEF Init, TypeOK, Places
  <1>4. ASSUME NEW h \in Heads PROVE Chain(h, <<>>)
    <2>1. next[h] = NULL /\ last[h] = h /\ \A e \in Elems : on[e] # h
      BY DisjointAssumption DEF Init
    <2>2. Place(h, <<>>, 0) = h
      BY DEF Place
    <2>3. Represents(h, <<>>)
      BY <1>2, <2>1, <2>2 DEF Represents
    <2>4. Holds(h, <<>>)
      BY <1>2, <2>1 DEF Holds
    <2> QED
      BY <1>2, <2>3, <2>4 DEF Chain
  <1>5. Shape(L)
    BY <1>1, <1>2, <1>4 DEF Shape
  <1>6. OnCourse(L)
    BY DEF Init, NoLoop, OnCourse
  <1>7. IInv
    BY <1>3, <1>5, <1>6, IInvIs DEF Sound
  <1>8. [h \in Heads |-> Content(h)] = L
    BY <1>5, ShapeIs
  <1> QED
    BY <1>1, <1>7, <1>8 DEF Init, Lists!Init

\* Every step keeps the invariant, and is a step of ListSpec or changes no
\* sequence.
LEMMA Step ==
    ASSUME IInv, [Next]_vars
    PROVE  IInv' /\ [Lists!Next]_(Lists!vars)
  <1>1. ASSUME NEW h \in Heads, NEW e \in Elems,
               TAILQ_INSERT_HEAD(h, e) \/ TAILQ_INSERT_TAIL(h, e) \/ TAILQ_REMOVE(h, e)
        PROVE  IInv' /\ Lists!Next
    BY <1>1, InsertHeadStep, InsertTailStep, RemoveStep DEF Lists!Next
  <1>2. ASSUME NEW h \in Heads, NEW d \in Elems, NEW e \in Elems,
               TAILQ_INSERT_AFTER(h, d, e) \/ TAILQ_REPLACE(h, d, e)
        PROVE  IInv' /\ Lists!Next
    BY <1>2, InsertAfterStep, ReplaceStep DEF Lists!Next
  <1>3. ASSUME NEW d \in Elems, NEW e \in Elems, TAILQ_INSERT_BEFORE(d, e)
        PROVE  IInv' /\ Lists!Next
    BY <1>3, InsertBeforeStep DEF Lists!Next
  <1>4. ASSUME NEW h \in Heads, NEW g \in Heads, TAILQ_CONCAT(h, g)
        PROVE  IInv' /\ Lists!Next
    BY <1>4, ConcatStep DEF Lists!Next
  <1>5. ASSUME NEW h \in Heads, TAILQ_FOREACH(h) \/ TAILQ_FOREACH_SAFE(h)
        PROVE  IInv' /\ UNCHANGED Lists!vars
    BY <1>5, ForeachStep, ForeachSafeStep
  <1>6. ASSUME drain_body PROVE IInv' /\ Lists!Next
    BY <1>6, DrainBodyStep DEF Lists!Next
  <1>7. ASSUME foreach_next \/ drain_next \/ loop_end \/ UNCHANGED vars
        PROVE  IInv' /\ UNCHANGED Lists!vars
    BY <1>7, ForeachNextStep, DrainNextStep, LoopEndStep, StutterStep
  <1> QED
    BY <1>1, <1>2, <1>3, <1>4, <1>5, <1>6, <1>7 DEF Next

\* The links of every queue stand for a sequence of the elements it has, and the
\* loop under way is at its place in one, whatever macros the callers invoke.
THEOREM Invariance == Spec => []IInv
  <1>1. Init => IInv
    BY InitIInv
  <1>2. IInv /\ [Next]_vars => IInv'
    BY Step
  <1> QED
    BY <1>1, <1>2, PTL DEF Spec

\* No macro leaves a link dangling, an element in two queues or a queue without
\* one of its elements (compat_queue.h, Tail queue functions).
THEOREM Linked == Spec => []WellLinked
  <1>1. IInv => WellLinked
    BY DEF IInv
  <1> QED
    BY <1>1, Invariance, PTL

\* A walk sees every element of its queue in order, and the loop of a destructor
\* takes out each first element although those before it are freed and reused
\* (xpc_misc.c, xpc_dictionary_destroy and xpc_array_destroy).
THEOREM Loops == Spec => []LoopOnCourse
  <1>1. IInv => LoopOnCourse
    BY DEF IInv
  <1> QED
    BY <1>1, Invariance, PTL

\* The macros do to the links what their names say of sequences, and nothing to
\* any other queue (compat_queue.h, Tail queue functions).
THEOREM Implements == Spec => ImplementsLists
  <1>1. Init => Lists!Init
    BY InitIInv
  <1>2. IInv /\ [Next]_vars => [Lists!Next]_(Lists!vars)
    BY Step
  <1> QED
    BY <1>1, <1>2, Invariance, PTL DEF Spec, ImplementsLists, Lists!Spec

=============================================================================
