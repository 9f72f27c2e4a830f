----------------------------- MODULE SbufProofs -----------------------------
(***************************************************************************)
(* IInv is an inductive invariant of Sbuf, for every alphabet, all buffer  *)
(* lengths, strings and paddings, and all constants of sbuf_extendsize.    *)
(***************************************************************************)
EXTENDS Sbuf, SequenceTheorems, TLAPS

-----------------------------------------------------------------------------
(* Sizes *)

\* roundup of sbuf.c, for a modulus that is not a power of two and for negative
\* lengths as well.
LEMMA RoundUp ==
    ASSUME NEW n \in Int, NEW m \in Nat, m > 0
    PROVE  ((n + m - 1) \div m) * m \in Int /\ ((n + m - 1) \div m) * m >= n
  <1>1. PICK a \in Int : a = n + m - 1
    OBVIOUS
  <1>2. a \div m \in Int
    OBVIOUS
  <1>3. PICK q \in Int : q = a \div m
    BY <1>2
  <1>4. a < q * m + m
    BY <1>3
  <1>5. q * m \in Int
    OBVIOUS
  <1>6. q * m >= n
    BY <1>1, <1>4, <1>5
  <1> QED
    BY <1>1, <1>3, <1>5, <1>6

\* What a turn of the loop of sbuf_extendsize makes of the size.
NewsizeStep(k, size) == 2 * size

\* The recursion facts for Newsize, and induction.
Nats == INSTANCE NatFacts WITH Base <- MinExtend, Step <- NewsizeStep

\* Newsize is what its definition says.
LEMMA NewsizeIs ==
    \A k \in Nat : Newsize[k] = IF k = 0 THEN MinExtend ELSE 2 * Newsize[k - 1]
  <1>1. Newsize = Nats!Rec
    BY DEF Newsize, Nats!Rec, NewsizeStep
  <1> QED
    BY <1>1, Nats!Unfold DEF NewsizeStep

\* The size grows with every turn of the loop, so that the loop ends.
LEMMA NewsizeGrows ==
    \A k \in Nat : Newsize[k] \in Nat /\ Newsize[k] > k /\ Newsize[k] >= MinExtend
  <1> DEFINE T == {k \in Nat : Newsize[k] \in Nat /\ Newsize[k] > k /\ Newsize[k] >= MinExtend}
  <1>1. 0 \in T
    BY NewsizeIs, ExtendAssumption
  <1>2. ASSUME NEW k \in T PROVE k + 1 \in T
    <2>1. Newsize[k + 1] = 2 * Newsize[k]
      BY <1>2, NewsizeIs
    <2> QED
      BY <1>2, <2>1, ExtendAssumption
  <1>3. T \in SUBSET Nat
    OBVIOUS
  <1>4. T = Nat
    <2> HIDE DEF T
    <2> QED
      BY <1>1, <1>2, <1>3, Nats!AllNat
  <1> QED
    BY <1>4

\* A buffer is never made smaller than what is asked for, nor empty.
LEMMA ExtendsizeFacts ==
    ASSUME NEW n \in Nat
    PROVE  sbuf_extendsize(n) \in Nat /\ sbuf_extendsize(n) >= n /\ sbuf_extendsize(n) > 0
  <1>1. CASE n < MaxExtend
    <2> DEFINE T == {k \in 0 .. n : Newsize[k] >= n}
               k == CHOOSE k \in 0 .. n : Newsize[k] >= n /\ (k = 0 \/ Newsize[k - 1] < n)
    <2>1. n \in T
      BY NewsizeGrows
    <2>2. PICK j \in T : \A m \in T : j <= m
      <3>1. T \in SUBSET Nat /\ T # {}
        BY <2>1
      <3> QED
        BY <3>1, Nats!LeastNat
    <2>3. j = 0 \/ Newsize[j - 1] < n
      <3>1. ASSUME j # 0, ~(Newsize[j - 1] < n) PROVE FALSE
        <4>1. j - 1 \in 0 .. n /\ Newsize[j - 1] \in Nat
          BY <3>1, NewsizeGrows
        <4>2. j - 1 \in T
          BY <3>1, <4>1
        <4> QED
          BY <2>2, <4>2
      <3> QED
        BY <3>1
    <2>4. k \in 0 .. n /\ Newsize[k] >= n
      BY <2>2, <2>3
    <2>5. Doubled(n) = Newsize[k]
      BY DEF Doubled
    <2> HIDE DEF k
    <2> QED
      BY <1>1, <2>4, <2>5, NewsizeGrows, ExtendAssumption DEF sbuf_extendsize
  <1>2. CASE ~(n < MaxExtend)
    <2>1. MaxExtend \in Nat /\ MaxExtend > 0 /\ n > 0
      BY <1>2, ExtendAssumption
    <2> QED
      BY <1>2, <2>1, RoundUp DEF sbuf_extendsize
  <1> QED
    BY <1>1, <1>2

-----------------------------------------------------------------------------
(* Strings *)

\* The library's facts, for strings.
LEMMA Joined ==
    ASSUME NEW a \in Seq(Bytes), NEW b \in Seq(Bytes)
    PROVE  /\ a \o b \in Seq(Bytes) /\ Len(a \o b) = Len(a) + Len(b)
           /\ \A j \in 1 .. Len(a) : (a \o b)[j] = a[j]
           /\ \A j \in 1 .. Len(b) : (a \o b)[Len(a) + j] = b[j]
  <1>1. a \o b \in Seq(Bytes) /\ Len(a \o b) = Len(a) + Len(b)
    BY ConcatProperties
  <1>2. ASSUME NEW j \in 1 .. Len(a) PROVE (a \o b)[j] = a[j]
    OBVIOUS
  <1>3. ASSUME NEW j \in 1 .. Len(b) PROVE (a \o b)[Len(a) + j] = b[j]
    OBVIOUS
  <1> QED
    BY <1>1, <1>2, <1>3

LEMMA Regrouped ==
    ASSUME NEW a \in Seq(Bytes), NEW b \in Seq(Bytes), NEW c \in Seq(Bytes)
    PROVE  (a \o b) \o c = a \o (b \o c)
  BY ConcatAssociative

LEMMA ChunkFacts ==
    ASSUME NEW s \in Seq(Bytes), NEW k \in Int, k <= Len(s)
    PROVE  /\ Chunk(s, k) \in Seq(Bytes)
           /\ k >= 0 => Len(Chunk(s, k)) = k
           /\ \A j \in 1 .. k : Chunk(s, k)[j] = s[j]
  <1>1. \A j \in 1 .. k : s[j] \in Bytes
    OBVIOUS
  <1>2. /\ SubSeq(s, 1, k) \in Seq(Bytes)
        /\ Len(SubSeq(s, 1, k)) = IF 1 <= k THEN k - 1 + 1 ELSE 0
        /\ \A j \in 1 .. k - 1 + 1 : SubSeq(s, 1, k)[j] = s[1 + j - 1]
    BY <1>1, SubSeqProperties, 1 \in Int
  <1>3. \A j \in 1 .. k : j \in 1 .. k - 1 + 1 /\ 1 + j - 1 = j
    OBVIOUS
  <1>4. \A j \in 1 .. k : SubSeq(s, 1, k)[j] = s[j]
    BY <1>2, <1>3
  <1>5. k >= 0 => (IF 1 <= k THEN k - 1 + 1 ELSE 0) = k
    OBVIOUS
  <1> QED
    BY <1>2, <1>4, <1>5 DEF Chunk

LEMMA RestFacts ==
    ASSUME NEW s \in Seq(Bytes), NEW k \in 0 .. Len(s)
    PROVE  /\ Rest(s, k) \in Seq(Bytes) /\ Len(Rest(s, k)) = Len(s) - k
           /\ Chunk(s, k) \o Rest(s, k) = s
  <1>1. PICK n \in Nat : n = Len(s)
    OBVIOUS
  <1>2. \A j \in k + 1 .. n : s[j] \in Bytes
    BY <1>1
  <1>3. /\ SubSeq(s, k + 1, n) \in Seq(Bytes)
        /\ Len(SubSeq(s, k + 1, n)) = IF k + 1 <= n THEN n - (k + 1) + 1 ELSE 0
    BY <1>1, <1>2, SubSeqProperties, k + 1 \in Int, n \in Int
  <1>4. (IF k + 1 <= n THEN n - (k + 1) + 1 ELSE 0) = n - k
    BY <1>1
  <1>5. SubSeq(s, 1, k) \o SubSeq(s, k + 1, n) = SubSeq(s, 1, n)
    <2>1. 1 \in 1 .. Len(s) + 1 /\ k \in 1 - 1 .. Len(s) /\ n \in k .. Len(s)
      BY <1>1
    <2> QED
      BY <2>1, ConcatAdjacentSubSeq
  <1>6. SubSeq(s, 1, n) = s
    BY <1>1, SubSeqFull
  <1>7. Rest(s, k) = SubSeq(s, k + 1, n) /\ Chunk(s, k) = SubSeq(s, 1, k)
    BY <1>1 DEF Chunk, Rest
  <1>8. Len(s) - k = n - k
    BY <1>1
  <1> QED
    BY <1>3, <1>4, <1>5, <1>6, <1>7, <1>8

\* What is left of a string of which up to k bytes went to the front of the buffer.
LEMMA RestAny ==
    ASSUME NEW s \in Seq(Bytes), NEW k \in Nat
    PROVE  /\ Rest(s, k) \in Seq(Bytes)
           /\ Len(Rest(s, k)) = IF k <= Len(s) THEN Len(s) - k ELSE 0
           /\ k = 0 => Rest(s, k) = s
  <1>1. PICK n \in Nat : n = Len(s)
    OBVIOUS
  <1>2. \A j \in k + 1 .. n : s[j] \in Bytes
    BY <1>1
  <1>3. /\ SubSeq(s, k + 1, n) \in Seq(Bytes)
        /\ Len(SubSeq(s, k + 1, n)) = IF k + 1 <= n THEN n - (k + 1) + 1 ELSE 0
    BY <1>1, <1>2, SubSeqProperties, k + 1 \in Int, n \in Int
  <1>4. (IF k + 1 <= n THEN n - (k + 1) + 1 ELSE 0) = IF k <= n THEN n - k ELSE 0
    BY <1>1
  <1>5. k = 0 => SubSeq(s, k + 1, n) = s
    BY <1>1, SubSeqFull
  <1> QED
    BY <1>1, <1>3, <1>4, <1>5 DEF Rest

\* Whatever part of the string the drain takes, the three in a row stay the same.
LEMMA DrainKeeps ==
    ASSUME NEW o \in Seq(Bytes), NEW t \in Seq(Bytes), NEW d \in Seq(Bytes),
           NEW k \in 0 .. Len(t)
    PROVE  /\ o \o Chunk(t, k) \in Seq(Bytes)
           /\ (o \o Chunk(t, k)) \o (Rest(t, k) \o d) = o \o (t \o d)
  <1>1. k \in Int /\ k <= Len(t)
    OBVIOUS
  <1>2. Chunk(t, k) \in Seq(Bytes) /\ Rest(t, k) \in Seq(Bytes) /\ Chunk(t, k) \o Rest(t, k) = t
    BY <1>1, ChunkFacts, RestFacts
  <1>3. \A p, q \in Seq(Bytes) : /\ o \o p \in Seq(Bytes)
                               /\ (o \o p) \o (q \o d) = o \o ((p \o q) \o d)
    <2> TAKE p, q \in Seq(Bytes)
    <2>1. o \o p \in Seq(Bytes) /\ q \o d \in Seq(Bytes)
      BY Joined
    <2>2. \A e \in Seq(Bytes) : (o \o p) \o e = o \o (p \o e)
      BY Regrouped
    <2>3. (p \o q) \o d = p \o (q \o d)
      BY Regrouped
    <2> QED
      BY <2>1, <2>2, <2>3
  <1>4. PICK p, q \in Seq(Bytes) : p = Chunk(t, k) /\ q = Rest(t, k)
    BY <1>2
  <1>5. p \o q = t
    BY <1>2, <1>4
  <1>6. o \o p \in Seq(Bytes) /\ (o \o p) \o (q \o d) = o \o ((p \o q) \o d)
    BY <1>3
  <1>7. o \o p \in Seq(Bytes) /\ (o \o p) \o (q \o d) = o \o (t \o d)
    BY <1>5, <1>6
  <1> QED
    BY <1>4, <1>7

\* A byte that is stored goes from the front of todo to the end of the string.
LEMMA StoreKeeps ==
    ASSUME NEW t \in Seq(Bytes), NEW d \in Seq(Bytes), d # <<>>
    PROVE  /\ Append(t, d[1]) \in Seq(Bytes) /\ Len(Append(t, d[1])) = Len(t) + 1
           /\ Tail(d) \in Seq(Bytes) /\ Len(Tail(d)) = Len(d) - 1 /\ Len(d) \in Nat \ {0}
           /\ Append(t, d[1]) \o Tail(d) = t \o d
  <1>1. Len(d) \in Nat \ {0}
    BY EmptySeq
  <1>2. Tail(d) \in Seq(Bytes) /\ Len(Tail(d)) = Len(d) - 1 /\ d[1] \in Bytes
    BY <1>1
  <1>3. Append(t, d[1]) \in Seq(Bytes) /\ Len(Append(t, d[1])) = Len(t) + 1
    BY <1>2
  <1>4. Append(t, d[1]) = t \o <<d[1]>> /\ <<d[1]>> \in Seq(Bytes)
    BY <1>2, AppendIsConcat
  <1>5. <<d[1]>> \o Tail(d) = d
    <2>1. Len(<<d[1]>> \o Tail(d)) = Len(d) /\ <<d[1]>> \o Tail(d) \in Seq(Bytes)
      BY <1>1, <1>2, <1>4
    <2>2. \A j \in 1 .. Len(d) : (<<d[1]>> \o Tail(d))[j] = d[j]
      BY <1>1, <1>2
    <2> QED
      BY <2>1, <2>2, SeqEqual
  <1>6. (t \o <<d[1]>>) \o Tail(d) = t \o (<<d[1]>> \o Tail(d))
    BY <1>2, <1>4, ConcatAssociative
  <1> QED
    BY <1>1, <1>2, <1>3, <1>4, <1>5, <1>6

\* What is taken off the end of the string is taken off the end of what was sent.
LEMMA CutKeeps ==
    ASSUME NEW o \in Seq(Bytes), NEW t \in Seq(Bytes), NEW k \in 0 .. Len(t)
    PROVE  /\ Len(o \o t) - k <= Len(o \o t) /\ Len(o \o t) - k \in Nat
           /\ Chunk(o \o t, Len(o \o t) - k) = o \o Chunk(t, Len(t) - k)
  <1>1. PICK m \in Nat : m = Len(t) - k
    OBVIOUS
  <1>2. o \o t \in Seq(Bytes) /\ Len(o \o t) = Len(o) + Len(t)
    BY ConcatProperties
  <1>3. PICK n \in Nat : n = Len(o) + m
    BY <1>1
  <1>4. Len(o \o t) - k = n /\ n <= Len(o \o t) /\ m <= Len(t)
    BY <1>1, <1>2, <1>3
  <1>5. PICK u \in Seq(Bytes) : u = o \o t
    BY <1>2
  <1>6. PICK a \in Seq(Bytes) : a = Chunk(u, n) /\ Len(a) = n /\ \A j \in 1 .. n : a[j] = u[j]
    <2>1. n \in Int /\ n >= 0 /\ n <= Len(u)
      BY <1>4, <1>5
    <2> QED
      BY <2>1, ChunkFacts
  <1>7. PICK b \in Seq(Bytes) : b = Chunk(t, m) /\ Len(b) = m /\ \A j \in 1 .. m : b[j] = t[j]
    <2>1. m \in Int /\ m >= 0 /\ m <= Len(t)
      BY <1>4
    <2> QED
      BY <2>1, ChunkFacts
  <1>8. PICK c \in Seq(Bytes) : c = o \o b
    BY Joined
  <1>9. Len(c) = n
    <2>1. Len(o \o b) = Len(o) + Len(b)
      BY Joined
    <2> QED
      BY <1>3, <1>7, <1>8, <2>1
  <1>10. ASSUME NEW j \in 1 .. n PROVE a[j] = c[j]
    <2>1. CASE j <= Len(o)
      <3>1. j \in 1 .. Len(o)
        BY <2>1
      <3>2. u[j] = o[j] /\ c[j] = o[j]
        BY <1>5, <1>8, <3>1, Joined
      <3> QED
        BY <1>6, <3>2
    <2>2. CASE j > Len(o)
      <3>1. PICK i \in 1 .. m : j = Len(o) + i
        <4>1. j - Len(o) \in 1 .. m /\ j = Len(o) + (j - Len(o))
          BY <1>3, <2>2
        <4> QED
          BY <4>1
      <3>2. i \in 1 .. Len(t) /\ i \in 1 .. Len(b)
        BY <1>4, <1>7
      <3>3. u[j] = t[i] /\ c[j] = b[i]
        BY <1>5, <1>8, <3>1, <3>2, Joined
      <3> QED
        BY <1>6, <1>7, <3>3
    <2> QED
      BY <2>1, <2>2
  <1>11. a = c
    BY <1>6, <1>9, <1>10, SeqEqual
  <1> QED
    BY <1>1, <1>4, <1>5, <1>6, <1>7, <1>8, <1>11

\* The blanks at the end of a string are as many as there are, and no more than it.
LEMMA BlanksFacts ==
    ASSUME NEW s \in Seq(Bytes)
    PROVE  Blanks(s) \in 0 .. Len(s)
  <1> DEFINE T == {n \in 0 .. Len(s) : \A i \in n + 1 .. Len(s) : s[i] = Space}
  <1>1. Len(s) \in T
    OBVIOUS
  <1>2. PICK n \in T : \A m \in T : n <= m
    <2>1. T \in SUBSET Nat /\ T # {}
      BY <1>1
    <2> QED
      BY <2>1, Nats!LeastNat
  <1>3. PICK k \in 0 .. Len(s) : k = Len(s) - n
    <2>1. Len(s) - n \in 0 .. Len(s)
      BY <1>2
    <2> QED
      BY <2>1
  <1>4. \A i \in Len(s) - k + 1 .. Len(s) : s[i] = Space
    BY <1>2, <1>3
  <1>5. k = Len(s) \/ s[Len(s) - k] # Space
    <2> SUFFICES ASSUME n # 0, s[n] = Space PROVE FALSE
      BY <1>2, <1>3
    <2>1. n - 1 \in 0 .. Len(s) /\ \A i \in n - 1 + 1 .. Len(s) : s[i] = Space
      BY <1>2
    <2>2. n - 1 \in T
      BY <2>1
    <2> QED
      BY <1>2, <2>2
  <1> QED
    BY <1>4, <1>5 DEF Blanks

-----------------------------------------------------------------------------
(* What the steps have in common *)

\* The part of the invariant that is about the struct and its memory.
Sound == Within /\ BlocksAccounted /\ NoBuffer

\* A call that is under way has a buffer.
LEMMA Alive ==
    ASSUME IInv, pc # "idle" \/ Unfinished
    PROVE  Has("SBUF") /\ Len(text) < s_size
  BY DEF IInv, Core, NoBuffer, Unfinished, Within

\* A step that moves bytes about, in a struct that stays where it is.
LEMMA Moved ==
    ASSUME IInv, TextTypeOK', UNCHANGED <<s_size, given, heap>>, overrun' = overrun,
           Has("SBUF"), flags' \in {flags, flags \cup {"FINISHED"}, flags \ {"FINISHED"},
                                   flags \cup {"INSECTION"}, flags \ {"INSECTION"}},
           Len(text') < s_size
    PROVE  Sound'
  <1>1. Has("SBUF")'
    BY DEF Has
  <1>2. Has("DYNAMIC")' <=> Has("DYNAMIC")
    BY DEF Has
  <1>3. Has("DYNSTRUCT")' <=> Has("DYNSTRUCT")
    BY DEF Has
  <1>4. Within'
    BY <1>1 DEF IInv, Core, Within
  <1>5. BlocksAccounted'
    BY <1>1, <1>2, <1>3 DEF IInv, Core, BlocksAccounted
  <1> QED
    BY <1>1, <1>4, <1>5 DEF Sound, NoBuffer

\* A step that changes the length of the innermost section by d, and the bytes
\* appended too.
LEMMA Sections ==
    ASSUME TextTypeOK, Nested, Measured, UNCHANGED <<saved, marks>>,
           Has("INSECTION")' <=> Has("INSECTION"),
           pc' = "pad" => pc = "pad" \/ saved # <<>>,
           ~loose' => ~loose,
           NEW d \in Int,
           ~loose' => s_sect_len' = IF Has("INSECTION") THEN s_sect_len + d ELSE s_sect_len,
           ~loose' /\ Has("INSECTION") => s_sect_len + d >= 0,
           ~loose' /\ ~s_error' /\ ~cut' /\ Has("INSECTION") =>
              ~s_error /\ ~cut /\ Len(sent') - Len(todo') = Len(sent) - Len(todo) + d
    PROVE  Nested' /\ Measured'
  <1>1. /\ s_sect_len \in Int /\ Len(sent) \in Nat /\ Len(todo) \in Nat
        /\ saved \in Seq(Int) /\ marks \in Seq(Nat)
    BY DEF TextTypeOK
  <1>2. Nested'
    BY <1>1 DEF Nested
  <1>3. Measured'
    <2> SUFFICES ASSUME ~s_error', ~cut', ~loose', saved # <<>>
                 PROVE  /\ s_sect_len' = Len(sent') - Len(todo') - marks[Len(marks)]
                        /\ \A k \in DOMAIN saved : k > 1 => saved[k] = marks[k] - marks[k - 1]
      BY <1>1 DEF Measured
    <2>1. Has("INSECTION") /\ Len(saved) = Len(marks)
      BY DEF Nested
    <2>2. /\ s_sect_len = Len(sent) - Len(todo) - marks[Len(marks)]
          /\ \A k \in DOMAIN saved : k > 1 => saved[k] = marks[k] - marks[k - 1]
      BY <2>1 DEF Measured
    <2>3. PICK m \in Nat : m = marks[Len(marks)]
      <3>1. Len(saved) \in Nat \ {0}
        BY <1>1, EmptySeq
      <3> QED
        BY <1>1, <2>1, <3>1
    <2>4. PICK x \in Int : x = Len(sent) - Len(todo)
      <3>1. Len(sent) - Len(todo) \in Int
        BY <1>1
      <3> QED
        BY <3>1
    <2>5. Len(sent') - Len(todo') = x + d
      BY <2>1, <2>4
    <2>6. s_sect_len' = s_sect_len + d
      BY <2>1
    <2>7. s_sect_len = x - m
      BY <2>2, <2>3, <2>4
    <2>8. s_sect_len' = (x + d) - m
      BY <2>6, <2>7
    <2> QED
      BY <2>2, <2>3, <2>5, <2>8
  <1> QED
    BY <1>2, <1>3

-----------------------------------------------------------------------------
(* Making, clearing, deleting *)

LEMMA NewCore ==
    ASSUME IInv, NEW own \in BOOLEAN, NEW buf \in BOOLEAN, NEW auto \in BOOLEAN,
           NEW n \in Lengths, sbuf_new(own, buf, n, auto)
    PROVE  Core'
  <1>0. TextTypeOK
    BY DEF IInv, Core, Within
  <1>1. /\ ~Has("SBUF") /\ flags = {} /\ text = <<>> /\ s_sect_len = 0 /\ ~s_error /\ ~drain
        /\ saved = <<>> /\ marks = <<>> /\ ~cut /\ ~loose /\ pc = "idle"
        /\ sent = <<>> /\ out = <<>>
    BY DEF sbuf_new, IInv, Core, NoBuffer, Zeroed
  <1>2. UNCHANGED <<text, s_error, s_sect_len, drain, overrun, saved, marks, pc, todo,
                    sent, out, cut, loose>>
    BY DEF sbuf_new, string, stray, caller, flaws
  <1>3. s_size' \in Nat /\ s_size' > 0
    <2>1. n \in Nat /\ (n >= 2 \/ (auto /\ ~buf))
      BY LengthsAssumption DEF sbuf_new
    <2>2. s_size' = IF auto /\ ~buf THEN sbuf_extendsize(n) ELSE n
      BY DEF sbuf_new
    <2> QED
      BY <2>1, <2>2, ExtendsizeFacts
  <1>4. /\ flags' \subseteq Flags /\ Has("SBUF")' /\ "INSECTION" \notin flags'
        /\ Has("DYNAMIC")' <=> ~buf
        /\ Has("DYNSTRUCT")' <=> own
    BY DEF sbuf_new, Flags, Has
  <1>5. heap' = (IF own THEN 1 ELSE 0) + (IF buf THEN 0 ELSE 1) /\ given' = buf
    BY DEF sbuf_new
  <1>6. heap' \in 0 .. 2
    BY <1>5
  <1>7. TextTypeOK'
    BY <1>0, <1>2, <1>3, <1>4, <1>5, <1>6 DEF TextTypeOK
  <1>8. Within'
    BY <1>1, <1>2, <1>3, <1>7 DEF Within, IInv, Core
  <1>9. BlocksAccounted'
    BY <1>4, <1>5 DEF BlocksAccounted
  <1>10. NoBuffer'
    BY <1>4 DEF NoBuffer
  <1>11. Conserved'
    BY <1>1, <1>2 DEF Conserved, IInv, Core
  <1>12. Nested' /\ Measured'
    BY <1>1, <1>2, <1>4 DEF Nested, Measured, Has
  <1> QED
    BY <1>8, <1>9, <1>10, <1>11, <1>12 DEF IInv, Core

LEMMA DeleteCore ==
    ASSUME IInv, sbuf_delete
    PROVE  Core'
  <1>0. TextTypeOK
    BY DEF IInv, Core, Within
  <1>1. /\ flags' = {} /\ text' = <<>> /\ under' = 0 /\ s_size' = 0 /\ s_error' = FALSE /\ s_sect_len' = 0
        /\ drain' = FALSE /\ given' = FALSE /\ saved' = <<>> /\ marks' = <<>>
        /\ sent' = <<>> /\ out' = <<>> /\ cut' = FALSE /\ loose' = FALSE
        /\ UNCHANGED <<overrun, pc, todo>> /\ pc = "idle"
    BY DEF sbuf_delete
  <1>2. heap' = 0
    BY DEF sbuf_delete, IInv, Core, BlocksAccounted
  <1>3. todo = <<>> /\ ~overrun
    BY <1>1 DEF IInv, Core, Conserved, Within
  <1>4. TextTypeOK'
    <2>1. /\ text' \in Seq(Bytes) /\ saved' \in Seq(Int) /\ marks' \in Seq(Nat)
          /\ todo' \in Seq(Bytes) /\ sent' \in Seq(Bytes) /\ out' \in Seq(Bytes)
      BY <1>1, <1>3, EmptySeq
    <2>2. flags' \subseteq Flags /\ s_size' \in Nat /\ s_sect_len' \in Int
      BY <1>1
    <2>4. s_error' \in BOOLEAN
      BY <1>1
    <2>3. /\ drain' \in BOOLEAN /\ given' \in BOOLEAN /\ overrun' \in BOOLEAN
          /\ cut' \in BOOLEAN /\ loose' \in BOOLEAN
      BY <1>0, <1>1 DEF TextTypeOK
    <2> QED
      BY <1>0, <1>1, <1>2, <2>1, <2>2, <2>3, <2>4 DEF TextTypeOK
  <1>5. Within' /\ BlocksAccounted' /\ NoBuffer'
    BY <1>1, <1>2, <1>3, <1>4 DEF Within, BlocksAccounted, NoBuffer, Zeroed, Has
  <1>6. Conserved'
    BY <1>1, <1>3 DEF Conserved
  <1>7. Nested' /\ Measured'
    BY <1>1 DEF Nested, Measured, Has
  <1> QED
    BY <1>5, <1>6, <1>7 DEF IInv, Core

\* The types of what sbuf_clear sets, and what it does to the sections.
LEMMA ClearedFacts ==
    ASSUME IInv, Cleared, Has("SBUF"), UNCHANGED <<saved, marks>>, pc' # "pad"
    PROVE  /\ flags' \subseteq Flags /\ text' = <<>> /\ text' \in Seq(Bytes)
           /\ s_error' \in BOOLEAN /\ s_sect_len' \in Int
           /\ cut' \in BOOLEAN /\ loose' \in BOOLEAN
           /\ s_error' = FALSE /\ cut' = FALSE
           /\ Nested' /\ Measured'
  <1>0. TextTypeOK /\ Nested /\ Measured
    BY DEF IInv, Core, Within
  <1>1. /\ flags' = flags \ {"FINISHED"} /\ text' = <<>> /\ s_error' = FALSE
        /\ s_sect_len' = 0 /\ cut' = FALSE
    BY DEF Cleared
  <1>2. loose' = (loose \/ Has("INSECTION"))
    BY DEF Cleared
  <1>3. flags' \subseteq Flags /\ text' \in Seq(Bytes) /\ s_sect_len' \in Int
    BY <1>0, <1>1, EmptySeq DEF TextTypeOK
  <1>4. s_error' \in BOOLEAN /\ cut' \in BOOLEAN
    BY <1>1
  <1>5. loose' \in BOOLEAN
    BY <1>0, <1>2 DEF TextTypeOK
  <1>6. Has("INSECTION")' <=> Has("INSECTION")
    BY <1>1 DEF Has
  <1>7. ~loose' => ~loose /\ ~Has("INSECTION")
    BY <1>2
  <1>8. ~loose' => s_sect_len = 0
    BY <1>0, <1>7 DEF Nested
  <1>9. Nested' /\ Measured'
    BY <1>0, <1>1, <1>6, <1>7, <1>8, 0 \in Int, Sections
  <1> QED
    BY <1>1, <1>3, <1>4, <1>5, <1>9

LEMMA ClearCore ==
    ASSUME IInv, sbuf_clear
    PROVE  Core'
  <1>0. TextTypeOK /\ Conserved
    BY DEF IInv, Core, Within
  <1>1. /\ pc = "idle" /\ Has("SBUF") /\ Cleared /\ sent' = out
        /\ UNCHANGED <<s_size, drain, given, heap, overrun, saved, marks, pc, todo, out>>
    BY DEF sbuf_clear, string, stray, caller
  <1>2. /\ flags' \subseteq Flags /\ text' = <<>> /\ text' \in Seq(Bytes)
        /\ s_error' \in BOOLEAN /\ s_sect_len' \in Int
        /\ cut' \in BOOLEAN /\ loose' \in BOOLEAN
        /\ Nested' /\ Measured'
    BY <1>1, ClearedFacts
  <1>3. TextTypeOK'
    BY <1>0, <1>1, <1>2 DEF TextTypeOK
  <1>4. Sound'
    <2>1. Len(text') < s_size
      BY <1>1, <1>2 DEF IInv, Core, Within, TextTypeOK
    <2>2. flags' = flags \ {"FINISHED"}
      BY <1>1 DEF Cleared
    <2> QED
      BY <1>1, <1>3, <2>1, <2>2, Moved
  <1>5. Conserved'
    <2>1. todo = <<>>
      BY <1>0, <1>1 DEF Conserved
    <2>2. out \o (<<>> \o <<>>) = out
      BY <1>0, ConcatEmptySeq DEF TextTypeOK
    <2> QED
      BY <1>1, <1>2, <2>1, <2>2 DEF Conserved
  <1> QED
    BY <1>2, <1>4, <1>5 DEF IInv, Core, Sound

\* After a call that leaves everything that is counted as it is.
LEMMA StillCore ==
    ASSUME IInv, TextTypeOK', Sound',
           UNCHANGED <<s_error, s_sect_len, text, saved, marks, todo, sent, out, cut, loose>>,
           Has("INSECTION")' <=> Has("INSECTION"),
           pc' = "pad" => pc = "pad",
           pc' = "print" => pc = "print",
           pc' \in {"idle", "finish"} => todo = <<>>
    PROVE  Core'
  <1>0. TextTypeOK /\ Conserved /\ Nested /\ Measured
    BY DEF IInv, Core, Within
  <1>1. s_sect_len \in Int /\ Len(sent) \in Nat /\ Len(todo) \in Nat
    BY <1>0 DEF TextTypeOK
  <1>2. Conserved'
    BY <1>0 DEF Conserved
  <1>3. Nested'
    BY <1>0 DEF Nested
  <1>4. Measured'
    BY <1>0 DEF Measured
  <1> QED
    BY <1>2, <1>3, <1>4 DEF IInv, Core, Sound

LEMMA QuietCore ==
    ASSUME IInv, NEW on \in BOOLEAN, sbuf_set_drain(on) \/ sbuf_finish
    PROVE  Core'
  <1>0. TextTypeOK
    BY DEF IInv, Core, Within
  <1>1. /\ Unfinished
        /\ UNCHANGED <<flags, text, s_size, s_error, s_sect_len, given, heap, overrun, saved,
                       marks, todo, sent, out, cut, loose>>
        /\ pc' \in {"idle", "finish"} /\ pc = "idle"
    BY DEF sbuf_set_drain, sbuf_finish, struct, string, stray, caller, flaws, Unfinished
  <1>2. drain' \in BOOLEAN
    BY <1>0 DEF sbuf_set_drain, sbuf_finish, struct, TextTypeOK
  <1>3. TextTypeOK'
    BY <1>0, <1>1, <1>2 DEF TextTypeOK
  <1>4. Has("SBUF") /\ Len(text) < s_size
    BY <1>1, Alive
  <1>5. Sound'
    BY <1>1, <1>3, <1>4, Moved
  <1>6. Has("INSECTION")' <=> Has("INSECTION")
    BY <1>1 DEF Has
  <1>7. todo = <<>>
    BY <1>1 DEF IInv, Core, Conserved
  <1> QED
    BY <1>1, <1>3, <1>5, <1>6, <1>7, StillCore

LEMMA SetposCore ==
    ASSUME IInv, NEW pos \in 0 .. Len(text), sbuf_setpos(pos)
    PROVE  Core'
  <1>0. TextTypeOK /\ Conserved /\ Nested /\ Measured
    BY DEF IInv, Core, Within
  <1>1. /\ Unfinished /\ pc = "idle" /\ ~Has("INSECTION")
        /\ text' = Chunk(text, pos)
        /\ sent' = Chunk(sent, Len(sent) - (Len(text) - pos))
        /\ UNCHANGED <<flags, s_size, s_error, s_sect_len, drain, given, heap, overrun,
                       saved, marks, pc, todo, out, cut, loose>>
    BY DEF sbuf_setpos, struct, string, stray, caller, flaws, Unfinished
  <1>2. /\ text \in Seq(Bytes) /\ sent \in Seq(Bytes) /\ out \in Seq(Bytes)
        /\ Len(text) \in Nat /\ Len(sent) \in Nat
    BY <1>0 DEF TextTypeOK
  <1>3. text' \in Seq(Bytes) /\ Len(text') = pos
    <2>1. Chunk(text, pos) \in Seq(Bytes) /\ Len(Chunk(text, pos)) = pos
      BY ONLY <1>2, pos \in 0 .. Len(text), ChunkFacts
    <2> QED
      BY <1>1, <2>1
  <1>4. PICK n \in Int : n = Len(sent) - (Len(text) - pos) /\ n <= Len(sent)
    <2>1. Len(sent) - (Len(text) - pos) \in Int /\ Len(sent) - (Len(text) - pos) <= Len(sent)
      BY <1>2
    <2> QED
      BY <2>1
  <1>5. sent' \in Seq(Bytes)
    BY <1>1, <1>2, <1>4, ChunkFacts
  <1>6. TextTypeOK'
    BY <1>0, <1>1, <1>3, <1>5 DEF TextTypeOK
  <1>7. Sound'
    <2>1. Has("SBUF") /\ Len(text) < s_size
      BY <1>1, Alive
    <2>2. Len(text') < s_size
      BY <1>0, <1>2, <1>3, <2>1 DEF TextTypeOK
    <2> QED
      BY <1>1, <1>6, <2>1, <2>2, Moved
  <1>8. Conserved'
    <2>1. todo = <<>>
      BY <1>0, <1>1 DEF Conserved
    <2>2. ASSUME ~s_error, ~cut PROVE sent' = out \o text'
      <3>1. sent = out \o text
        BY <1>0, <1>2, <2>1, <2>2, ConcatEmptySeq DEF Conserved
      <3>2. PICK k \in 0 .. Len(text) : k = Len(text) - pos
        <4>1. Len(text) - pos \in 0 .. Len(text)
          BY <1>2
        <4> QED
          BY <4>1
      <3>3. Chunk(sent, Len(sent) - k) = out \o Chunk(text, Len(text) - k)
        BY <1>2, <3>1, CutKeeps
      <3>4. Len(text) - k = pos
        BY <1>2, <3>2
      <3> QED
        BY <1>1, <3>2, <3>3, <3>4
    <2>3. text' \o <<>> = text'
      BY <1>3, ConcatEmptySeq
    <2> QED
      BY <1>1, <2>1, <2>2, <2>3 DEF Conserved
  <1>9. Nested' /\ Measured'
    <2>1. Has("INSECTION")' <=> Has("INSECTION")
      BY <1>1 DEF Has
    <2>2. s_sect_len + 0 = s_sect_len
      BY <1>0 DEF TextTypeOK
    <2> QED
      BY <1>0, <1>1, <2>1, <2>2, 0 \in Int, Sections
  <1> QED
    BY <1>7, <1>8, <1>9 DEF IInv, Core, Sound

LEMMA TrimCore ==
    ASSUME IInv, sbuf_trim
    PROVE  Core'
  <1>0. TextTypeOK /\ Conserved /\ Nested /\ Measured
    BY DEF IInv, Core, Within
  <1>1. /\ text \in Seq(Bytes) /\ sent \in Seq(Bytes) /\ out \in Seq(Bytes)
        /\ Len(text) \in Nat /\ Len(sent) \in Nat /\ s_sect_len \in Int
    BY <1>0 DEF TextTypeOK
  <1>2. PICK k \in 0 .. Len(text) : k = Blanks(text)
    BY <1>1, BlanksFacts
  <1>3. /\ Unfinished /\ pc = "idle" /\ ~s_error
        /\ text' = Chunk(text, Len(text) - k)
        /\ sent' = Chunk(sent, Len(sent) - k)
        /\ s_sect_len' = IF Has("INSECTION") THEN s_sect_len - k ELSE s_sect_len
        /\ UNCHANGED <<flags, s_size, s_error, drain, given, heap, overrun,
                       saved, marks, pc, todo, out, cut>>
    BY <1>2 DEF sbuf_trim, string, stray, caller, Unfinished
  <1>4. loose' = (loose \/ (Has("INSECTION") /\ s_sect_len < k))
    BY <1>2 DEF sbuf_trim
  <1>5. PICK m \in Nat : m = Len(text) - k /\ m <= Len(text)
    <2>1. Len(text) - k \in Nat /\ Len(text) - k <= Len(text)
      BY <1>1
    <2> QED
      BY <2>1
  <1>6. PICK n \in Int : n = Len(sent) - k /\ n <= Len(sent)
    <2>1. Len(sent) - k \in Int /\ Len(sent) - k <= Len(sent)
      BY <1>1
    <2> QED
      BY <2>1
  <1>7. /\ text' \in Seq(Bytes) /\ Len(text') = m
        /\ sent' \in Seq(Bytes)
        /\ n >= 0 => Len(sent') = n
    <2>1. Chunk(text, m) \in Seq(Bytes) /\ Len(Chunk(text, m)) = m
      BY <1>1, <1>5, ChunkFacts, m \in Int, m >= 0
    <2>2. Chunk(sent, n) \in Seq(Bytes) /\ (n >= 0 => Len(Chunk(sent, n)) = n)
      BY <1>1, <1>6, ChunkFacts
    <2> QED
      BY <1>3, <1>5, <1>6, <2>1, <2>2
  <1>8. TextTypeOK'
    <2>1. s_sect_len' \in Int
      BY <1>1, <1>3
    <2>2. loose' \in BOOLEAN
      BY <1>0, <1>4 DEF TextTypeOK
    <2> QED
      BY <1>0, <1>3, <1>7, <2>1, <2>2 DEF TextTypeOK
  <1>9. Sound'
    <2>1. Has("SBUF") /\ Len(text) < s_size
      BY <1>3, Alive
    <2>2. Len(text') < s_size
      BY <1>0, <1>1, <1>5, <1>7, <2>1 DEF TextTypeOK
    <2> QED
      BY <1>3, <1>8, <2>1, <2>2, Moved
  <1>10. todo = <<>>
    BY <1>0, <1>3 DEF Conserved
  <1>11. ~cut => sent = out \o text
    BY <1>0, <1>1, <1>3, <1>10, ConcatEmptySeq DEF Conserved
  <1>12. ASSUME ~cut PROVE sent' = out \o text' /\ n >= 0
    <2>1. /\ Len(sent) - k \in Nat
          /\ Chunk(sent, Len(sent) - k) = out \o Chunk(text, Len(text) - k)
      <3>1. PICK s \in Seq(Bytes) : s = sent /\ s = out \o text
        BY <1>1, <1>11, <1>12
      <3>2. /\ Len(out \o text) - k \in Nat
            /\ Chunk(out \o text, Len(out \o text) - k) = out \o Chunk(text, Len(text) - k)
        BY <1>1, CutKeeps
      <3> QED
        BY <3>1, <3>2
    <2> QED
      BY <1>3, <1>6, <2>1
  <1>13. Conserved'
    <2>1. text' \o <<>> = text'
      BY <1>7, ConcatEmptySeq
    <2> QED
      BY <1>3, <1>10, <1>12, <2>1 DEF Conserved
  <1>14. Nested' /\ Measured'
    <2>1. Has("INSECTION")' <=> Has("INSECTION")
      BY <1>3 DEF Has
    <2>2. PICK d \in Int : d = -k
      BY <1>2
    <2>3. s_sect_len' = IF Has("INSECTION") THEN s_sect_len + d ELSE s_sect_len
      BY <1>1, <1>3, <2>2
    <2>4. ASSUME ~loose' PROVE ~loose /\ (Has("INSECTION") => s_sect_len + d >= 0)
      <3>1. ~loose /\ ~(Has("INSECTION") /\ s_sect_len < k)
        BY <1>4, <2>4
      <3> QED
        BY <1>1, <2>2, <3>1
    <2>5. ASSUME ~cut'
          PROVE  ~s_error /\ ~cut /\ Len(sent') - Len(todo') = Len(sent) - Len(todo) + d
      <3>1. Len(todo) = 0 /\ todo' = todo
        BY <1>3, <1>10
      <3>2. ~cut /\ n >= 0
        BY <1>3, <1>12, <2>5
      <3>3. Len(sent') = n
        BY <1>7, <3>2
      <3>4. Len(sent') - 0 = Len(sent) - 0 + d
        BY <1>1, <1>6, <2>2, <3>3
      <3> QED
        BY <1>3, <3>1, <3>2, <3>4
    <2> QED
      BY <1>0, <1>3, <2>1, <2>3, <2>4, <2>5, Sections
  <1> QED
    BY <1>9, <1>13, <1>14 DEF IInv, Core, Sound

-----------------------------------------------------------------------------
(* Appending *)

LEMMA CatCore ==
    ASSUME IInv, NEW s \in Strings, sbuf_bcat(s) \/ sbuf_vprintf(s)
    PROVE  Core'
  <1>0. TextTypeOK /\ Conserved /\ Nested /\ Measured
    BY DEF IInv, Core, Within
  <1>1. /\ Unfinished /\ pc = "idle" /\ ~s_error /\ sent' = sent \o s /\ todo' = s
        /\ pc' \in {"put", "print"}
        /\ UNCHANGED <<flags, s_size, s_error, s_sect_len, drain, given, text, heap,
                       overrun, saved, marks, out, cut, loose>>
    BY DEF sbuf_bcat, sbuf_vprintf, Promise, struct, string, stray, caller, flaws, Unfinished
  <1>2. /\ text \in Seq(Bytes) /\ sent \in Seq(Bytes) /\ out \in Seq(Bytes) /\ s \in Seq(Bytes)
        /\ s_sect_len \in Int
    BY <1>0, StringsAssumption DEF TextTypeOK
  <1>3. sent' \in Seq(Bytes) /\ Len(sent') = Len(sent) + Len(s)
    BY <1>1, <1>2, Joined
  <1>4. TextTypeOK'
    BY <1>0, <1>1, <1>2, <1>3 DEF TextTypeOK
  <1>5. Sound'
    <2>1. Has("SBUF") /\ Len(text) < s_size
      BY <1>1, Alive
    <2> QED
      BY <1>1, <1>4, <2>1, Moved
  <1>6. todo = <<>>
    BY <1>0, <1>1 DEF Conserved
  <1>7. Conserved'
    <2>1. ASSUME ~s_error, ~cut PROVE sent' = out \o (text \o s)
      <3>1. sent = out \o text
        BY <1>0, <1>2, <1>6, <2>1, ConcatEmptySeq DEF Conserved
      <3> QED
        BY <1>1, <1>2, <3>1, Regrouped
    <2> QED
      BY <1>1, <2>1 DEF Conserved
  <1>8. Nested' /\ Measured'
    <2>1. Has("INSECTION")' <=> Has("INSECTION")
      BY <1>1 DEF Has
    <2>2. s_sect_len + 0 = s_sect_len
      BY <1>2
    <2>3. ~loose /\ Has("INSECTION") => s_sect_len >= 0
      BY <1>0 DEF Nested
    <2>4. Len(sent') - Len(todo') = Len(sent) - Len(todo) + 0
      <3>1. Len(sent) \in Nat /\ Len(s) \in Nat /\ Len(todo) = 0 /\ Len(todo') = Len(s)
        BY <1>1, <1>2, <1>6
      <3> QED
        BY <1>3, <3>1
    <2> QED
      BY <1>0, <1>1, <2>1, <2>2, <2>3, <2>4, 0 \in Int, Sections
  <1> QED
    BY <1>5, <1>7, <1>8 DEF IInv, Core, Sound

LEMMA CpyCore ==
    ASSUME IInv, NEW s \in Strings, sbuf_bcpy(s)
    PROVE  Core'
  <1>0. TextTypeOK
    BY DEF IInv, Core, Within
  <1>1. /\ Unfinished /\ Cleared /\ sent' = out \o s /\ todo' = s /\ pc' = "put"
        /\ UNCHANGED <<s_size, drain, given, heap, overrun, saved, marks, out>>
    BY DEF sbuf_bcpy, string, stray, caller
  <1>2. Has("SBUF") /\ Len(text) < s_size
    BY <1>1, Alive
  <1>3. /\ flags' \subseteq Flags /\ text' = <<>> /\ text' \in Seq(Bytes)
        /\ s_error' \in BOOLEAN /\ s_sect_len' \in Int
        /\ cut' \in BOOLEAN /\ loose' \in BOOLEAN
        /\ Nested' /\ Measured'
    BY <1>1, <1>2, ClearedFacts
  <1>4. out \in Seq(Bytes) /\ s \in Seq(Bytes)
    BY <1>0, StringsAssumption DEF TextTypeOK
  <1>5. TextTypeOK'
    <2>1. sent' \in Seq(Bytes) /\ todo' \in Seq(Bytes)
      BY <1>1, <1>4, Joined
    <2> QED
      BY <1>0, <1>1, <1>3, <2>1 DEF TextTypeOK
  <1>6. Sound'
    <2>1. Len(text') < s_size
      BY <1>0, <1>2, <1>3 DEF TextTypeOK
    <2>2. flags' = flags \ {"FINISHED"}
      BY <1>1 DEF Cleared
    <2> QED
      BY <1>1, <1>2, <1>5, <2>1, <2>2, Moved
  <1>7. Conserved'
    <2>1. <<>> \o s = s
      BY <1>4, ConcatEmptySeq
    <2> QED
      BY <1>1, <1>3, <2>1 DEF Conserved
  <1> QED
    BY <1>3, <1>6, <1>7 DEF IInv, Core, Sound

\* What a store does, to the string t that the drain has left.
LEMMA StoreFacts ==
    ASSUME IInv, Appending, NEW t \in Seq(Bytes), NEW size \in Nat,
           Store(todo[1], t, size), Len(t) + 1 < size,
           UNCHANGED <<s_error, saved, marks, pc, sent, cut, loose>>,
           Has("INSECTION")' <=> Has("INSECTION")
    PROVE  /\ text' \in Seq(Bytes) /\ Len(text') = Len(t) + 1
           /\ todo' \in Seq(Bytes) /\ text' \o todo' = t \o todo
           /\ overrun' = FALSE /\ s_sect_len' \in Int
           /\ Nested' /\ Measured'
  <1>0. TextTypeOK /\ Nested /\ Measured /\ ~overrun
    BY DEF IInv, Core, Within
  <1>1. /\ text' = Append(t, todo[1]) /\ todo' = Tail(todo)
        /\ s_sect_len' = IF Has("INSECTION") THEN s_sect_len + 1 ELSE s_sect_len
        /\ todo # <<>> /\ todo \in Seq(Bytes) /\ s_sect_len \in Int
    BY <1>0 DEF Store, Stored, Appending, TextTypeOK
  <1>2. /\ text' \in Seq(Bytes) /\ Len(text') = Len(t) + 1
        /\ todo' \in Seq(Bytes) /\ text' \o todo' = t \o todo
        /\ Len(todo') = Len(todo) - 1 /\ Len(todo) \in Nat \ {0}
    BY <1>1, StoreKeeps
  <1>3. overrun' = FALSE
    <2>1. overrun' = (overrun \/ Len(t) >= size)
      BY DEF Store
    <2>2. ~(Len(t) >= size)
      OBVIOUS
    <2> QED
      BY <1>0, <2>1, <2>2
  <1>4. s_sect_len' \in Int
    BY <1>1
  <1>5. Nested' /\ Measured'
    <2>1. Len(sent') - Len(todo') = Len(sent) - Len(todo) + 1
      <3>1. Len(sent) \in Nat
        BY <1>0 DEF TextTypeOK
      <3> QED
        BY <1>2, <3>1
    <2>2. ~loose /\ Has("INSECTION") => s_sect_len + 1 >= 0
      BY <1>0, <1>1 DEF Nested
    <2>3. ~s_error
      BY DEF Appending
    <2>4. ~loose' /\ ~s_error' /\ ~cut' => ~s_error /\ ~cut
      OBVIOUS
    <2> QED
      BY <1>0, <1>1, <2>1, <2>2, <2>3, <2>4, 1 \in Int, Sections
  <1> QED
    BY <1>2, <1>3, <1>4, <1>5

LEMMA PutCore ==
    ASSUME IInv, put_byte \/ put_byte_drained
    PROVE  Core'
  <1>0. TextTypeOK /\ Conserved
    BY DEF IInv, Core, Within
  <1>1. /\ Appending /\ pc # "idle" /\ pc # "finish"
        /\ UNCHANGED <<flags, s_size, s_error, drain, given, heap, saved, marks, pc, sent, cut, loose>>
    BY DEF put_byte, put_byte_drained, caller, flaws, Appending
  <1>2. Has("SBUF") /\ Len(text) < s_size
    BY <1>1, Alive
  <1>3. /\ text \in Seq(Bytes) /\ out \in Seq(Bytes) /\ todo \in Seq(Bytes)
        /\ s_size \in Nat /\ Len(text) \in Nat
    BY <1>0 DEF TextTypeOK
  <1>4. PICK t \in Seq(Bytes) : /\ Store(todo[1], t, s_size) /\ Len(t) + 1 < s_size
                               /\ out' \in Seq(Bytes)
                               /\ out' \o (t \o todo) = out \o (text \o todo)
    <2>1. CASE put_byte
      <3>1. Len(text) + 1 < s_size
        BY <1>3, <2>1 DEF put_byte, Full, Free, s_len
      <3> QED
        BY <1>3, <2>1, <3>1 DEF put_byte
    <2>2. CASE put_byte_drained
      <3>1. PICK k \in 1 .. Len(text) : /\ out' = out \o Chunk(text, k)
                                       /\ Store(todo[1], Rest(text, k), s_size)
        BY <2>2 DEF put_byte_drained
      <3>2. k \in 0 .. Len(text)
        BY <1>3
      <3>3. PICK t \in Seq(Bytes) : t = Rest(text, k) /\ Len(t) = Len(text) - k
        BY <1>3, <3>2, RestFacts
      <3>4. Len(t) + 1 < s_size
        BY <1>2, <1>3, <3>3
      <3>5. out' \in Seq(Bytes) /\ out' \o (t \o todo) = out \o (text \o todo)
        <4>1. /\ out \o Chunk(text, k) \in Seq(Bytes)
              /\ (out \o Chunk(text, k)) \o (Rest(text, k) \o todo) = out \o (text \o todo)
          BY <1>3, <3>2, DrainKeeps
        <4> QED
          BY <3>1, <3>3, <4>1
      <3> QED
        BY <3>1, <3>3, <3>4, <3>5
    <2> QED
      BY <2>1, <2>2
  <1>5. Has("INSECTION")' <=> Has("INSECTION")
    BY <1>1 DEF Has
  <1>6. /\ text' \in Seq(Bytes) /\ Len(text') = Len(t) + 1
        /\ todo' \in Seq(Bytes) /\ text' \o todo' = t \o todo
        /\ overrun' = FALSE /\ s_sect_len' \in Int
        /\ Nested' /\ Measured'
    BY <1>1, <1>3, <1>4, <1>5, StoreFacts
  <1>7. TextTypeOK'
    BY <1>0, <1>1, <1>4, <1>6 DEF TextTypeOK
  <1>8. Sound'
    <2>1. overrun' = overrun
      BY <1>6 DEF IInv, Core, Within, TextTypeOK
    <2> QED
      BY <1>1, <1>2, <1>4, <1>6, <1>7, <2>1, Moved
  <1>9. Conserved'
    BY <1>0, <1>1, <1>4, <1>6 DEF Conserved
  <1> QED
    BY <1>6, <1>8, <1>9 DEF IInv, Core, Sound

\* While s_len is negative there is no string, and the section counts the byte.
LEMMA PutBeforeCore ==
    ASSUME IInv, put_byte_before
    PROVE  Core'
  <1>0. TextTypeOK /\ Conserved /\ Nested /\ Measured /\ cut
    BY DEF IInv, Core, Within, Short, TypeOK, put_byte_before
  <1>1. /\ Appending /\ pc # "idle" /\ pc # "finish" /\ todo' = Tail(todo)
        /\ s_sect_len' = IF Has("INSECTION") THEN s_sect_len + 1 ELSE s_sect_len
        /\ UNCHANGED <<flags, s_size, s_error, drain, given, text, heap, overrun, saved,
                       marks, pc, sent, out, cut, loose>>
    BY DEF put_byte_before, Stored, caller, flaws, Appending
  <1>2. Has("SBUF") /\ Len(text) < s_size
    BY <1>1, Alive
  <1>3. todo \in Seq(Bytes) /\ todo # <<>> /\ s_sect_len \in Int
    BY <1>0, <1>1 DEF Appending, TextTypeOK
  <1>4. todo' \in Seq(Bytes) /\ s_sect_len' \in Int
    BY <1>1, <1>3
  <1>5. TextTypeOK'
    BY <1>0, <1>1, <1>4 DEF TextTypeOK
  <1>6. Sound'
    BY <1>1, <1>2, <1>5, Moved
  <1>7. Conserved'
    BY <1>0, <1>1 DEF Conserved
  <1>8. Nested' /\ Measured'
    <2>1. Has("INSECTION")' <=> Has("INSECTION")
      BY <1>1 DEF Has
    <2>2. ~loose /\ Has("INSECTION") => s_sect_len + 1 >= 0
      BY <1>0, <1>3 DEF Nested
    <2> QED
      BY <1>0, <1>1, <2>1, <2>2, 1 \in Int, Sections
  <1> QED
    BY <1>6, <1>7, <1>8 DEF IInv, Core, Sound

\* A buffer that is extended is big enough for the string, and accounted for.
LEMMA ExtendFacts ==
    ASSUME IInv, Has("SBUF"), NEW add \in Nat, sbuf_extend(add)
    PROVE  /\ s_size' \in Nat /\ s_size' >= s_size + add /\ s_size' = sbuf_extendsize(s_size + add)
           /\ flags' \subseteq Flags /\ given' = FALSE /\ given' \in BOOLEAN
           /\ heap' \in 0 .. 2
           /\ Has("SBUF")'
           /\ Has("INSECTION")' <=> Has("INSECTION")
           /\ BlocksAccounted'
  <1>0. TextTypeOK /\ BlocksAccounted
    BY DEF IInv, Core, Within
  <1>1. /\ s_size' = sbuf_extendsize(s_size + add) /\ flags' = flags \cup {"DYNAMIC"}
        /\ heap' = (IF Has("DYNAMIC") THEN heap ELSE heap + 1) /\ given' = FALSE
    BY DEF sbuf_extend
  <1>2. s_size + add \in Nat
    BY <1>0 DEF TextTypeOK
  <1>3. /\ Has("SBUF")' /\ Has("DYNAMIC")'
        /\ Has("INSECTION")' <=> Has("INSECTION")
        /\ Has("DYNSTRUCT")' <=> Has("DYNSTRUCT")
    BY <1>1 DEF Has
  <1>4. heap' = 1 + (IF Has("DYNSTRUCT") THEN 1 ELSE 0)
    BY <1>0, <1>1 DEF BlocksAccounted
  <1>5. BlocksAccounted'
    BY <1>1, <1>3, <1>4 DEF BlocksAccounted
  <1>6. flags' \subseteq Flags
    BY <1>0, <1>1 DEF TextTypeOK, Flags
  <1>7. given' = FALSE /\ given' \in BOOLEAN
    BY <1>1
  <1>8. heap' \in 0 .. 2
    BY <1>4
  <1>9. s_size' \in Nat /\ s_size' >= s_size + add
    BY <1>1, <1>2, ExtendsizeFacts
  <1> QED
    BY <1>1, <1>3, <1>5, <1>6, <1>7, <1>8, <1>9

LEMMA PutExtendedCore ==
    ASSUME IInv, put_byte_extended
    PROVE  Core'
  <1>0. TextTypeOK /\ Conserved
    BY DEF IInv, Core, Within
  <1>1. /\ Appending /\ pc # "idle" /\ pc # "finish"
        /\ sbuf_extend(1) /\ Store(todo[1], text, sbuf_extendsize(s_size + 1))
        /\ UNCHANGED <<s_error, drain, saved, marks, pc, sent, out, cut, loose>>
    BY DEF put_byte_extended, string, stray, caller, flaws, Appending
  <1>2. Has("SBUF") /\ Len(text) < s_size
    BY <1>1, Alive
  <1>3. /\ text \in Seq(Bytes) /\ out \in Seq(Bytes) /\ todo \in Seq(Bytes)
        /\ s_size \in Nat /\ Len(text) \in Nat
    BY <1>0 DEF TextTypeOK
  <1>4. PICK size \in Nat : size = s_size' /\ size >= s_size + 1
    BY <1>1, <1>2, ExtendFacts, 1 \in Nat
  <1>5. /\ flags' \subseteq Flags /\ given' \in BOOLEAN /\ heap' \in 0 .. 2 /\ Has("SBUF")'
        /\ Has("INSECTION")' <=> Has("INSECTION")
        /\ BlocksAccounted' /\ s_size' = sbuf_extendsize(s_size + 1)
    BY <1>1, <1>2, ExtendFacts, 1 \in Nat
  <1>6. Store(todo[1], text, size) /\ Len(text) + 1 < size
    BY <1>1, <1>2, <1>3, <1>4, <1>5
  <1>7. /\ text' \in Seq(Bytes) /\ Len(text') = Len(text) + 1
        /\ todo' \in Seq(Bytes) /\ text' \o todo' = text \o todo
        /\ overrun' = FALSE /\ s_sect_len' \in Int
        /\ Nested' /\ Measured'
    BY <1>1, <1>3, <1>5, <1>6, StoreFacts
  <1>8. overrun' \in BOOLEAN
    BY <1>7
  <1>9. TextTypeOK'
    BY <1>0, <1>1, <1>4, <1>5, <1>7, <1>8 DEF TextTypeOK
  <1>10. Within' /\ NoBuffer'
    BY <1>4, <1>5, <1>6, <1>7, <1>9 DEF Within, NoBuffer
  <1>11. Conserved'
    BY <1>0, <1>1, <1>7 DEF Conserved
  <1> QED
    BY <1>5, <1>7, <1>10, <1>11 DEF IInv, Core

\* A call that fails is left with s_error, and with everything else as it was.
LEMMA FailedCore ==
    ASSUME IInv, put_byte_full \/ put_byte_fails \/ finish_fails
    PROVE  Core'
  <1>0. TextTypeOK /\ Conserved /\ Nested
    BY DEF IInv, Core, Within
  <1>1. /\ pc # "idle" /\ pc # "print" /\ s_error' = TRUE
        /\ UNCHANGED <<flags, s_size, s_sect_len, drain, given, text, heap, overrun,
                       saved, marks, pc, todo, sent, out, cut, loose>>
    BY DEF put_byte_full, put_byte_fails, finish_fails, Failed, Appending, string, stray, caller, flaws
  <1>2. s_error' \in BOOLEAN
    BY <1>1
  <1>3. TextTypeOK'
    BY <1>0, <1>1, <1>2 DEF TextTypeOK
  <1>4. Has("SBUF") /\ Len(text) < s_size
    BY <1>1, Alive
  <1>5. Sound'
    BY <1>1, <1>3, <1>4, Moved
  <1>6. Conserved' /\ Measured'
    BY <1>0, <1>1 DEF Conserved, Measured
  <1>7. Nested'
    BY <1>0, <1>1 DEF Nested, Has
  <1> QED
    BY <1>5, <1>6, <1>7 DEF IInv, Core, Sound

LEMMA PutEndCore ==
    ASSUME IInv, put_end
    PROVE  Core'
  <1>0. TextTypeOK /\ Conserved /\ Nested /\ Measured
    BY DEF IInv, Core, Within
  <1>1. /\ pc = "put" /\ pc' = "idle" /\ todo' = <<>> /\ (todo = <<>> \/ s_error)
        /\ UNCHANGED <<flags, s_size, s_error, s_sect_len, drain, given, text, heap,
                       overrun, saved, marks, sent, out, cut, loose>>
    BY DEF put_end, struct, string, stray, caller, flaws
  <1>2. Has("SBUF") /\ Len(text) < s_size
    BY <1>1, Alive
  <1>3. TextTypeOK'
    <2>1. todo' \in Seq(Bytes)
      BY <1>1, EmptySeq
    <2> QED
      BY <1>0, <1>1, <2>1 DEF TextTypeOK
  <1>4. Sound'
    BY <1>1, <1>2, <1>3, Moved
  <1>5. Conserved'
    BY <1>0, <1>1 DEF Conserved
  <1>6. Nested'
    BY <1>0, <1>1 DEF Nested, Has
  <1>7. Measured'
    BY <1>0, <1>1 DEF Measured
  <1> QED
    BY <1>4, <1>5, <1>6, <1>7 DEF IInv, Core, Sound

\* What is printed is added to s_len, whether or not it is below 0.
LEMMA PrintedLength ==
    ASSUME IInv, NEW s \in Seq(Bytes), NEW err \in BOOLEAN, Printed(s, err)
    PROVE  s_len' = s_len + Len(s)
  <1>1. text \in Seq(Bytes) /\ Len(text) \in Nat /\ under \in Nat /\ Len(s) \in Nat
    BY DEF IInv, Short, TypeOK, TextTypeOK
  <1>2. /\ text' = text \o Rest(s, under)
        /\ under' = IF Len(s) < under THEN under - Len(s) ELSE 0
    BY DEF Printed
  <1>3. /\ Rest(s, under) \in Seq(Bytes)
        /\ Len(Rest(s, under)) = IF under <= Len(s) THEN Len(s) - under ELSE 0
    BY <1>1, RestAny
  <1>4. Len(text') = Len(text) + Len(Rest(s, under))
    BY <1>1, <1>2, <1>3, Joined
  <1>5. CASE Len(s) < under
    <2>1. Len(text') = Len(text) /\ under' = under - Len(s)
      BY <1>1, <1>2, <1>3, <1>4, <1>5
    <2> QED
      BY <1>1, <2>1 DEF s_len
  <1>6. CASE ~(Len(s) < under)
    <2>1. Len(text') = Len(text) + (Len(s) - under) /\ under' = 0
      BY <1>1, <1>2, <1>3, <1>4, <1>6
    <2> QED
      BY <1>1, <2>1 DEF s_len
  <1> QED
    BY <1>5, <1>6

\* The end of sbuf_vprintf, with the text or as much of it as fits.
LEMMA PrintedCore ==
    ASSUME IInv, pc = "print", NEW s \in Seq(Bytes), NEW err \in BOOLEAN, Printed(s, err),
           s_len + Len(s) < s_size,
           loose' = loose, cut' \in BOOLEAN, cut => cut',
           s = todo \/ s_error' \/ cut'
    PROVE  Core'
  <1>0. TextTypeOK /\ Conserved /\ Nested /\ Measured
    BY DEF IInv, Core, Within
  <1>1. /\ text' = text \o Rest(s, under)
        /\ s_sect_len' = IF Has("INSECTION") THEN s_sect_len + Len(s) ELSE s_sect_len
        /\ pc' = "idle" /\ todo' = <<>>
        /\ UNCHANGED <<flags, s_size, drain, given, heap, overrun, saved, marks, sent, out>>
    BY DEF Printed, string, stray, caller
  <1>2. s_error' \in BOOLEAN
    BY DEF Printed
  <1>3. /\ text \in Seq(Bytes) /\ out \in Seq(Bytes) /\ sent \in Seq(Bytes)
        /\ todo \in Seq(Bytes) /\ s_sect_len \in Int
        /\ Len(s) \in Nat /\ Len(sent) \in Nat /\ Len(todo) \in Nat
    BY <1>0 DEF TextTypeOK
  <1>4. text' \in Seq(Bytes) /\ Len(text') < s_size
    <2>1. /\ Rest(s, under) \in Seq(Bytes)
          /\ Len(Rest(s, under)) = IF under <= Len(s) THEN Len(s) - under ELSE 0
      BY RestAny DEF IInv, Short, TypeOK
    <2>2. text' \in Seq(Bytes) /\ Len(text') = Len(text) + Len(Rest(s, under))
      BY <1>1, <1>3, <2>1, Joined
    <2>3. Len(text) \in Nat /\ under \in Nat /\ s_size \in Nat /\ Len(text) < s_size
      BY <1>0, Alive DEF TextTypeOK, IInv, Short, TypeOK
    <2>4. under > 0 => Len(text) = 0
      BY DEF IInv, Short
    <2>5. Len(text) - under + Len(s) < s_size
      BY DEF s_len
    <2> QED
      BY <1>3, <2>1, <2>2, <2>3, <2>4, <2>5
  <1>41. ~cut => text' = text \o s
    <2>1. ~cut => under = 0
      BY DEF IInv, Short, TypeOK
    <2> QED
      BY <1>1, <2>1, RestAny, 0 \in Nat
  <1>5. TextTypeOK'
    <2>1. todo' \in Seq(Bytes)
      BY <1>1, EmptySeq
    <2>2. s_sect_len' \in Int
      BY <1>1, <1>3
    <2>3. loose' \in BOOLEAN
      BY <1>0 DEF TextTypeOK
    <2>4. /\ flags' \subseteq Flags /\ s_size' \in Nat /\ heap' \in 0 .. 2
          /\ saved' \in Seq(Int) /\ marks' \in Seq(Nat)
          /\ sent' \in Seq(Bytes) /\ out' \in Seq(Bytes)
          /\ pc' \in {"idle", "put", "print", "finish", "pad"}
      BY <1>0, <1>1 DEF TextTypeOK
    <2>5. drain' \in BOOLEAN /\ given' \in BOOLEAN /\ overrun' \in BOOLEAN
      BY <1>0, <1>1 DEF TextTypeOK
    <2> QED
      BY <1>2, <1>4, <2>1, <2>2, <2>3, <2>4, <2>5 DEF TextTypeOK
  <1>6. Sound'
    <2>1. Has("SBUF")
      BY Alive
    <2>2. Len(text') < s_size
      BY <1>4
    <2> QED
      BY <1>1, <1>5, <2>1, <2>2, Moved
  <1>7. Conserved'
    <2>1. ASSUME ~s_error', ~cut' PROVE sent = out \o text'
      <3>1. s = todo /\ ~cut /\ ~s_error
        BY <1>0, <2>1 DEF Conserved
      <3> QED
        BY <1>0, <1>1, <1>41, <3>1 DEF Conserved
    <2>2. text' \o <<>> = text'
      BY <1>4, ConcatEmptySeq
    <2> QED
      BY <1>1, <2>1, <2>2 DEF Conserved
  <1>8. Nested' /\ Measured'
    <2>1. Has("INSECTION")' <=> Has("INSECTION")
      BY <1>1 DEF Has
    <2>2. ~loose /\ Has("INSECTION") => s_sect_len + Len(s) >= 0
      BY <1>0, <1>3 DEF Nested
    <2>3. ASSUME ~s_error', ~cut'
          PROVE  ~s_error /\ ~cut /\ Len(sent') - Len(todo') = Len(sent) - Len(todo) + Len(s)
      <3>1. s = todo /\ ~cut /\ ~s_error
        BY <1>0, <2>3 DEF Conserved
      <3>2. Len(todo') = 0 /\ sent' = sent
        BY <1>1
      <3> QED
        BY <1>3, <3>1, <3>2
    <2>4. Len(s) \in Int
      BY <1>3
    <2> QED
      BY <1>0, <1>1, <2>1, <2>2, <2>3, <2>4, Sections
  <1> QED
    BY <1>6, <1>7, <1>8 DEF IInv, Core, Sound

LEMMA PrintCore ==
    ASSUME IInv, print_fits \/ print_full \/ print_fails
    PROVE  Core'
  <1>0. TextTypeOK /\ Conserved
    BY DEF IInv, Core, Within
  <1>1. pc = "print"
    BY DEF print_fits, print_full, print_fails, Attempt
  <1>2. Has("SBUF") /\ Len(text) < s_size
    BY <1>1, Alive
  <1>3. /\ todo \in Seq(Bytes) /\ text \in Seq(Bytes) /\ s_size \in Nat
        /\ Len(text) \in Nat /\ Len(todo) \in Nat /\ under \in Nat
    BY <1>0 DEF TextTypeOK, IInv, Short, TypeOK
  <1>31. PICK l \in Int : l = s_len
    <2>1. s_len \in Int
      BY <1>3 DEF s_len
    <2> QED
      BY <2>1
  <1>4. PICK f \in Nat : f = Free
    <2>1. Free \in Nat
      BY <1>2, <1>3 DEF Free, s_len
    <2> QED
      BY <2>1
  <1>5. f = s_size - (l + 1)
    BY <1>4, <1>31 DEF Free
  <1>6. CASE print_fits
    <2>1. Printed(todo, FALSE) /\ UNCHANGED <<cut, loose>> /\ f >= Len(todo)
      BY <1>4, <1>6 DEF print_fits, flaws
    <2>2. l + Len(todo) < s_size
      BY <1>3, <1>5, <2>1
    <2>3. cut' \in BOOLEAN
      BY <1>0, <2>1 DEF TextTypeOK
    <2> QED
      BY <1>1, <1>3, <1>31, <2>1, <2>2, <2>3, PrintedCore
  <1>7. ASSUME f < Len(todo) PROVE Chunk(todo, f) \in Seq(Bytes) /\ l + Len(Chunk(todo, f)) = s_size - 1
    <2>1. Chunk(todo, f) \in Seq(Bytes) /\ Len(Chunk(todo, f)) = f
      BY <1>3, <1>7, ChunkFacts, f \in Int, f >= 0, f <= Len(todo)
    <2> QED
      BY <1>3, <1>5, <2>1
  <1>8. CASE print_full
    <2>1. /\ Printed(Chunk(todo, f), FALSE) /\ UNCHANGED <<cut, loose>> /\ f < Len(todo)
          /\ ~Has("AUTOEXTEND")
      BY <1>4, <1>8 DEF print_full, flaws
    <2>2. PICK s \in Seq(Bytes) : s = Chunk(todo, f) /\ l + Len(s) = s_size - 1
      BY <1>7, <2>1
    <2>3. s_error'
      <3>1. Printed(s, FALSE) /\ s_error' = (FALSE \/ (s_len' >= s_size - 1 /\ ~Has("AUTOEXTEND")))
        BY <2>1, <2>2 DEF Printed
      <3>2. s_len' = s_size - 1
        BY <1>31, <2>2, <3>1, PrintedLength
      <3>3. s_len' >= s_size - 1
        BY <1>3, <3>2
      <3> QED
        BY <2>1, <3>1, <3>3
    <2>4. cut' \in BOOLEAN
      BY <1>0, <2>1 DEF TextTypeOK
    <2>5. s_len + Len(s) < s_size
      BY <1>3, <1>31, <2>2
    <2> QED
      BY <1>1, <2>1, <2>2, <2>3, <2>4, <2>5, PrintedCore
  <1>9. CASE print_fails
    <2>1. /\ loose' = loose /\ f < Len(todo)
          /\ \/ Printed(Chunk(todo, f), TRUE) /\ cut' = cut
             \/ Printed(Chunk(todo, f), FALSE) /\ cut' = TRUE
      BY <1>4, <1>9 DEF print_fails
    <2>2. PICK s \in Seq(Bytes) : s = Chunk(todo, f) /\ l + Len(s) = s_size - 1
      BY <1>7, <2>1
    <2>3. s_len + Len(s) < s_size
      BY <1>3, <1>31, <2>2
    <2>4. CASE Printed(s, TRUE) /\ cut' = cut
      <3>1. s_error'
        BY <2>4 DEF Printed
      <3>2. cut' \in BOOLEAN
        BY <1>0, <2>4 DEF TextTypeOK
      <3> QED
        BY <1>1, <2>1, <2>3, <2>4, <3>1, <3>2, PrintedCore
    <2>5. CASE Printed(s, FALSE) /\ cut' = TRUE
      <3>1. cut' \in BOOLEAN /\ cut'
        BY <2>5
      <3> QED
        BY <1>1, <2>1, <2>3, <2>5, <3>1, PrintedCore
    <2> QED
      BY <2>1, <2>2, <2>4, <2>5
  <1> QED
    BY <1>6, <1>8, <1>9

\* The last byte goes, and with it one of the section.
LEMMA PrintUnformattedCore ==
    ASSUME IInv, print_unformatted
    PROVE  Core'
  <1>0. TextTypeOK /\ Conserved /\ Nested /\ Measured
    BY DEF IInv, Core, Within
  <1>1. /\ pc = "print" /\ pc' = "idle" /\ todo' = <<>>
        /\ text' = Chunk(text, Len(text) - 1)
        /\ s_sect_len' = IF Has("INSECTION") THEN s_sect_len - 1 ELSE s_sect_len
        /\ cut' = TRUE /\ loose' = (loose \/ (Has("INSECTION") /\ s_sect_len < 1))
        /\ UNCHANGED <<flags, s_size, s_error, drain, given, heap, overrun, saved, marks,
                       sent, out>>
    BY DEF print_unformatted, Attempt, caller
  <1>2. Has("SBUF") /\ Len(text) < s_size
    BY <1>1, Alive
  <1>3. text \in Seq(Bytes) /\ Len(text) \in Nat /\ s_size \in Nat /\ s_sect_len \in Int
    BY <1>0 DEF TextTypeOK
  <1>4. text' \in Seq(Bytes) /\ Len(text') < s_size
    <2>1. PICK k \in Int : k = Len(text) - 1 /\ k <= Len(text)
      <3>1. Len(text) - 1 \in Int /\ Len(text) - 1 <= Len(text)
        BY <1>3
      <3> QED
        BY <3>1
    <2>2. Chunk(text, k) \in Seq(Bytes) /\ (k >= 0 => Len(Chunk(text, k)) = k)
      BY <1>3, <2>1, ChunkFacts
    <2>3. k < 0 => Chunk(text, k) = <<>>
      BY <1>3, <2>1 DEF Chunk
    <2> QED
      BY <1>1, <1>2, <1>3, <2>1, <2>2, <2>3
  <1>5. TextTypeOK'
    <2>1. todo' \in Seq(Bytes) /\ s_sect_len' \in Int
      BY <1>1, <1>3, EmptySeq
    <2>2. cut' \in BOOLEAN /\ loose' \in BOOLEAN
      BY <1>0, <1>1 DEF TextTypeOK
    <2> QED
      BY <1>0, <1>1, <1>4, <2>1, <2>2 DEF TextTypeOK
  <1>6. Sound'
    BY <1>1, <1>2, <1>4, <1>5, Moved
  <1>7. Conserved'
    BY <1>1 DEF Conserved
  <1>8. Nested' /\ Measured'
    <2>1. Has("INSECTION")' <=> Has("INSECTION")
      BY <1>1 DEF Has
    <2>2. PICK d \in Int : d = -1
      OBVIOUS
    <2>3. s_sect_len' = IF Has("INSECTION") THEN s_sect_len + d ELSE s_sect_len
      BY <1>1, <1>3, <2>2
    <2>4. ASSUME ~loose' PROVE ~loose /\ (Has("INSECTION") => s_sect_len + d >= 0)
      <3>1. ~loose /\ ~(Has("INSECTION") /\ s_sect_len < 1)
        BY <1>1, <2>4
      <3>2. s_sect_len >= 1 => s_sect_len + d >= 0
        BY <1>3, <2>2
      <3>3. Has("INSECTION") => s_sect_len >= 1
        BY <1>3, <3>1
      <3> QED
        BY <3>1, <3>2, <3>3
    <2> QED
      BY <1>0, <1>1, <2>1, <2>3, <2>4, Sections
  <1> QED
    BY <1>6, <1>7, <1>8 DEF IInv, Core, Sound

LEMMA DrainedCore ==
    ASSUME IInv, print_drained \/ finish_drained
    PROVE  Core'
  <1>0. TextTypeOK /\ Conserved /\ Nested /\ Measured
    BY DEF IInv, Core, Within
  <1>1. /\ pc # "idle" /\ \E k \in 1 .. Len(text) : Drained(k)
        /\ UNCHANGED <<flags, s_size, s_error, s_sect_len, drain, given, heap, overrun,
                       saved, marks, pc, todo, sent, cut, loose>>
    BY DEF print_drained, finish_drained, Attempt, struct, string, stray, caller, flaws
  <1>2. Has("SBUF") /\ Len(text) < s_size
    BY <1>1, Alive
  <1>3. /\ text \in Seq(Bytes) /\ out \in Seq(Bytes) /\ todo \in Seq(Bytes)
        /\ s_size \in Nat /\ Len(text) \in Nat
    BY <1>0 DEF TextTypeOK
  <1>4. PICK k \in 1 .. Len(text) : out' = out \o Chunk(text, k) /\ text' = Rest(text, k)
    BY <1>1 DEF Drained
  <1>5. k \in 0 .. Len(text)
    BY <1>3
  <1>6. /\ text' \in Seq(Bytes) /\ Len(text') = Len(text) - k
        /\ out' \in Seq(Bytes) /\ out' \o (text' \o todo) = out \o (text \o todo)
    BY <1>3, <1>4, <1>5, RestFacts, DrainKeeps
  <1>7. TextTypeOK'
    BY <1>0, <1>1, <1>6 DEF TextTypeOK
  <1>8. Sound'
    <2>1. Len(text') < s_size
      BY <1>2, <1>3, <1>6
    <2> QED
      BY <1>1, <1>2, <1>7, <2>1, Moved
  <1>9. Conserved'
    BY <1>0, <1>1, <1>6 DEF Conserved
  <1>10. Nested'
    BY <1>0, <1>1 DEF Nested, Has
  <1>11. Measured'
    BY <1>0, <1>1 DEF Measured
  <1> QED
    BY <1>8, <1>9, <1>10, <1>11 DEF IInv, Core, Sound

LEMMA PrintExtendedCore ==
    ASSUME IInv, print_extended
    PROVE  Core'
  <1>0. TextTypeOK
    BY DEF IInv, Core, Within
  <1>1. /\ pc = "print" /\ Free < Len(todo) /\ sbuf_extend(Len(todo) - Free)
        /\ UNCHANGED <<text, s_error, s_sect_len, drain, overrun, saved, marks, pc, todo,
                       sent, out, cut, loose>>
    BY DEF print_extended, Attempt, string, stray, caller, flaws
  <1>2. Has("SBUF") /\ Len(text) < s_size
    BY <1>1, Alive
  <1>3. PICK add \in Nat : add = Len(todo) - Free
    <2>1. Len(todo) - Free \in Nat
      <3>1. Len(text) \in Nat /\ Len(todo) \in Nat /\ under \in Nat /\ s_size \in Nat
        BY <1>0 DEF TextTypeOK, IInv, Short, TypeOK
      <3> QED
        BY <1>1, <3>1 DEF Free, s_len
    <2> QED
      BY <2>1
  <1>4. /\ s_size' \in Nat /\ s_size' >= s_size + add
        /\ flags' \subseteq Flags /\ given' \in BOOLEAN /\ heap' \in 0 .. 2 /\ Has("SBUF")'
        /\ Has("INSECTION")' <=> Has("INSECTION")
        /\ BlocksAccounted'
    BY <1>1, <1>2, <1>3, ExtendFacts
  <1>5. TextTypeOK'
    BY <1>0, <1>1, <1>4 DEF TextTypeOK
  <1>6. Len(text') < s_size'
    BY <1>0, <1>1, <1>2, <1>4 DEF TextTypeOK
  <1>7. Sound'
    BY <1>1, <1>4, <1>5, <1>6 DEF Sound, Within, NoBuffer, IInv, Core
  <1> QED
    BY <1>1, <1>4, <1>5, <1>7, StillCore

\* The terminator is stored inside the buffer.
LEMMA FinishEndCore ==
    ASSUME IInv, finish_end
    PROVE  Core'
  <1>0. TextTypeOK /\ Conserved
    BY DEF IInv, Core, Within
  <1>1. /\ pc = "finish" /\ pc' = "idle" /\ flags' = flags \cup {"FINISHED"}
        /\ UNCHANGED <<s_size, s_error, s_sect_len, drain, given, text, heap, saved, marks,
                       todo, sent, out, cut, loose>>
    BY DEF finish_end, string, stray, caller, flaws
  <1>2. Has("SBUF") /\ Len(text) < s_size
    BY <1>1, Alive
  <1>3. overrun' = overrun
    <2>1. overrun' = (overrun \/ Len(text) >= s_size)
      BY DEF finish_end
    <2>2. ~(Len(text) >= s_size)
      BY <1>0, <1>2 DEF TextTypeOK
    <2>3. overrun \in BOOLEAN
      BY <1>0 DEF TextTypeOK
    <2> QED
      BY <2>1, <2>2, <2>3
  <1>4. TextTypeOK'
    <2>1. flags' \subseteq Flags
      BY <1>0, <1>1 DEF TextTypeOK, Flags
    <2>2. overrun' \in BOOLEAN
      BY <1>0, <1>3 DEF TextTypeOK
    <2> QED
      BY <1>0, <1>1, <2>1, <2>2 DEF TextTypeOK
  <1>5. Sound'
    BY <1>1, <1>2, <1>3, <1>4, Moved
  <1>6. Has("INSECTION")' <=> Has("INSECTION")
    BY <1>1 DEF Has
  <1>7. todo = <<>>
    BY <1>0, <1>1 DEF Conserved
  <1> QED
    BY <1>1, <1>4, <1>5, <1>6, <1>7, StillCore

-----------------------------------------------------------------------------
(* Sections *)

\* What is left of a stack whose top is taken off.
LEMMA Popped ==
    ASSUME NEW S, NEW s \in Seq(S), NEW n \in Nat, Len(s) = n + 1
    PROVE  /\ Chunk(s, Len(s) - 1) \in Seq(S) /\ Len(Chunk(s, Len(s) - 1)) = n
           /\ \A k \in 1 .. n : Chunk(s, Len(s) - 1)[k] = s[k]
  <1>1. \A k \in 1 .. n : s[k] \in S
    OBVIOUS
  <1>2. /\ SubSeq(s, 1, n) \in Seq(S)
        /\ Len(SubSeq(s, 1, n)) = IF 1 <= n THEN n - 1 + 1 ELSE 0
        /\ \A k \in 1 .. n - 1 + 1 : SubSeq(s, 1, n)[k] = s[1 + k - 1]
    BY <1>1, SubSeqProperties, 1 \in Int, n \in Int
  <1>3. Chunk(s, Len(s) - 1) = SubSeq(s, 1, n)
    <2>1. Len(s) - 1 = n
      OBVIOUS
    <2> QED
      BY <2>1 DEF Chunk
  <1>4. \A k \in 1 .. n : k \in 1 .. n - 1 + 1 /\ 1 + k - 1 = k
    OBVIOUS
  <1>5. (IF 1 <= n THEN n - 1 + 1 ELSE 0) = n
    OBVIOUS
  <1>6. \A k \in 1 .. n : SubSeq(s, 1, n)[k] = s[k]
    BY <1>2, <1>4
  <1> QED
    BY <1>2, <1>3, <1>5, <1>6

\* A stack with one more on top.
LEMMA Pushed ==
    ASSUME NEW S, NEW s \in Seq(S), NEW e \in S, NEW n \in Nat, Len(s) = n
    PROVE  /\ Append(s, e) \in Seq(S) /\ Len(Append(s, e)) = n + 1
           /\ Append(s, e)[n + 1] = e
           /\ \A k \in 1 .. n : Append(s, e)[k] = s[k]
  BY AppendProperties

LEMMA StartSectionCore ==
    ASSUME IInv, sbuf_start_section
    PROVE  Core'
  <1>0. TextTypeOK /\ Conserved /\ Nested /\ Measured
    BY DEF IInv, Core, Within
  <1>1. /\ Unfinished /\ pc = "idle"
        /\ flags' = flags \cup {"INSECTION"}
        /\ saved' = Append(saved, IF Has("INSECTION") THEN s_sect_len ELSE -1)
        /\ s_sect_len' = IF Has("INSECTION") THEN 0 ELSE s_sect_len
        /\ marks' = Append(marks, Len(sent))
        /\ UNCHANGED <<s_size, s_error, drain, given, text, heap, overrun, pc, todo,
                       sent, out, cut, loose>>
    BY DEF sbuf_start_section, string, stray, flaws, Unfinished
  <1>2. /\ saved \in Seq(Int) /\ marks \in Seq(Nat) /\ s_sect_len \in Int
        /\ sent \in Seq(Bytes) /\ Len(sent) \in Nat
    BY <1>0 DEF TextTypeOK
  <1>3. PICK n \in Nat : n = Len(saved) /\ n = Len(marks)
    BY <1>0, <1>2 DEF Nested
  <1>4. PICK old \in Int : old = IF Has("INSECTION") THEN s_sect_len ELSE -1
    BY <1>2
  <1>5. /\ saved' \in Seq(Int) /\ Len(saved') = n + 1 /\ saved'[n + 1] = old
        /\ marks' \in Seq(Nat) /\ Len(marks') = n + 1 /\ marks'[n + 1] = Len(sent)
        /\ \A k \in 1 .. n : saved'[k] = saved[k] /\ marks'[k] = marks[k]
    <2>1. saved' = Append(saved, old) /\ marks' = Append(marks, Len(sent))
      BY <1>1, <1>4
    <2>2. /\ saved' \in Seq(Int) /\ Len(saved') = n + 1 /\ saved'[n + 1] = old
          /\ \A k \in 1 .. n : saved'[k] = saved[k]
      <3>1. /\ Append(saved, old) \in Seq(Int) /\ Len(Append(saved, old)) = n + 1
            /\ Append(saved, old)[n + 1] = old
            /\ \A k \in 1 .. n : Append(saved, old)[k] = saved[k]
        <4>1. saved \in Seq(Int) /\ old \in Int /\ Len(saved) = n
          BY <1>2, <1>3, <1>4
        <4> QED
          BY <4>1, Pushed
      <3> QED
        BY <2>1, <3>1
    <2>3. /\ marks' \in Seq(Nat) /\ Len(marks') = n + 1 /\ marks'[n + 1] = Len(sent)
          /\ \A k \in 1 .. n : marks'[k] = marks[k]
      BY <1>2, <1>3, <2>1, Pushed
    <2> QED
      BY <2>2, <2>3
  <1>6. TextTypeOK'
    <2>1. flags' \subseteq Flags
      BY <1>0, <1>1 DEF TextTypeOK, Flags
    <2>2. s_sect_len' \in Int
      BY <1>1, <1>2
    <2> QED
      BY <1>0, <1>1, <1>5, <2>1, <2>2 DEF TextTypeOK
  <1>7. Sound'
    <2>1. Has("SBUF") /\ Len(text) < s_size
      BY <1>1, Alive
    <2> QED
      BY <1>1, <1>6, <2>1, Moved
  <1>8. Conserved'
    BY <1>0, <1>1 DEF Conserved
  <1>9. saved' # <<>> /\ Has("INSECTION")'
    <2>1. saved' # <<>>
      BY <1>3, <1>5
    <2> QED
      BY <1>1, <2>1 DEF Has
  <1>10. ASSUME ~loose
         PROVE  /\ Has("INSECTION") <=> n # 0
                /\ s_sect_len >= 0 /\ (n = 0 => s_sect_len = 0)
                /\ \A k \in 1 .. n : IF k = 1 THEN saved[k] = -1 ELSE saved[k] >= 0
    <2>1. saved = <<>> <=> n = 0
      BY <1>2, <1>3, EmptySeq
    <2>2. DOMAIN saved = 1 .. n
      <3>1. DOMAIN saved = 1 .. Len(saved)
        BY <1>2, LenProperties
      <3> QED
        BY <1>3, <3>1
    <2> QED
      BY <1>0, <1>10, <2>1, <2>2 DEF Nested
  <1>11. Nested'
    <2>1. ASSUME ~loose, NEW k \in 1 .. n + 1
          PROVE  IF k = 1 THEN saved'[k] = -1 ELSE saved'[k] >= 0
      <3>1. CASE k \in 1 .. n
        BY <1>5, <1>10, <2>1, <3>1
      <3>2. CASE k = n + 1
        BY <1>4, <1>5, <1>10, <2>1, <3>2
      <3> QED
        BY <3>1, <3>2
    <2>2. DOMAIN saved' = 1 .. n + 1
      BY <1>3, <1>5
    <2>3. ~loose => s_sect_len' >= 0
      BY <1>1, <1>10
    <2> QED
      BY <1>1, <1>5, <1>9, <2>1, <2>2, <2>3 DEF Nested
  <1>12. Measured'
    <2> SUFFICES ASSUME ~s_error, ~cut, ~loose
                 PROVE  /\ s_sect_len' = Len(sent) - Len(todo) - marks'[Len(marks')]
                        /\ \A k \in 1 .. n + 1 : k > 1 => saved'[k] = marks'[k] - marks'[k - 1]
      <3>1. DOMAIN saved' = 1 .. n + 1
        BY <1>3, <1>5
      <3> QED
        BY <1>1, <3>1 DEF Measured
    <2>1. Len(todo) = 0
      BY <1>0, <1>1 DEF Conserved
    <2>2. s_sect_len' = 0
      BY <1>1, <1>10
    <2>3. marks'[Len(marks')] = Len(sent)
      BY <1>5
    <2>4. s_sect_len' = Len(sent) - Len(todo) - marks'[Len(marks')]
      BY <1>2, <2>1, <2>2, <2>3
    <2>5. n # 0 => s_sect_len = Len(sent) - marks[n]
      <3> HAVE n # 0
      <3>1. saved # <<>>
        BY <1>3
      <3>2. s_sect_len = Len(sent) - Len(todo) - marks[n]
        BY <1>0, <1>3, <3>1 DEF Measured
      <3> QED
        BY <1>2, <2>1, <3>2
    <2>6. \A k \in 1 .. n : k > 1 => saved[k] = marks[k] - marks[k - 1]
      <3>1. DOMAIN saved = 1 .. Len(saved)
        BY <1>2, LenProperties
      <3>2. \A k \in DOMAIN saved : k > 1 => saved[k] = marks[k] - marks[k - 1]
        BY <1>0 DEF Measured
      <3> QED
        BY <1>3, <3>1, <3>2
    <2>7. ASSUME NEW k \in 1 .. n + 1, k > 1
          PROVE  saved'[k] = marks'[k] - marks'[k - 1]
      <3>1. k - 1 \in 1 .. n /\ marks'[k - 1] = marks[k - 1]
        BY <1>5, <2>7
      <3>2. CASE k \in 1 .. n
        BY <1>5, <2>6, <2>7, <3>1, <3>2
      <3>3. CASE k = n + 1
        <4>1. k - 1 = n /\ n # 0
          BY <2>7, <3>3
        <4> QED
          BY <1>4, <1>5, <1>10, <2>5, <3>1, <3>3, <4>1
      <3> QED
        BY <3>2, <3>3
    <2> QED
      BY <2>4, <2>7
  <1> QED
    BY <1>7, <1>8, <1>11, <1>12 DEF IInv, Core, Sound

\* sbuf_end_section up to its loop: the padding is promised, and not yet appended.
LEMMA PadCore ==
    ASSUME IInv, NEW pad \in Pads, NEW c \in Bytes, sbuf_end_section(pad, c)
    PROVE  Core'
  <1>0. TextTypeOK /\ Conserved /\ Nested /\ Measured
    BY DEF IInv, Core, Within
  <1>1. PICK fill \in Seq(Bytes) : Promise(fill) /\ todo' = fill
    <2>1. PICK m \in Nat : m = Missing(pad)
      <3>1. pad \in Nat /\ pad > 0
        BY PadsAssumption
      <3>2. s_sect_len \in Int
        BY <1>0 DEF TextTypeOK
      <3>3. PICK up \in Int : up = ((s_sect_len + pad - 1) \div pad) * pad /\ up >= s_sect_len
        BY <3>1, <3>2, RoundUp
      <3>4. Missing(pad) \in Nat
        BY <3>2, <3>3 DEF Missing
      <3> QED
        BY <3>4
    <2>2. [i \in 1 .. m |-> c] \in Seq(Bytes)
      OBVIOUS
    <2>3. <<>> \in Seq(Bytes)
      BY EmptySeq
    <2>4. PICK f \in Seq(Bytes) : f = IF s_error THEN <<>> ELSE [i \in 1 .. m |-> c]
      BY <2>2, <2>3
    <2> QED
      BY <2>1, <2>4 DEF sbuf_end_section
  <1>2. /\ Unfinished /\ pc = "idle" /\ saved # <<>> /\ sent' = sent \o fill
        /\ pc' = "pad"
        /\ UNCHANGED <<flags, s_size, s_error, s_sect_len, drain, given, text, heap,
                       overrun, saved, marks, out, cut, loose>>
    BY <1>1 DEF sbuf_end_section, Promise, struct, string, stray, caller, flaws, Unfinished
  <1>3. /\ text \in Seq(Bytes) /\ sent \in Seq(Bytes) /\ out \in Seq(Bytes)
        /\ s_sect_len \in Int
    BY <1>0 DEF TextTypeOK
  <1>4. sent' \in Seq(Bytes) /\ Len(sent') = Len(sent) + Len(fill)
    BY <1>2, <1>3, Joined
  <1>5. TextTypeOK'
    BY <1>0, <1>1, <1>2, <1>4 DEF TextTypeOK
  <1>6. Sound'
    <2>1. Has("SBUF") /\ Len(text) < s_size
      BY <1>2, Alive
    <2> QED
      BY <1>2, <1>5, <2>1, Moved
  <1>7. todo = <<>>
    BY <1>0, <1>2 DEF Conserved
  <1>8. Conserved'
    <2>1. ASSUME ~s_error, ~cut PROVE sent' = out \o (text \o fill)
      <3>1. sent = out \o text
        BY <1>0, <1>3, <1>7, <2>1, ConcatEmptySeq DEF Conserved
      <3> QED
        BY <1>2, <1>3, <3>1, Regrouped
    <2> QED
      BY <1>1, <1>2, <2>1 DEF Conserved
  <1>9. Nested' /\ Measured'
    <2>1. Has("INSECTION")' <=> Has("INSECTION")
      BY <1>2 DEF Has
    <2>2. s_sect_len + 0 = s_sect_len
      BY <1>3
    <2>3. ~loose /\ Has("INSECTION") => s_sect_len >= 0
      BY <1>0 DEF Nested
    <2>4. Len(sent') - Len(todo') = Len(sent) - Len(todo) + 0
      <3>1. Len(sent) \in Nat /\ Len(fill) \in Nat /\ Len(todo) = 0 /\ Len(todo') = Len(fill)
        BY <1>1, <1>3, <1>7
      <3> QED
        BY <1>4, <3>1
    <2> QED
      BY <1>0, <1>2, <2>1, <2>2, <2>3, <2>4, 0 \in Int, Sections
  <1> QED
    BY <1>6, <1>8, <1>9 DEF IInv, Core, Sound

\* The section around gets its length back, with that of the section that ends.
LEMMA EndSectionCore ==
    ASSUME IInv, end_section
    PROVE  Core'
  <1>0. TextTypeOK /\ Conserved /\ Nested /\ Measured
    BY DEF IInv, Core, Within
  <1>1. /\ saved \in Seq(Int) /\ marks \in Seq(Nat) /\ s_sect_len \in Int
        /\ sent \in Seq(Bytes) /\ Len(sent) \in Nat
    BY <1>0 DEF TextTypeOK
  <1>2. pc = "pad" /\ saved # <<>> /\ (todo = <<>> \/ s_error)
    BY <1>0 DEF end_section, Nested
  <1>3. PICK n \in Nat : n + 1 = Len(saved) /\ n + 1 = Len(marks)
    <2>1. Len(saved) - 1 \in Nat /\ (Len(saved) - 1) + 1 = Len(saved)
      BY <1>1, <1>2, EmptySeq
    <2> QED
      BY <1>0, <2>1 DEF Nested
  <1>4. PICK old \in Int : old = saved[Len(saved)] /\ old = saved[n + 1]
    BY <1>1, <1>3
  <1>5. /\ s_sect_len' = IF old = -1 THEN 0 ELSE s_sect_len + old
        /\ flags' = IF old = -1 THEN flags \ {"INSECTION"} ELSE flags
        /\ saved' = Chunk(saved, Len(saved) - 1)
        /\ marks' = Chunk(marks, Len(marks) - 1)
        /\ pc' = "idle" /\ todo' = <<>>
        /\ UNCHANGED <<s_size, s_error, drain, given, text, heap, overrun, sent, out, cut, loose>>
    BY <1>4 DEF end_section, string, stray, flaws
  <1>6. /\ saved' \in Seq(Int) /\ Len(saved') = n
        /\ marks' \in Seq(Nat) /\ Len(marks') = n
        /\ \A k \in 1 .. n : saved'[k] = saved[k] /\ marks'[k] = marks[k]
    <2>1. /\ Chunk(saved, Len(saved) - 1) \in Seq(Int) /\ Len(Chunk(saved, Len(saved) - 1)) = n
          /\ \A k \in 1 .. n : Chunk(saved, Len(saved) - 1)[k] = saved[k]
      BY <1>1, <1>3, Popped
    <2>2. /\ Chunk(marks, Len(marks) - 1) \in Seq(Nat) /\ Len(Chunk(marks, Len(marks) - 1)) = n
          /\ \A k \in 1 .. n : Chunk(marks, Len(marks) - 1)[k] = marks[k]
      BY <1>1, <1>3, Popped
    <2> QED
      BY <1>5, <2>1, <2>2
  <1>7. TextTypeOK'
    <2>1. flags' \subseteq Flags
      BY <1>0, <1>5 DEF TextTypeOK
    <2>2. s_sect_len' \in Int
      BY <1>1, <1>5
    <2>3. todo' \in Seq(Bytes)
      BY <1>5, EmptySeq
    <2> QED
      BY <1>0, <1>5, <1>6, <2>1, <2>2, <2>3 DEF TextTypeOK
  <1>8. Sound'
    <2>1. Has("SBUF") /\ Len(text) < s_size
      BY <1>2, Alive
    <2>2. flags' \in {flags, flags \ {"INSECTION"}}
      BY <1>5
    <2> QED
      BY <1>5, <1>7, <2>1, <2>2, Moved
  <1>9. Conserved'
    BY <1>0, <1>2, <1>5 DEF Conserved
  <1>10. saved' = <<>> <=> n = 0
    BY <1>6, EmptySeq
  <1>11. ASSUME ~loose
         PROVE  /\ old = -1 <=> n = 0
                /\ n # 0 => old >= 0
                /\ Has("INSECTION") /\ s_sect_len >= 0
                /\ \A k \in 1 .. n : IF k = 1 THEN saved[k] = -1 ELSE saved[k] >= 0
    <2>1. \A k \in 1 .. n + 1 : IF k = 1 THEN saved[k] = -1 ELSE saved[k] >= 0
      BY <1>0, <1>1, <1>3, <1>11 DEF Nested
    <2>2. IF n + 1 = 1 THEN old = -1 ELSE old >= 0
      BY <1>4, <2>1
    <2>3. Has("INSECTION") /\ s_sect_len >= 0
      BY <1>0, <1>2, <1>11 DEF Nested
    <2> QED
      BY <2>1, <2>2, <2>3
  <1>12. Nested'
    <2>1. ~loose => (Has("INSECTION")' <=> n # 0)
      BY <1>5, <1>11 DEF Has
    <2>2. ~loose => s_sect_len' >= 0 /\ (n = 0 => s_sect_len' = 0)
      BY <1>1, <1>5, <1>11
    <2>3. ~loose => \A k \in DOMAIN saved' : IF k = 1 THEN saved'[k] = -1 ELSE saved'[k] >= 0
      BY <1>6, <1>11
    <2> QED
      BY <1>5, <1>6, <1>10, <2>1, <2>2, <2>3 DEF Nested
  <1>13. Measured'
    <2> SUFFICES ASSUME ~s_error, ~cut, ~loose
                 PROVE  /\ n # 0 => s_sect_len' = Len(sent) - 0 - marks'[Len(marks')]
                        /\ \A k \in 1 .. n : k > 1 => saved'[k] = marks'[k] - marks'[k - 1]
      <3>1. DOMAIN saved' = 1 .. n
        BY <1>6
      <3>2. Len(todo') = 0
        BY <1>5
      <3> QED
        BY <1>5, <1>10, <3>1, <3>2 DEF Measured
    <2>1. Len(todo) = 0
      BY <1>2
    <2>2. /\ s_sect_len = Len(sent) - 0 - marks[n + 1]
          /\ \A k \in 1 .. n + 1 : k > 1 => saved[k] = marks[k] - marks[k - 1]
      <3>1. DOMAIN saved = 1 .. Len(saved)
        BY <1>1, LenProperties
      <3>2. /\ s_sect_len = Len(sent) - Len(todo) - marks[Len(marks)]
            /\ \A k \in DOMAIN saved : k > 1 => saved[k] = marks[k] - marks[k - 1]
        BY <1>0, <1>2 DEF Measured
      <3> QED
        BY <1>3, <2>1, <3>1, <3>2
    <2>3. ASSUME n # 0 PROVE s_sect_len' = Len(sent) - 0 - marks'[Len(marks')]
      <3>1. old = marks[n + 1] - marks[n]
        <4>1. n + 1 \in 1 .. n + 1 /\ n + 1 > 1 /\ (n + 1) - 1 = n
          BY <2>3
        <4> QED
          BY <1>4, <2>2, <4>1
      <3>2. s_sect_len' = s_sect_len + old
        BY <1>5, <1>11, <2>3
      <3>3. marks[n + 1] \in Nat /\ marks[n] \in Nat
        BY <1>1, <1>3, <2>3
      <3>4. marks'[Len(marks')] = marks[n]
        BY <1>6, <2>3
      <3>5. PICK x, y \in Nat : x = marks[n + 1] /\ y = marks[n]
        BY <3>3
      <3>6. s_sect_len' = (Len(sent) - 0 - x) + (x - y)
        BY <2>2, <3>1, <3>2, <3>5
      <3>7. s_sect_len' = Len(sent) - 0 - y
        BY <1>1, <3>6
      <3> QED
        BY <3>4, <3>5, <3>7
    <2>4. ASSUME NEW k \in 1 .. n, k > 1
          PROVE  saved'[k] = marks'[k] - marks'[k - 1]
      <3>1. k - 1 \in 1 .. n /\ k \in 1 .. n + 1
        BY <2>4
      <3> QED
        BY <1>6, <2>2, <2>4, <3>1
    <2> QED
      BY <2>3, <2>4
  <1> QED
    BY <1>8, <1>9, <1>12, <1>13 DEF IInv, Core, Sound

-----------------------------------------------------------------------------
(* The invariant *)

LEMMA InitCore ==
    ASSUME Init
    PROVE  Core
  <1>1. /\ flags = {} /\ text = <<>> /\ s_size = 0 /\ s_error = FALSE /\ s_sect_len = 0
        /\ drain = FALSE /\ given = FALSE /\ heap = 0 /\ overrun = FALSE
        /\ under = 0 /\ saved = <<>> /\ marks = <<>> /\ cut = FALSE /\ loose = FALSE
        /\ pc = "idle" /\ todo = <<>> /\ sent = <<>> /\ out = <<>>
    BY DEF Init, Zeroed
  <1>2. TextTypeOK
    <2>1. /\ text \in Seq(Bytes) /\ saved \in Seq(Int) /\ marks \in Seq(Nat)
          /\ todo \in Seq(Bytes) /\ sent \in Seq(Bytes) /\ out \in Seq(Bytes)
      BY <1>1, EmptySeq
    <2>2. /\ flags \subseteq Flags /\ s_size \in Nat /\ s_sect_len \in Int /\ heap \in 0 .. 2
          /\ pc \in {"idle", "put", "print", "finish", "pad"}
      BY <1>1
    <2>3. /\ s_error \in BOOLEAN /\ drain \in BOOLEAN /\ given \in BOOLEAN
          /\ overrun \in BOOLEAN /\ cut \in BOOLEAN /\ loose \in BOOLEAN
      BY <1>1
    <2> QED
      BY <2>1, <2>2, <2>3 DEF TextTypeOK
  <1>3. Within /\ BlocksAccounted /\ NoBuffer
    BY <1>1, <1>2 DEF Within, BlocksAccounted, NoBuffer, Zeroed, Has
  <1>4. Conserved
    <2>1. <<>> \in Seq(Bytes)
      BY EmptySeq
    <2>2. <<>> \o (<<>> \o <<>>) = <<>>
      BY <2>1, ConcatEmptySeq
    <2> QED
      BY <1>1, <2>2 DEF Conserved
  <1>5. Nested /\ Measured
    BY <1>1 DEF Nested, Measured, Has
  <1> QED
    BY <1>3, <1>4, <1>5 DEF IInv, Core

LEMMA NextCore ==
    ASSUME IInv, [Next]_vars
    PROVE  Core'
  <1>1. ASSUME Call PROVE Core'
    <2>1. ASSUME NEW own \in BOOLEAN, NEW buf \in BOOLEAN, NEW auto \in BOOLEAN,
                 NEW n \in Lengths, sbuf_new(own, buf, n, auto)
          PROVE  Core'
      BY <2>1, NewCore
    <2>2. sbuf_clear => Core'
      BY ClearCore
    <2>3. sbuf_delete => Core'
      BY DeleteCore
    <2>4. ASSUME NEW on \in BOOLEAN, sbuf_set_drain(on) \/ sbuf_finish PROVE Core'
      BY <2>4, QuietCore
    <2>5. sbuf_trim => Core'
      BY TrimCore
    <2>6. ASSUME NEW pos \in 0 .. Len(text), sbuf_setpos(pos) PROVE Core'
      BY <2>6, SetposCore
    <2>7. ASSUME NEW s \in Strings, sbuf_bcat(s) \/ sbuf_bcpy(s) \/ sbuf_vprintf(s) PROVE Core'
      BY <2>7, CatCore, CpyCore
    <2>8. sbuf_start_section => Core'
      BY StartSectionCore
    <2>9. ASSUME NEW pad \in Pads, NEW c \in Bytes, sbuf_end_section(pad, c) PROVE Core'
      BY <2>9, PadCore
    <2> QED
      BY <1>1, <2>1, <2>2, <2>3, <2>4, <2>5, <2>6, <2>7, <2>8, <2>9 DEF Call
  <1>2. ASSUME Loop PROVE Core'
    <2>1. put_byte \/ put_byte_drained => Core'
      BY PutCore
    <2>10. put_byte_before => Core'
      BY PutBeforeCore
    <2>2. put_byte_extended => Core'
      BY PutExtendedCore
    <2>3. put_byte_full => Core'
      BY FailedCore
    <2>4. put_end => Core'
      BY PutEndCore
    <2>5. print_fits \/ print_full => Core'
      BY PrintCore
    <2>6. print_drained \/ finish_drained => Core'
      BY DrainedCore
    <2>7. print_extended => Core'
      BY PrintExtendedCore
    <2>8. finish_end => Core'
      BY FinishEndCore
    <2>9. end_section => Core'
      BY EndSectionCore
    <2> QED
      BY <1>2, <2>1, <2>2, <2>3, <2>4, <2>5, <2>6, <2>7, <2>8, <2>9, <2>10 DEF Loop
  <1>3. ASSUME Fault PROVE Core'
    <2>1. put_byte_fails \/ finish_fails => Core'
      BY FailedCore
    <2>2. print_fails => Core'
      BY PrintCore
    <2>3. print_unformatted => Core'
      BY PrintUnformattedCore
    <2> QED
      BY <1>3, <2>1, <2>2, <2>3 DEF Fault
  <1>4. ASSUME UNCHANGED vars PROVE Core'
    <2>1. UNCHANGED <<flags, s_size, s_error, s_sect_len, drain, given, text, under, heap,
                      overrun, saved, marks, pc, todo, sent, out, cut, loose>>
      BY <1>4 DEF vars, struct, string, stray, caller, flaws
    <2>2. TextTypeOK'
      BY <2>1 DEF IInv, Core, Within, TextTypeOK
    <2>3. Within' /\ BlocksAccounted' /\ NoBuffer'
      BY <2>1, <2>2 DEF IInv, Core, Within, BlocksAccounted, NoBuffer, Zeroed, Has
    <2>4. Conserved' /\ Nested' /\ Measured'
      BY <2>1 DEF IInv, Core, Conserved, Nested, Measured, Has
    <2> QED
      BY <2>3, <2>4 DEF IInv, Core
  <1> QED
    BY <1>1, <1>2, <1>3, <1>4 DEF Next

-----------------------------------------------------------------------------
(* s_len below 0 *)

\* A step that leaves s_len, or puts it at 0, and stores inside the buffer.
LEMMA ShortKept ==
    ASSUME Short, TextTypeOK', torn' = torn, before' = before \/ before' = FALSE,
           under' = 0 \/ (under' = under /\ text' = text /\ cut' = cut)
    PROVE  Short'
  <1>1. under \in Nat /\ before \in BOOLEAN /\ torn \in BOOLEAN /\ (before => torn)
    BY DEF Short, TypeOK
  <1>21. under' \in Nat
    BY <1>1
  <1>22. torn' \in BOOLEAN
    BY <1>1
  <1>23. before' \in BOOLEAN
    BY <1>1, Zenon
  <1>2. under' \in Nat /\ torn' \in BOOLEAN /\ before' \in BOOLEAN
    BY <1>21, <1>22, <1>23
  <1>3. under' > 0 => text' = <<>> /\ torn' /\ cut'
    BY <1>1 DEF Short
  <1> QED
    BY <1>1, <1>2, <1>3 DEF Short, TypeOK

\* The same for a step that prints or stores the terminator, at s_len.
LEMMA ShortWritten ==
    ASSUME Short, TextTypeOK', torn' = torn, before' = (before \/ under > 0),
           under' = 0 \/ (under' = under /\ text' = text /\ cut' = cut)
    PROVE  Short'
  <1>1. under \in Nat /\ before \in BOOLEAN /\ torn \in BOOLEAN /\ (before => torn)
    BY DEF Short, TypeOK
  <1>21. under' \in Nat
    BY <1>1
  <1>22. torn' \in BOOLEAN
    BY <1>1
  <1>23. before' \in BOOLEAN
    BY <1>1, Zenon
  <1>2. under' \in Nat /\ torn' \in BOOLEAN /\ before' \in BOOLEAN
    BY <1>21, <1>22, <1>23
  <1>3. under' > 0 => text' = <<>> /\ torn' /\ cut'
    BY <1>1 DEF Short
  <1>4. under > 0 => torn
    BY DEF Short
  <1>5. before' => torn'
    BY <1>1, <1>4
  <1> QED
    BY <1>2, <1>3, <1>5 DEF Short, TypeOK

\* A string that is not empty has no bytes in front of it.
LEMMA ShortEmpty ==
    ASSUME Short, text # <<>>
    PROVE  under = 0
  BY DEF Short, TypeOK

LEMMA ShortCall ==
    ASSUME IInv, TextTypeOK', Call
    PROVE  Short'
  <1>0. Short /\ text \in Seq(Bytes) /\ Len(text) \in Nat
    BY DEF IInv, Short, TypeOK, TextTypeOK
  <1>1. ASSUME NEW own \in BOOLEAN, NEW buf \in BOOLEAN, NEW auto \in BOOLEAN,
               NEW n \in Lengths, sbuf_new(own, buf, n, auto)
        PROVE  Short'
    <2>1. UNCHANGED <<text, under, before, cut, torn>>
      BY <1>1 DEF sbuf_new, string, stray, flaws
    <2> QED
      BY <1>0, <2>1, ShortKept
  <1>2. ASSUME sbuf_clear \/ sbuf_delete \/ \E s \in Strings : sbuf_bcpy(s) PROVE Short'
    <2>1. CASE sbuf_delete
      <3>1. under' = 0 /\ torn' = FALSE /\ before' = FALSE
        BY <2>1 DEF sbuf_delete
      <3>2. under' \in Nat /\ ~(under' > 0)
        BY <3>1
      <3>3. torn' \in BOOLEAN /\ before' \in BOOLEAN /\ ~before'
        BY <3>1
      <3> QED
        BY <3>2, <3>3 DEF Short, TypeOK
    <2>2. CASE sbuf_clear \/ \E s \in Strings : sbuf_bcpy(s)
      <3>1. under' = 0 /\ torn' = torn /\ before' = before
        BY <2>2 DEF sbuf_clear, sbuf_bcpy, Cleared, stray
      <3> QED
        BY <1>0, <3>1, ShortKept
    <2> QED
      BY <1>2, <2>1, <2>2
  <1>3. ASSUME NEW on \in BOOLEAN, sbuf_set_drain(on) PROVE Short'
    <2>1. UNCHANGED <<text, under, before, cut, torn>>
      BY <1>3 DEF sbuf_set_drain, string, stray, flaws
    <2> QED
      BY <1>0, <2>1, ShortKept
  <1>4. ASSUME sbuf_trim PROVE Short'
    <2>1. UNCHANGED <<under, before, cut, torn>> /\ text' = Chunk(text, Len(text) - Blanks(text))
      BY <1>4 DEF sbuf_trim, stray
    <2>2. ASSUME text = <<>> PROVE text' = text
      <3>1. Blanks(text) \in 0 .. Len(text)
        BY <1>0, BlanksFacts
      <3>2. Len(text) - Blanks(text) = 0
        BY <2>2, <3>1
      <3>3. /\ Chunk(text, 0) \in Seq(Bytes) /\ Len(Chunk(text, 0)) = 0
        BY <1>0, ChunkFacts, 0 \in Int
      <3> QED
        BY <2>1, <2>2, <3>2, <3>3, EmptySeq
    <2>3. under' = 0 \/ text' = text
      BY <1>0, <2>1, <2>2, ShortEmpty
    <2> QED
      BY <1>0, <2>1, <2>3, ShortKept
  <1>5. ASSUME NEW pos \in 0 .. Len(text), sbuf_setpos(pos) PROVE Short'
    <2>1. UNCHANGED <<under, before, cut, torn>> /\ pos <= Len(text) - under
      BY <1>5 DEF sbuf_setpos, stray, flaws, s_len
    <2>2. under = 0
      <3> SUFFICES ASSUME under # 0 PROVE FALSE
        OBVIOUS
      <3>1. under \in Nat /\ text = <<>>
        BY <1>0 DEF Short, TypeOK
      <3> QED
        BY <2>1, <3>1
    <2> QED
      BY <1>0, <2>1, <2>2, ShortKept
  <1>6. ASSUME NEW s \in Strings, sbuf_bcat(s) \/ sbuf_vprintf(s) PROVE Short'
    <2>1. UNCHANGED <<text, under, before, cut, torn>>
      BY <1>6 DEF sbuf_bcat, sbuf_vprintf, string, stray, flaws
    <2> QED
      BY <1>0, <2>1, ShortKept
  <1>7. ASSUME sbuf_finish \/ sbuf_start_section PROVE Short'
    <2>1. UNCHANGED <<text, under, before, cut, torn>>
      BY <1>7 DEF sbuf_finish, sbuf_start_section, string, stray, flaws
    <2> QED
      BY <1>0, <2>1, ShortKept
  <1>8. ASSUME NEW pad \in Pads, NEW c \in Bytes, sbuf_end_section(pad, c) PROVE Short'
    <2>1. UNCHANGED <<text, under, before, cut, torn>>
      BY <1>8 DEF sbuf_end_section, string, stray, flaws
    <2> QED
      BY <1>0, <2>1, ShortKept
  <1> QED
    BY <1>1, <1>2, <1>3, <1>4, <1>5, <1>6, <1>7, <1>8 DEF Call

\* A byte goes into the string only when s_len is not negative.
LEMMA ShortPut ==
    ASSUME IInv, TextTypeOK',
           \/ put_byte \/ put_byte_drained \/ put_byte_extended
           \/ put_byte_full \/ put_byte_fails \/ put_end
    PROVE  Short'
  <1>0. Short /\ text \in Seq(Bytes) /\ Len(text) \in Nat
    BY DEF IInv, Short, TypeOK, TextTypeOK
  <1>1. CASE put_byte
    <2>1. under' = 0 /\ UNCHANGED <<before, torn>>
      BY <1>1 DEF put_byte, Store, flaws
    <2> QED
      BY <1>0, <2>1, ShortKept
  <1>2. CASE put_byte_drained
    <2>1. UNCHANGED <<under, before, torn>> /\ \E k \in 1 .. Len(text) : TRUE
      BY <1>2 DEF put_byte_drained, Store, flaws
    <2>2. text # <<>>
      BY <2>1
    <2> QED
      BY <1>0, <2>1, <2>2, ShortEmpty, ShortKept
  <1>3. CASE put_byte_extended
    <2>1. UNCHANGED <<under, before, torn>> /\ s_size - (Len(text) - under + 1) <= 0
      BY <1>3 DEF put_byte_extended, Store, flaws, Full, Free, s_len
    <2>2. Len(text) < s_size /\ s_size \in Nat
      BY <1>3, Alive DEF put_byte_extended, Appending, IInv, Core, Within, TextTypeOK
    <2>3. under = 0
      <3> SUFFICES ASSUME under # 0 PROVE FALSE
        OBVIOUS
      <3>1. under \in Nat /\ text = <<>>
        BY <1>0 DEF Short, TypeOK
      <3>2. under >= 1 /\ Len(text) = 0
        BY <3>1
      <3> QED
        BY <2>1, <2>2, <3>1, <3>2
    <2> QED
      BY <1>0, <2>1, <2>3, ShortKept
  <1>4. CASE put_byte_full \/ put_byte_fails \/ put_end
    <2>1. UNCHANGED <<text, under, before, cut, torn>>
      BY <1>4 DEF put_byte_full, put_byte_fails, put_end, Failed, string, stray, flaws
    <2> QED
      BY <1>0, <2>1, ShortKept
  <1> QED
    BY <1>1, <1>2, <1>3, <1>4

\* What is printed while s_len is negative goes to the front of the buffer first.
LEMMA ShortPrinted ==
    ASSUME IInv, TextTypeOK', Attempt, NEW s \in Seq(Bytes), NEW err \in BOOLEAN,
           Printed(s, err), torn' = torn, cut' = cut \/ cut' = TRUE
    PROVE  Short'
  <1>1. /\ Short /\ text \in Seq(Bytes) /\ under \in Nat /\ Len(s) \in Nat
        /\ before \in BOOLEAN
    BY DEF IInv, Short, TypeOK, TextTypeOK
  <1>2. /\ text' = text \o Rest(s, under)
        /\ under' = IF Len(s) < under THEN under - Len(s) ELSE 0
        /\ before' = (before \/ under > 0)
    BY DEF Printed, Attempt
  <1>3. under' \in Nat
    BY <1>1, <1>2
  <1>4. ASSUME under' > 0 PROVE text' = <<>> /\ torn /\ cut'
    <2>1. Len(s) < under
      BY <1>2, <1>4
    <2>2. under > 0
      BY <1>1, <2>1
    <2>3. text = <<>> /\ torn /\ cut
      BY <1>1, <2>2 DEF Short
    <2>4. /\ Rest(s, under) \in Seq(Bytes)
          /\ Len(Rest(s, under)) = IF under <= Len(s) THEN Len(s) - under ELSE 0
      BY <1>1, RestAny
    <2>5. Len(Rest(s, under)) = 0
      BY <1>1, <2>1, <2>4
    <2>6. Rest(s, under) = <<>>
      BY <2>4, <2>5, EmptySeq
    <2>7. <<>> \o <<>> = <<>>
      OBVIOUS
    <2> QED
      BY <1>2, <2>3, <2>6, <2>7
  <1>5. before' \in BOOLEAN /\ (before' => torn)
    BY <1>1, <1>2 DEF Short
  <1>6. torn' \in BOOLEAN
    BY <1>1 DEF Short, TypeOK
  <1> QED
    BY <1>3, <1>4, <1>5, <1>6 DEF Short, TypeOK

LEMMA ShortPrint ==
    ASSUME IInv, TextTypeOK',
           \/ print_fits \/ print_unformatted \/ print_drained \/ print_extended
           \/ print_full \/ print_fails
    PROVE  Short'
  <1>0. /\ Short /\ text \in Seq(Bytes) /\ Len(text) \in Nat /\ todo \in Seq(Bytes)
        /\ under \in Nat
    BY DEF IInv, Short, TypeOK, TextTypeOK
  <1>1. CASE print_fits
    <2>1. Attempt /\ Printed(todo, FALSE) /\ torn' = torn /\ cut' = cut
      BY <1>1 DEF print_fits, flaws
    <2> QED
      BY <1>0, <2>1, ShortPrinted
  <1>2. CASE print_unformatted
    <2>1. /\ text' = Chunk(text, Len(text) - 1)
          /\ under' = IF text = <<>> THEN under + 1 ELSE 0
          /\ cut' = TRUE /\ torn' = (torn \/ text = <<>>)
          /\ before' = (before \/ under > 0)
      BY <1>2 DEF print_unformatted, Attempt
    <2>2. ASSUME text = <<>> PROVE text' = <<>>
      <3>1. Len(text) - 1 = -1
        BY <2>2
      <3> QED
        BY <2>1, <3>1 DEF Chunk
    <2>3. torn \in BOOLEAN /\ before \in BOOLEAN /\ (before => torn) /\ (under > 0 => torn)
      BY <1>0 DEF Short, TypeOK
    <2>4. torn' \in BOOLEAN /\ before' \in BOOLEAN /\ under' \in Nat
      BY <1>0, <2>1, <2>3
    <2>5. under' > 0 => text' = <<>> /\ torn' /\ cut'
      <3> HAVE under' > 0
      <3>1. text = <<>>
        BY <2>1
      <3> QED
        BY <2>1, <2>2, <3>1
    <2>6. before' => torn'
      BY <2>1, <2>3
    <2> QED
      BY <2>4, <2>5, <2>6 DEF Short, TypeOK
  <1>3. CASE print_drained
    <2>1. /\ before' = (before \/ under > 0) /\ UNCHANGED <<under, torn>>
          /\ \E k \in 1 .. Len(text) : TRUE
      BY <1>3 DEF print_drained, Attempt, flaws
    <2>2. text # <<>>
      BY <2>1
    <2> QED
      BY <1>0, <2>1, <2>2, ShortEmpty, ShortWritten
  <1>4. CASE print_extended
    <2>1. before' = (before \/ under > 0) /\ UNCHANGED <<text, under, cut, torn>>
      BY <1>4 DEF print_extended, Attempt, string, flaws
    <2> QED
      BY <1>0, <2>1, ShortWritten
  <1>5. CASE print_full \/ print_fails
    <2>1. /\ Attempt /\ torn' = torn /\ (cut' = cut \/ cut' = TRUE)
          /\ Printed(Chunk(todo, Free), FALSE) \/ Printed(Chunk(todo, Free), TRUE)
      <3>1. CASE print_full
        BY <3>1 DEF print_full, flaws
      <3>2. CASE print_fails
        <4>1. /\ Attempt /\ torn' = torn
              /\ \/ Printed(Chunk(todo, Free), TRUE) /\ cut' = cut
                 \/ Printed(Chunk(todo, Free), FALSE) /\ cut' = TRUE
          BY <3>2 DEF print_fails
        <4> QED
          BY <4>1
      <3> QED
        BY <1>5, <3>1, <3>2
    <2>2. Chunk(todo, Free) \in Seq(Bytes)
      <3>1. Free \in Int /\ Free <= Len(todo)
        <4>1. Free < Len(todo)
          BY <1>5 DEF print_full, print_fails
        <4>2. s_size \in Int /\ Len(todo) \in Nat
          BY <1>0 DEF IInv, Core, Within, TextTypeOK
        <4>3. Free \in Int
          BY <1>0, <4>2 DEF Free, s_len
        <4> QED
          BY <4>1, <4>2, <4>3
      <3> QED
        BY <1>0, <3>1, ChunkFacts
    <2> QED
      BY <2>1, <2>2, ShortPrinted
  <1> QED
    BY <1>1, <1>2, <1>3, <1>4, <1>5

LEMMA NextShort ==
    ASSUME IInv, TextTypeOK', [Next]_vars
    PROVE  Short'
  <1>0. Short /\ text \in Seq(Bytes) /\ Len(text) \in Nat /\ under \in Nat
    BY DEF IInv, Short, TypeOK, TextTypeOK
  <1>1. CASE put_byte_before
    <2>1. under > 0 /\ under' = under - 1 /\ before' = TRUE /\ UNCHANGED <<text, cut, torn>>
      BY <1>1 DEF put_byte_before, flaws
    <2>2. text = <<>> /\ torn /\ cut /\ torn \in BOOLEAN
      BY <1>0, <2>1 DEF Short, TypeOK
    <2>3. under' \in Nat
      BY <1>0, <2>1
    <2>4. before' \in BOOLEAN /\ torn' \in BOOLEAN
      BY <2>1, <2>2
    <2> QED
      BY <2>1, <2>2, <2>3, <2>4 DEF Short, TypeOK
  <1>2. CASE finish_drained
    <2>1. UNCHANGED <<under, before, torn>> /\ \E k \in 1 .. Len(text) : TRUE
      BY <1>2 DEF finish_drained, stray, flaws
    <2>2. text # <<>>
      BY <2>1
    <2> QED
      BY <1>0, <2>1, <2>2, ShortEmpty, ShortKept
  <1>3. CASE finish_end
    <2>1. before' = (before \/ under > 0) /\ UNCHANGED <<text, under, cut, torn>>
      BY <1>3 DEF finish_end, string, flaws
    <2> QED
      BY <1>0, <2>1, ShortWritten
  <1>4. CASE end_section \/ finish_fails \/ UNCHANGED vars
    <2>1. UNCHANGED <<text, under, before, cut, torn>>
      BY <1>4 DEF end_section, finish_fails, Failed, vars, string, stray, flaws
    <2> QED
      BY <1>0, <2>1, ShortKept
  <1> QED
    BY <1>1, <1>2, <1>3, <1>4, ShortCall, ShortPut, ShortPrint DEF Next, Loop, Fault

-----------------------------------------------------------------------------
(* The theorems *)

\* The invariant holds of every buffer and caller: of the struct, at the start of a
\* call, between the turns of its loop and when it returns.
THEOREM Invariance == Spec => []IInv
  <1>1. Init => IInv
    <2>1. ASSUME Init PROVE Core /\ Short
      <3>1. Core /\ TextTypeOK
        BY <2>1, InitCore DEF Core, Within
      <3>2. under = 0 /\ before = FALSE /\ torn = FALSE
        BY <2>1 DEF Init, Zeroed
      <3>3. under \in Nat /\ ~(under > 0)
        BY <3>2
      <3>4. before \in BOOLEAN /\ torn \in BOOLEAN /\ ~before
        BY <3>2
      <3>5. Short
        BY <3>1, <3>3, <3>4 DEF Short, TypeOK
      <3> QED
        BY <3>1, <3>5
    <2> QED
      BY <2>1 DEF IInv
  <1>2. IInv /\ [Next]_vars => IInv'
    <2>1. ASSUME IInv, [Next]_vars PROVE Core' /\ Short'
      <3>1. Core'
        BY <2>1, NextCore
      <3>2. TextTypeOK'
        BY <3>1 DEF Core, Within
      <3> QED
        BY <2>1, <3>1, <3>2, NextShort
    <2> QED
      BY <2>1 DEF IInv
  <1> QED
    BY <1>1, <1>2, PTL DEF Spec

\* The string and its terminator end inside the buffer, and no byte is ever stored
\* at or after s_size (assert_sbuf_integrity, sbuf_put_byte, sbuf_finish); s_len is
\* negative, and something is written in front of s_buf, only after vsnprintf has
\* failed on an empty string (sbuf_vprintf).
THEOREM InsideBuffer == Spec => []Integrity
  <1>1. ASSUME IInv PROVE Integrity
    <2>1. /\ TypeOK /\ ~overrun /\ Len(text) \in Nat /\ under \in Nat /\ s_size \in Nat
          /\ Has("SBUF") => Len(text) < s_size
      BY <1>1 DEF IInv, Core, Within, Short, TypeOK, TextTypeOK
    <2>2. /\ under > 0 => text = <<>> /\ torn /\ cut
          /\ before => torn
      BY <1>1 DEF IInv, Short
    <2>3. Has("SBUF") => s_len < s_size
      BY <2>1 DEF s_len
    <2>4. s_len < 0 => under > 0
      BY <2>1 DEF s_len
    <2> QED
      BY <2>1, <2>2, <2>3, <2>4 DEF Integrity
  <1> QED
    BY <1>1, Invariance, PTL

\* Between calls, what the drain was given and what is in the buffer are what the
\* caller appended, unless the error is set or malloc or vsnprintf failed in sbuf_vprintf.
THEOREM Faithful == Spec => []NothingLost
  <1>1. ASSUME IInv PROVE NothingLost
    <2> SUFFICES ASSUME pc = "idle", ~s_error, ~cut PROVE out \o text = sent
      BY DEF NothingLost
    <2>1. text \in Seq(Bytes)
      BY <1>1 DEF IInv, Core, Within, TextTypeOK
    <2>2. todo = <<>> /\ sent = out \o (text \o todo)
      BY <1>1 DEF IInv, Core, Conserved
    <2> QED
      BY <2>1, <2>2, ConcatEmptySeq
  <1> QED
    BY <1>1, Invariance, PTL

\* No block is leaked or freed twice, and the caller's memory is never freed
\* (sbuf_extend, sbuf_delete).
THEOREM Accounted == Spec => []BlocksAccounted
  <1>1. IInv => BlocksAccounted
    BY DEF IInv, Core
  <1> QED
    BY <1>1, Invariance, PTL

\* The length of the innermost section is the number of bytes appended since it was
\* started, for sections nested to any depth that the caller's bound allows.
THEOREM Sectioned == Spec => []SectionExact
  <1>1. ASSUME IInv PROVE SectionExact
    <2> SUFFICES ASSUME pc = "idle", ~s_error, ~cut, ~loose
                 PROVE  /\ Has("INSECTION") <=> saved # <<>>
                        /\ s_sect_len = IF saved = <<>> THEN 0
                                        ELSE Len(sent) - marks[Len(marks)]
      BY DEF SectionExact
    <2>1. /\ Has("INSECTION") <=> saved # <<>>
          /\ saved = <<>> => s_sect_len = 0
      BY <1>1 DEF IInv, Core, Nested
    <2>2. Len(todo) = 0 /\ Len(sent) \in Nat
      BY <1>1 DEF IInv, Core, Conserved, Within, TextTypeOK
    <2>3. saved # <<>> => s_sect_len = Len(sent) - Len(todo) - marks[Len(marks)]
      BY <1>1 DEF IInv, Core, Measured
    <2>4. Len(sent) - Len(todo) = Len(sent)
      BY <2>2
    <2> QED
      BY <2>1, <2>3, <2>4
  <1> QED
    BY <1>1, Invariance, PTL

=============================================================================
