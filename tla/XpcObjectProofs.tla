-------------------------- MODULE XpcObjectProofs --------------------------
(***************************************************************************)
(* IInv is an inductive invariant of XpcObject for every set of objects,   *)
(* handles and keys, as long as callers do what the repository's own       *)
(* callers do (Practices = {}).                                            *)
(***************************************************************************)
EXTENDS XpcObject, SequenceTheorems, FiniteSetTheorems, TLAPS

\* For the induction facts alone, which do not depend on a recursion.
Nats == INSTANCE NatFacts WITH Base <- 0, Step <- +

-----------------------------------------------------------------------------
(* Sequences *)

\* A sequence is a function from an interval, and has a first and a last element
\* when it is not empty.
LEMMA SeqFacts ==
    ASSUME NEW S, NEW s \in Seq(S)
    PROVE  /\ DOMAIN s = 1 .. Len(s)
           /\ Len(s) \in Nat
           /\ \A i \in 1 .. Len(s) : s[i] \in S
           /\ s # <<>> => /\ 1 \in 1 .. Len(s)
                          /\ Len(s) \in 1 .. Len(s)
                          /\ s[1] \in S
                          /\ s[Len(s)] \in S
  BY EmptySeq, LenProperties, ElementOfSeq

\* What Append returns, for the appends to lists, pointer chains and stacks.
LEMMA AppendFacts ==
    ASSUME NEW S, NEW s \in Seq(S), NEW e \in S
    PROVE  /\ Append(s, e) \in Seq(S)
           /\ Append(s, e) # <<>>
           /\ Len(Append(s, e)) = Len(s) + 1
           /\ DOMAIN Append(s, e) = 1 .. Len(s) + 1
           /\ \A i \in 1 .. Len(s) : Append(s, e)[i] = s[i]
           /\ Append(s, e)[Len(s) + 1] = e
  OBVIOUS

\* What is left of a list when its first element is unlinked.
LEMMA TailFacts ==
    ASSUME NEW S, NEW s \in Seq(S), s # <<>>
    PROVE  /\ Len(s) \in Nat \ {0}
           /\ Tail(s) \in Seq(S)
           /\ Len(Tail(s)) = Len(s) - 1
           /\ DOMAIN Tail(s) = 1 .. Len(s) - 1
           /\ \A i \in 1 .. Len(s) - 1 : Tail(s)[i] = s[i + 1]
  BY HeadTailProperties, EmptySeq, LenProperties

\* What is left of a stack when its top frame returns.
LEMMA PopFacts ==
    ASSUME NEW S, NEW s \in Seq(S), s # <<>>
    PROVE  LET t == SubSeq(s, 1, Len(s) - 1)
           IN  /\ Len(s) \in Nat \ {0}
               /\ t \in Seq(S)
               /\ Len(t) = Len(s) - 1
               /\ DOMAIN t = 1 .. Len(s) - 1
               /\ \A i \in 1 .. Len(s) - 1 : t[i] = s[i]
  <1> DEFINE t == SubSeq(s, 1, Len(s) - 1)
  <1>1. Len(s) \in Nat \ {0} /\ DOMAIN s = 1 .. Len(s)
    BY EmptySeq, LenProperties
  <1>2. \A i \in 1 .. Len(s) - 1 : s[i] \in S
    BY <1>1, ElementOfSeq
  <1>3. /\ t \in Seq(S)
        /\ Len(t) = IF 1 <= Len(s) - 1 THEN Len(s) - 1 - 1 + 1 ELSE 0
        /\ \A i \in 1 .. Len(s) - 1 - 1 + 1 : t[i] = s[1 + i - 1]
    BY <1>1, <1>2, SubSeqProperties
  <1> QED
    BY <1>1, <1>3, LenProperties

-----------------------------------------------------------------------------
(* Consequences of TypeOK *)

\* The sequences of the state are indexed from 1 and hold what they should.
LEMMA StateFacts ==
    ASSUME TypeOK
    PROVE  /\ \A o \in Objects :
                 /\ DOMAIN list[o] = 1 .. Len(list[o])
                 /\ Len(list[o]) \in Nat
                 /\ \A i \in 1 .. Len(list[o]) : /\ list[o][i] \in Entry
                                                 /\ list[o][i].val \in Objects
                 /\ list[o] # <<>> => 1 \in 1 .. Len(list[o])
           /\ \A h \in Handles :
                 /\ DOMAIN path[h] = 1 .. Len(path[h])
                 /\ Len(path[h]) \in Nat
                 /\ \A i \in 1 .. Len(path[h]) : path[h][i] \in Objects
                 /\ path[h] # <<>> => /\ 1 \in 1 .. Len(path[h])
                                      /\ Top(path[h]) \in Objects
                                      /\ Len(path[h]) \in 1 .. Len(path[h])
           /\ \A h \in Handles :
                 /\ DOMAIN stack[h] = 1 .. Len(stack[h])
                 /\ Len(stack[h]) \in Nat
                 /\ \A i \in 1 .. Len(stack[h]) : stack[h][i] \in Objects
                 /\ stack[h] # <<>> => /\ Top(stack[h]) \in Objects
                                       /\ Len(stack[h]) \in 1 .. Len(stack[h])
  <1>1. ASSUME NEW o \in Objects
        PROVE  /\ DOMAIN list[o] = 1 .. Len(list[o])
               /\ Len(list[o]) \in Nat
               /\ \A i \in 1 .. Len(list[o]) : /\ list[o][i] \in Entry
                                               /\ list[o][i].val \in Objects
               /\ list[o] # <<>> => 1 \in 1 .. Len(list[o])
    <2>1. list[o] \in Seq(Entry)
      BY DEF TypeOK
    <2>2. \A e \in Entry : e.val \in Objects
      BY DEF Entry
    <2> QED
      BY <2>1, <2>2, SeqFacts
  <1>2. ASSUME NEW h \in Handles
        PROVE  path[h] \in Seq(Objects) /\ stack[h] \in Seq(Objects)
    BY DEF TypeOK
  <1> QED
    BY <1>1, <1>2, SeqFacts DEF Top

-----------------------------------------------------------------------------

\* The state with no object satisfies the invariant.
LEMMA InitIInv == Init => IInv
  <1> SUFFICES ASSUME Init PROVE IInv
    OBVIOUS
  <1>1. TypeOK
    BY EmptySeq, RefModAssumption, HandlesAssumption, FS_CardinalityType
    DEF Init, TypeOK
  <1>2. \A o \in Objects : ~Held(o) /\ ~Linked(o) /\ ~OnStack(o) /\ ~Live(o)
    BY DEF Init, Held, Linked, OnStack, Live
  <1>3. SoleOwner
    BY <1>2 DEF SoleOwner, OwnedIsLive, OneKindOfOwner, LinkedOnce, DestroyedOnce,
                LiveIsOwned, Init
  <1>4. BorrowedIsLinked /\ ReleasingHasNoPath
    BY DEF BorrowedIsLinked, ReleasingHasNoPath, Init
  <1>5. CountExact /\ LinkedCount
    BY <1>2 DEF CountExact, LinkedCount
  <1>6. SizeField
    BY DEF SizeField, Init
  <1> QED
    BY <1>1, <1>3, <1>4, <1>5, <1>6 DEF IInv

-----------------------------------------------------------------------------
(* Consequences of the invariant *)

\* The holders of an object are finitely many, fewer than a uint32_t counts.
LEMMA HolderCount ==
    ASSUME NEW o \in Objects
    PROVE  /\ IsFiniteSet(Holders(o))
           /\ Cardinality(Holders(o)) \in Nat
           /\ Cardinality(Holders(o)) + 2 < RefMod
           /\ Cardinality(Holders(o)) = 0 <=> ~Held(o)
           /\ RefMod \in Nat
  <1>1. Holders(o) \subseteq Handles
    BY DEF Holders
  <1>2. /\ IsFiniteSet(Holders(o))
        /\ Cardinality(Holders(o)) <= Cardinality(Handles)
        /\ Cardinality(Holders(o)) \in Nat
        /\ Cardinality(Handles) \in Nat
    BY <1>1, HandlesAssumption, FS_Subset, FS_CardinalityType
  <1>3. Cardinality(Holders(o)) = 0 <=> Holders(o) = {}
    BY <1>2, FS_EmptySet
  <1>4. Holders(o) = {} <=> ~Held(o)
    BY DEF Holders, Held
  <1> QED
    BY <1>2, <1>3, <1>4, RefModAssumption

\* Every object on a pointer chain is held or linked: it is allocated and out of
\* every destruction's reach.
LEMMA ChainSafe ==
    ASSUME IInv, NEW h \in Handles, NEW i \in 1 .. Len(path[h])
    PROVE  /\ path[h][i] \in Objects
           /\ i = 1 => Held(path[h][i]) /\ h \in Holders(path[h][i])
           /\ i # 1 => Linked(path[h][i])
           /\ Live(path[h][i])
           /\ ~OnStack(path[h][i])
  <1> USE DEF IInv
  <1>1. /\ Len(path[h]) \in Nat
        /\ DOMAIN path[h] = 1 .. Len(path[h])
        /\ \A j \in 1 .. Len(path[h]) : path[h][j] \in Objects
    BY StateFacts
  <1>2. path[h] # <<>>
    BY <1>1
  <1>3. i = 1 => Held(path[h][i]) /\ h \in Holders(path[h][i])
    BY <1>2 DEF Held, Holders
  <1>4. ASSUME i # 1
        PROVE  Linked(path[h][i])
    <2>1. i - 1 \in 1 .. Len(path[h]) - 1
      BY <1>1, <1>4
    <2>2. path[h][i - 1] \in Objects
      BY <1>1, <2>1
    <2>3. \E j \in DOMAIN list[path[h][i - 1]] :
             list[path[h][i - 1]][j].val = path[h][(i - 1) + 1]
      BY <2>1 DEF BorrowedIsLinked
    <2>4. path[h][(i - 1) + 1] = path[h][i]
      BY <1>1
    <2> QED
      BY <2>2, <2>3, <2>4 DEF Linked
  <1>5. path[h][i] \in Objects
    BY <1>1
  <1> QED
    BY <1>3, <1>4, <1>5 DEF SoleOwner, OwnedIsLive, OneKindOfOwner

\* Pointer chains stay chains when each is kept or dropped, and the links of
\* objects that are not being destroyed stay.
LEMMA BorrowedKept ==
    ASSUME IInv,
           \A f \in Handles :
              path'[f] = path[f] \/ \A i \in 1 .. Len(path'[f]) - 1 : FALSE,
           \A p \in Objects : ~OnStack(p) =>
              \A i \in DOMAIN list[p] : \E j \in DOMAIN list'[p] :
                 list'[p][j].val = list[p][i].val
    PROVE  BorrowedIsLinked'
  <1> SUFFICES ASSUME NEW f \in Handles, NEW i \in 1 .. Len(path'[f]) - 1
               PROVE  \E j \in DOMAIN list'[path'[f][i]] :
                         list'[path'[f][i]][j].val = path'[f][i + 1]
    BY DEF BorrowedIsLinked
  <1>1. path'[f] = path[f]
    OBVIOUS
  <1>2. i \in 1 .. Len(path[f]) /\ path[f][i] \in Objects /\ i \in 1 .. Len(path[f]) - 1
    BY <1>1, StateFacts DEF IInv
  <1>3. ~OnStack(path[f][i])
    BY <1>2, ChainSafe
  <1>4. \E j \in DOMAIN list[path[f][i]] : list[path[f][i]][j].val = path[f][i + 1]
    BY <1>2 DEF BorrowedIsLinked, IInv
  <1> QED
    BY <1>1, <1>2, <1>3, <1>4

-----------------------------------------------------------------------------
(* One lemma per shape of step *)

\* Creating an object for a handle that has none.
LEMMA CreateStep ==
    ASSUME IInv, NEW h \in Handles, NEW o \in Objects, NEW t \in Types,
           NEW n \in Nat, t = "prim" \/ n = 0,
           Idle(h), Created(o, t),
           refcnt' = [refcnt EXCEPT ![o] = 1],
           size' = [size EXCEPT ![o] = n],
           path' = [path EXCEPT ![h] = <<o>>],
           stack' = stack
    PROVE  IInv'
  <1> USE DEF IInv
  <1>1. /\ ~Live(o) /\ ~Held(o) /\ ~Linked(o) /\ ~OnStack(o)
        /\ list[o] = <<>>
    BY DEF SoleOwner, OwnedIsLive, Created
  <1>2. list' = list
    BY <1>1 DEF Created, TypeOK
  <1>3. /\ path[h] = <<>>
        /\ path'[h] = <<o>>
        /\ \A g \in Handles \ {h} : path'[g] = path[g]
    BY DEF Idle, TypeOK
  <1>4. TypeOK'
    <2>1. <<o>> \in Seq(Objects)
      OBVIOUS
    <2>2. 1 \in 0 .. RefMod - 1
      BY HolderCount
    <2> QED
      BY <1>2, <2>1, <2>2 DEF TypeOK, Created, Types, Containers
  <1>5. \A x \in Objects : /\ Linked(x)' <=> Linked(x)
                           /\ OnStack(x)' <=> OnStack(x)
                           /\ Held(x)' <=> (Held(x) \/ x = o)
                           /\ Live(x)' <=> (Live(x) \/ x = o)
    <2>1. \A x \in Objects : (Linked(x)' <=> Linked(x)) /\ (OnStack(x)' <=> OnStack(x))
      BY <1>2 DEF Linked, OnStack
    <2>2. \A x \in Objects : Held(x)' <=> (Held(x) \/ x = o)
      BY <1>3 DEF Held
    <2>3. \A x \in Objects : Live(x)' <=> (Live(x) \/ x = o)
      BY DEF Live, Created, TypeOK, Types, Containers
    <2> QED
      BY <2>1, <2>2, <2>3
  <1>6. SoleOwner'
    <2>1. OwnedIsLive' /\ OneKindOfOwner' /\ LiveIsOwned'
      BY <1>1, <1>2, <1>5 DEF SoleOwner, OwnedIsLive, OneKindOfOwner, LiveIsOwned
    <2>2. LinkedOnce' /\ DestroyedOnce'
      BY <1>2 DEF SoleOwner, LinkedOnce, DestroyedOnce
    <2> QED
      BY <2>1, <2>2 DEF SoleOwner
  <1>7. BorrowedIsLinked'
    <2>1. Len(path'[h]) = 1
      BY <1>3
    <2>2. \A i \in 1 .. Len(path'[h]) - 1 : FALSE
      BY <2>1 DEF TypeOK
    <2>3. \A f \in Handles :
             path'[f] = path[f] \/ \A i \in 1 .. Len(path'[f]) - 1 : FALSE
      BY <1>3, <2>2 DEF TypeOK
    <2>4. \A p \in Objects : \A i \in DOMAIN list[p] : \E j \in DOMAIN list'[p] :
             list'[p][j].val = list[p][i].val
      BY <1>2
    <2> QED
      BY <2>3, <2>4, BorrowedKept
  <1>8. ReleasingHasNoPath'
    BY <1>3 DEF ReleasingHasNoPath, Idle
  <1>9. CountExact'
    <2>1. Holders(o)' = {h}
      BY <1>1, <1>3 DEF Holders, Held
    <2>2. \A x \in Objects \ {o} : Holders(x)' = Holders(x)
      BY <1>3 DEF Holders
    <2>3. Cardinality({h}) = 1
      BY FS_Singleton
    <2>4. refcnt'[o] = 1 /\ \A x \in Objects \ {o} : refcnt'[x] = refcnt[x]
      BY DEF TypeOK
    <2> QED
      BY <1>5, <2>1, <2>2, <2>3, <2>4 DEF CountExact
  <1>10. LinkedCount'
    BY <1>1, <1>5 DEF LinkedCount, TypeOK
  <1>11. SizeField'
    BY <1>1, <1>2, <1>5 DEF SizeField, TypeOK, Created
  <1> QED
    BY <1>4, <1>6, <1>7, <1>8, <1>9, <1>10, <1>11

\* What appending an entry for an object that is nowhere linked does to the
\* links.
LEMMA AppendLinks ==
    ASSUME TypeOK, LinkedOnce, NEW d \in Objects, NEW e \in Entry, ~Linked(e.val),
           list' = [list EXCEPT ![d] = Append(list[d], e)]
    PROVE  /\ list' \in [Objects -> Seq(Entry)]
           /\ Len(list'[d]) = Len(list[d]) + 1
           /\ DOMAIN list'[d] = 1 .. Len(list[d]) + 1
           /\ \A i \in 1 .. Len(list[d]) : list'[d][i] = list[d][i]
           /\ list'[d][Len(list[d]) + 1] = e
           /\ \A p \in Objects \ {d} : list'[p] = list[p]
           /\ \A p \in Objects : \A i \in DOMAIN list[p] :
                 i \in DOMAIN list'[p] /\ list'[p][i] = list[p][i]
           /\ \A x \in Objects : Linked(x)' <=> (Linked(x) \/ x = e.val)
           /\ LinkedOnce'
  <1>1. /\ list[d] \in Seq(Entry)
        /\ \A p \in Objects : /\ DOMAIN list[p] = 1 .. Len(list[p])
                              /\ Len(list[p]) \in Nat
    BY StateFacts DEF TypeOK
  <1>2. /\ list'[d] = Append(list[d], e)
        /\ \A p \in Objects \ {d} : list'[p] = list[p]
    BY DEF TypeOK
  <1>3. /\ Append(list[d], e) \in Seq(Entry)
        /\ Len(list'[d]) = Len(list[d]) + 1
        /\ DOMAIN list'[d] = 1 .. Len(list[d]) + 1
        /\ \A i \in 1 .. Len(list[d]) : list'[d][i] = list[d][i]
        /\ list'[d][Len(list[d]) + 1] = e
    BY <1>1, <1>2, AppendFacts
  <1>4. list' \in [Objects -> Seq(Entry)]
    BY <1>3 DEF TypeOK
  <1>5. \A p \in Objects : \A i \in DOMAIN list[p] :
           i \in DOMAIN list'[p] /\ list'[p][i] = list[p][i]
    BY <1>1, <1>2, <1>3
  <1>6. \A p \in Objects : \A i \in DOMAIN list'[p] :
           \/ i \in DOMAIN list[p] /\ list'[p][i] = list[p][i]
           \/ p = d /\ i = Len(list[d]) + 1 /\ list'[p][i] = e
    BY <1>1, <1>2, <1>3
  <1>7. ASSUME NEW x \in Objects
        PROVE  Linked(x)' <=> (Linked(x) \/ x = e.val)
    <2>1. Linked(x) => Linked(x)'
      BY <1>5 DEF Linked
    <2>2. x = e.val => Linked(x)'
      <3>1. Len(list[d]) + 1 \in DOMAIN list'[d]
        BY <1>1, <1>3
      <3> QED
        BY <1>3, <3>1 DEF Linked
    <2>3. Linked(x)' => Linked(x) \/ x = e.val
      BY <1>6 DEF Linked
    <2> QED
      BY <2>1, <2>2, <2>3
  <1>8. LinkedOnce'
    <2> SUFFICES ASSUME NEW p \in Objects, NEW q \in Objects,
                        NEW i \in DOMAIN list'[p], NEW j \in DOMAIN list'[q],
                        list'[p][i].val = list'[q][j].val
                 PROVE  p = q /\ i = j
      BY DEF LinkedOnce
    <2> QED
      BY <1>6 DEF LinkedOnce, Linked
  <1> QED
    BY <1>2, <1>3, <1>4, <1>5, <1>7, <1>8

\* Putting a value that only handle g has into the container h's chain ends at;
\* g gives it up.
LEMMA PutStep ==
    ASSUME IInv, NEW h \in Handles, NEW g \in Handles, MayPut(h, g),
           NEW e \in Entry, NEW n \in Nat, NEW cnt \in 1 .. 2,
           e.val = path[g][1],
           xtype[Top(path[h])] \in Containers,
           xtype[Top(path[h])] = "dict" =>
              n = size[Top(path[h])] + 1 /\ NewKey(Top(path[h]), e.key),
           xtype[Top(path[h])] = "array" => n = size[Top(path[h])],
           list' = [list EXCEPT ![Top(path[h])] = Append(list[Top(path[h])], e)],
           size' = [size EXCEPT ![Top(path[h])] = n],
           refcnt' = [refcnt EXCEPT ![path[g][1]] = cnt],
           path' = [path EXCEPT ![g] = <<>>],
           stack' = stack, xtype' = xtype
    PROVE  IInv'
  <1> DEFINE d == Top(path[h])
             v == path[g][1]
  <1> USE DEF IInv
  <1>1. /\ Len(path[h]) \in 1 .. Len(path[h]) /\ d \in Objects
        /\ 1 \in 1 .. Len(path[g]) /\ v \in Objects
        /\ path[g] # <<>> /\ stack[g] = <<>>
    BY StateFacts DEF MayPut, Busy
  <1>2. /\ Live(d) /\ ~OnStack(d)
        /\ Live(v) /\ Held(v) /\ ~OnStack(v) /\ ~Linked(v)
        /\ d # v
        /\ Holders(v) = {g}
    <2>1. Live(d) /\ ~OnStack(d) /\ (h \in Holders(d) \/ Linked(d))
      BY <1>1, ChainSafe DEF Top
    <2>2. Live(v) /\ Held(v) /\ ~OnStack(v)
      BY <1>1, ChainSafe
    <2>3. ~Linked(v) /\ Holders(v) = {g} /\ h # g
      BY DEF MayPut
    <2> QED
      BY <2>1, <2>2, <2>3
  <1>3. /\ path'[g] = <<>>
        /\ \A f \in Handles \ {g} : path'[f] = path[f]
    BY DEF TypeOK
  <1>4. /\ list' \in [Objects -> Seq(Entry)]
        /\ Len(list'[d]) = Len(list[d]) + 1
        /\ DOMAIN list'[d] = 1 .. Len(list[d]) + 1
        /\ \A i \in 1 .. Len(list[d]) : list'[d][i] = list[d][i]
        /\ list'[d][Len(list[d]) + 1] = e
        /\ \A p \in Objects \ {d} : list'[p] = list[p]
        /\ \A p \in Objects : \A i \in DOMAIN list[p] :
              i \in DOMAIN list'[p] /\ list'[p][i] = list[p][i]
        /\ \A x \in Objects : Linked(x)' <=> (Linked(x) \/ x = v)
        /\ LinkedOnce'
    <2> HIDE DEF d
    <2>1. list' = [list EXCEPT ![d] = Append(list[d], e)]
      BY DEF d
    <2>2. ~Linked(e.val)
      BY <1>2
    <2> QED
      BY <1>1, <2>1, <2>2, AppendLinks DEF SoleOwner
  <1>5. TypeOK'
    <2>1. cnt \in 0 .. RefMod - 1
      BY <1>1, HolderCount
    <2>2. <<>> \in Seq(Objects)
      OBVIOUS
    <2> QED
      BY <1>4, <2>1, <2>2 DEF TypeOK
  <1>6. \A x \in Objects : /\ OnStack(x)' <=> OnStack(x)
                           /\ Live(x)' <=> Live(x)
                           /\ Held(x)' <=> (Held(x) /\ x # v)
                           /\ x # v => Holders(x)' = Holders(x)
    <2>1. \A x \in Objects : (OnStack(x)' <=> OnStack(x)) /\ (Live(x)' <=> Live(x))
      BY DEF OnStack, Live
    <2>2. \A x \in Objects : x # v => Holders(x)' = Holders(x)
      BY <1>3 DEF Holders
    <2>3. \A f \in Handles \ {g} : path[f] # <<>> => path[f][1] # v
      BY <1>2 DEF Holders
    <2>4. \A x \in Objects : Held(x)' <=> (Held(x) /\ x # v)
      BY <1>3, <2>3 DEF Held
    <2> QED
      BY <2>1, <2>2, <2>4
  <1>7. SoleOwner'
    <2>1. OwnedIsLive'
      BY <1>2, <1>4, <1>6 DEF SoleOwner, OwnedIsLive
    <2>2. OneKindOfOwner' /\ LiveIsOwned'
      BY <1>2, <1>4, <1>6 DEF SoleOwner, OneKindOfOwner, LiveIsOwned
    <2>3. DestroyedOnce'
      BY DEF SoleOwner, DestroyedOnce
    <2> QED
      BY <1>4, <2>1, <2>2, <2>3 DEF SoleOwner
  <1>8. BorrowedIsLinked'
    <2>1. \A f \in Handles :
             path'[f] = path[f] \/ \A i \in 1 .. Len(path'[f]) - 1 : FALSE
      BY <1>3 DEF TypeOK
    <2>2. \A p \in Objects : \A i \in DOMAIN list[p] : \E j \in DOMAIN list'[p] :
             list'[p][j].val = list[p][i].val
      BY <1>4
    <2> QED
      BY <2>1, <2>2, BorrowedKept
  <1>9. ReleasingHasNoPath'
    BY <1>3 DEF ReleasingHasNoPath
  <1>10. CountExact' /\ LinkedCount'
    <2>1. refcnt'[v] = cnt /\ \A x \in Objects \ {v} : refcnt'[x] = refcnt[x]
      BY <1>1 DEF TypeOK
    <2> QED
      BY <1>4, <1>6, <2>1 DEF CountExact, LinkedCount
  <1>11. SizeField'
    <2> SUFFICES ASSUME NEW x \in Objects
                 PROVE  /\ xtype'[x] = "dict" /\ ~OnStack(x)' =>
                             /\ size'[x] = Len(list'[x])
                             /\ \A i, j \in DOMAIN list'[x] :
                                   list'[x][i].key = list'[x][j].key => i = j
                        /\ xtype'[x] = "array" => size'[x] = 0
                        /\ xtype'[x] = "prim" => list'[x] = <<>>
      BY DEF SizeField
    <2>1. CASE x # d
      BY <1>4, <1>6, <2>1 DEF SizeField, TypeOK
    <2>2. CASE x = d
      <3>1. size'[d] = n
        BY <1>1 DEF TypeOK
      <3>2. CASE xtype[d] = "dict"
        <4>1. /\ size[d] = Len(list[d])
              /\ \A i, j \in DOMAIN list[d] : list[d][i].key = list[d][j].key => i = j
          BY <1>1, <1>2, <3>2 DEF SizeField
        <4>2. DOMAIN list[d] = 1 .. Len(list[d]) /\ Len(list[d]) \in Nat
          BY <1>1, StateFacts
        <4>3. \A i \in DOMAIN list[d] : list[d][i].key # e.key
          BY <3>2 DEF NewKey
        <4>4. ASSUME NEW i \in DOMAIN list'[d], NEW j \in DOMAIN list'[d],
                     list'[d][i].key = list'[d][j].key
              PROVE  i = j
          BY <1>4, <4>1, <4>2, <4>3, <4>4
        <4> QED
          BY <1>4, <2>2, <3>1, <3>2, <4>1, <4>4
      <3>3. CASE xtype[d] = "array"
        BY <1>1, <2>2, <3>1, <3>3 DEF SizeField
      <3> QED
        BY <3>2, <3>3 DEF Containers
    <2> QED
      BY <2>1, <2>2
  <1> QED
    BY <1>5, <1>7, <1>8, <1>9, <1>10, <1>11

\* Creating a value and putting it into the container h's chain ends at.
LEMMA TypedStep ==
    ASSUME IInv, NEW h \in Handles, Busy(h), NEW o \in Objects, ~Live(o),
           NEW e \in Entry, NEW n \in Nat, e.val = o,
           xtype[Top(path[h])] \in Containers,
           xtype[Top(path[h])] = "dict" =>
              n = size[Top(path[h])] + 1 /\ NewKey(Top(path[h]), e.key),
           xtype[Top(path[h])] = "array" => n = size[Top(path[h])],
           xtype' = [xtype EXCEPT ![o] = "prim"],
           list' = [list EXCEPT ![o] = <<>>,
                                ![Top(path[h])] = Append(list[Top(path[h])], e)],
           size' = [size EXCEPT ![o] = 1, ![Top(path[h])] = n],
           refcnt' = [refcnt EXCEPT ![o] = 2],
           path' = path, stack' = stack
    PROVE  IInv'
  <1> DEFINE d == Top(path[h])
  <1> USE DEF IInv
  <1>1. Len(path[h]) \in 1 .. Len(path[h]) /\ d \in Objects
    BY StateFacts DEF Busy
  <1>2. /\ Live(d) /\ ~OnStack(d)
        /\ ~Held(o) /\ ~OnStack(o) /\ ~Linked(o)
        /\ list[o] = <<>>
        /\ d # o
    <2>1. Live(d) /\ ~OnStack(d)
      BY <1>1, ChainSafe DEF Top
    <2>2. ~Held(o) /\ ~OnStack(o) /\ ~Linked(o) /\ list[o] = <<>>
      BY DEF SoleOwner, OwnedIsLive
    <2> QED
      BY <2>1, <2>2
  <1>3. list' = [list EXCEPT ![d] = Append(list[d], e)]
    BY <1>1, <1>2 DEF TypeOK
  <1>4. /\ list' \in [Objects -> Seq(Entry)]
        /\ Len(list'[d]) = Len(list[d]) + 1
        /\ DOMAIN list'[d] = 1 .. Len(list[d]) + 1
        /\ \A i \in 1 .. Len(list[d]) : list'[d][i] = list[d][i]
        /\ list'[d][Len(list[d]) + 1] = e
        /\ \A p \in Objects \ {d} : list'[p] = list[p]
        /\ \A p \in Objects : \A i \in DOMAIN list[p] :
              i \in DOMAIN list'[p] /\ list'[p][i] = list[p][i]
        /\ \A x \in Objects : Linked(x)' <=> (Linked(x) \/ x = o)
        /\ LinkedOnce'
    <2> HIDE DEF d
    <2>1. ~Linked(e.val)
      BY <1>2
    <2> QED
      BY <1>1, <1>3, <2>1, AppendLinks DEF SoleOwner
  <1>5. /\ size'[o] = 1 /\ size'[d] = n
        /\ \A x \in Objects \ {o, d} : size'[x] = size[x]
        /\ refcnt'[o] = 2
        /\ \A x \in Objects \ {o} : refcnt'[x] = refcnt[x]
        /\ xtype'[o] = "prim"
        /\ \A x \in Objects \ {o} : xtype'[x] = xtype[x]
    BY <1>1, <1>2 DEF TypeOK
  <1>6. TypeOK'
    <2>1. 2 \in 0 .. RefMod - 1
      BY <1>1, HolderCount
    <2>2. size' \in [Objects -> Nat]
      BY <1>1 DEF TypeOK
    <2> QED
      BY <1>4, <2>1, <2>2 DEF TypeOK, Types
  <1>7. \A x \in Objects : /\ OnStack(x)' <=> OnStack(x)
                           /\ Held(x)' <=> Held(x)
                           /\ Holders(x)' = Holders(x)
                           /\ Live(x)' <=> (Live(x) \/ x = o)
    <2>1. \A x \in Objects : /\ OnStack(x)' <=> OnStack(x)
                             /\ Held(x)' <=> Held(x)
                             /\ Holders(x)' = Holders(x)
      BY DEF OnStack, Held, Holders
    <2> QED
      BY <1>5, <2>1 DEF Live
  <1>8. SoleOwner'
    <2>1. OwnedIsLive'
      BY <1>2, <1>4, <1>7 DEF SoleOwner, OwnedIsLive
    <2>2. OneKindOfOwner' /\ LiveIsOwned'
      BY <1>2, <1>4, <1>7 DEF SoleOwner, OneKindOfOwner, LiveIsOwned
    <2>3. DestroyedOnce'
      BY DEF SoleOwner, DestroyedOnce
    <2> QED
      BY <1>4, <2>1, <2>2, <2>3 DEF SoleOwner
  <1>9. BorrowedIsLinked'
    <2>1. \A p \in Objects : \A i \in DOMAIN list[p] : \E j \in DOMAIN list'[p] :
             list'[p][j].val = list[p][i].val
      BY <1>4
    <2> QED
      BY <2>1, BorrowedKept
  <1>10. ReleasingHasNoPath'
    BY DEF ReleasingHasNoPath
  <1>11. CountExact' /\ LinkedCount'
    BY <1>2, <1>4, <1>5, <1>7 DEF CountExact, LinkedCount
  <1>12. SizeField'
    <2> SUFFICES ASSUME NEW x \in Objects
                 PROVE  /\ xtype'[x] = "dict" /\ ~OnStack(x)' =>
                             /\ size'[x] = Len(list'[x])
                             /\ \A i, j \in DOMAIN list'[x] :
                                   list'[x][i].key = list'[x][j].key => i = j
                        /\ xtype'[x] = "array" => size'[x] = 0
                        /\ xtype'[x] = "prim" => list'[x] = <<>>
      BY DEF SizeField
    <2>1. CASE x # d
      <3>1. CASE x = o
        <4>1. xtype'[x] = "prim" /\ list'[x] = <<>>
          BY <1>2, <1>4, <1>5, <2>1, <3>1
        <4> QED
          BY ONLY <4>1
      <3>2. CASE x # o
        <4>1. /\ xtype'[x] = xtype[x] /\ size'[x] = size[x] /\ list'[x] = list[x]
              /\ OnStack(x)' <=> OnStack(x)
          BY <1>4, <1>5, <1>7, <2>1, <3>2
        <4>2. SizeField
          OBVIOUS
        <4> QED
          BY ONLY <4>1, <4>2, x \in Objects DEF SizeField
      <3> QED
        BY <3>1, <3>2
    <2>2. CASE x = d
      <3>1. CASE xtype[d] = "dict"
        <4>1. /\ size[d] = Len(list[d])
              /\ \A i, j \in DOMAIN list[d] : list[d][i].key = list[d][j].key => i = j
          BY <1>1, <1>2, <3>1 DEF SizeField
        <4>2. DOMAIN list[d] = 1 .. Len(list[d]) /\ Len(list[d]) \in Nat
          BY <1>1, StateFacts
        <4>3. \A i \in DOMAIN list[d] : list[d][i].key # e.key
          BY <3>1 DEF NewKey
        <4>4. ASSUME NEW i \in DOMAIN list'[d], NEW j \in DOMAIN list'[d],
                     list'[d][i].key = list'[d][j].key
              PROVE  i = j
          BY <1>4, <4>1, <4>2, <4>3, <4>4
        <4>5. n = Len(list[d]) + 1
          BY <3>1, <4>1
        <4>6. xtype'[d] = "dict" /\ size'[d] = Len(list'[d])
          BY <1>1, <1>2, <1>4, <1>5, <3>1, <4>5
        <4> HIDE DEF d
        <4> QED
          BY <2>2, <4>4, <4>6
      <3>2. CASE xtype[d] = "array"
        BY <1>1, <1>2, <1>5, <2>2, <3>2 DEF SizeField
      <3> QED
        BY <3>1, <3>2 DEF Containers
    <2> QED
      BY <2>1, <2>2
  <1> QED
    BY <1>6, <1>8, <1>9, <1>10, <1>11, <1>12

\* Reading an element of the container h's chain ends at.
LEMMA GetStep ==
    ASSUME IInv, NEW h \in Handles, Busy(h),
           NEW j \in DOMAIN list[Top(path[h])],
           path' = [path EXCEPT ![h] = Append(@, list[Top(path[h])][j].val)],
           UNCHANGED <<xtype, refcnt, size, list, stack>>
    PROVE  IInv'
  <1> DEFINE d == Top(path[h])
             c == list[d][j].val
  <1> USE DEF IInv
  <1>1. /\ path[h] \in Seq(Objects) /\ path[h] # <<>>
        /\ Len(path[h]) \in 1 .. Len(path[h]) /\ 1 \in 1 .. Len(path[h])
        /\ d \in Objects
        /\ c \in Objects
    <2>1. d \in Objects
      BY StateFacts DEF Busy
    <2> QED
      BY <2>1, StateFacts DEF Busy, TypeOK
  <1>2. /\ path'[h] = Append(path[h], c)
        /\ \A f \in Handles \ {h} : path'[f] = path[f]
    BY DEF TypeOK
  <1>3. /\ path'[h] \in Seq(Objects) /\ path'[h] # <<>>
        /\ Len(path'[h]) = Len(path[h]) + 1
        /\ \A i \in 1 .. Len(path[h]) : path'[h][i] = path[h][i]
        /\ path'[h][Len(path[h]) + 1] = c
    <2> HIDE DEF c
    <2> QED
      BY <1>1, <1>2, AppendFacts
  <1>4. TypeOK'
    BY <1>2, <1>3 DEF TypeOK
  <1>5. \A x \in Objects : /\ OnStack(x)' <=> OnStack(x)
                           /\ Live(x)' <=> Live(x)
                           /\ Linked(x)' <=> Linked(x)
                           /\ Held(x)' <=> Held(x)
                           /\ Holders(x)' = Holders(x)
    <2>1. \A f \in Handles : /\ path'[f] # <<>> <=> path[f] # <<>>
                             /\ path[f] # <<>> => path'[f][1] = path[f][1]
      BY <1>1, <1>2, <1>3
    <2>2. \A x \in Objects : (Held(x)' <=> Held(x)) /\ Holders(x)' = Holders(x)
      BY <2>1 DEF Held, Holders
    <2> QED
      BY <2>2 DEF OnStack, Live, Linked
  <1>6. SoleOwner'
    <2>1. OwnedIsLive' /\ OneKindOfOwner' /\ LiveIsOwned'
      BY <1>5 DEF SoleOwner, OwnedIsLive, OneKindOfOwner, LiveIsOwned
    <2>2. LinkedOnce' /\ DestroyedOnce'
      BY DEF SoleOwner, LinkedOnce, DestroyedOnce
    <2> QED
      BY <2>1, <2>2 DEF SoleOwner
  <1>7. BorrowedIsLinked'
    <2> SUFFICES ASSUME NEW f \in Handles, NEW i \in 1 .. Len(path'[f]) - 1
                 PROVE  \E k \in DOMAIN list'[path'[f][i]] :
                           list'[path'[f][i]][k].val = path'[f][i + 1]
      BY DEF BorrowedIsLinked
    <2> list' = list
      OBVIOUS
    <2> SUFFICES \E k \in DOMAIN list[path'[f][i]] :
                    list[path'[f][i]][k].val = path'[f][i + 1]
      OBVIOUS
    <2>1. CASE f # h
      <3>1. path'[f] = path[f]
        BY <1>2, <2>1 DEF TypeOK
      <3>2. i \in 1 .. Len(path[f]) - 1
        BY <3>1
      <3>3. \E k \in DOMAIN list[path[f][i]] : list[path[f][i]][k].val = path[f][i + 1]
        BY <3>2 DEF BorrowedIsLinked
      <3> QED
        BY <3>1, <3>3
    <2>2. CASE f = h
      <3>1. i \in 1 .. Len(path[h])
        BY <1>1, <1>3, <2>2
      <3>2. CASE i = Len(path[h])
        <4>1. path'[h][i] = d /\ path'[h][i + 1] = c
          BY <1>3, <3>1, <3>2 DEF Top
        <4> QED
          BY <2>2, <4>1
      <3>3. CASE i # Len(path[h])
        <4>1. i \in 1 .. Len(path[h]) - 1 /\ i + 1 \in 1 .. Len(path[h])
          BY <1>1, <3>1, <3>3
        <4>2. path'[h][i] = path[h][i] /\ path'[h][i + 1] = path[h][i + 1]
          BY <1>3, <4>1
        <4>3. \E k \in DOMAIN list[path[h][i]] : list[path[h][i]][k].val = path[h][i + 1]
          BY <4>1 DEF BorrowedIsLinked
        <4> QED
          BY <2>2, <4>2, <4>3
      <3> QED
        BY <3>2, <3>3
    <2> QED
      BY <2>1, <2>2
  <1>8. ReleasingHasNoPath'
    BY <1>2 DEF ReleasingHasNoPath, Busy
  <1>9. CountExact' /\ LinkedCount'
    BY <1>5 DEF CountExact, LinkedCount
  <1>10. SizeField'
    BY <1>5 DEF SizeField
  <1> QED
    BY <1>4, <1>6, <1>7, <1>8, <1>9, <1>10

\* A second handle for an object that a handle holds.
LEMMA RetainStep ==
    ASSUME IInv, NEW h \in Handles, NEW g \in Handles, Busy(h), Idle(g),
           refcnt' = [refcnt EXCEPT ![path[h][1]] = Incremented(@)],
           path' = [path EXCEPT ![g] = <<path[h][1]>>],
           UNCHANGED <<xtype, size, list, stack>>
    PROVE  IInv'
  <1> DEFINE o == path[h][1]
  <1> USE DEF IInv
  <1>1. /\ o \in Objects /\ Held(o)
        /\ 1 \in 1 .. Len(path[h])
        /\ path[g] = <<>>
    <2>1. 1 \in 1 .. Len(path[h])
      BY StateFacts DEF Busy
    <2> QED
      BY <2>1, ChainSafe DEF Idle
  <1>2. /\ path'[g] = <<o>>
        /\ \A f \in Handles \ {g} : path'[f] = path[f]
    BY DEF TypeOK
  <1>3. /\ Holders(o)' = Holders(o) \cup {g}
        /\ g \notin Holders(o)
        /\ \A x \in Objects \ {o} : Holders(x)' = Holders(x)
    BY <1>1, <1>2 DEF Holders
  <1>4. /\ refcnt[o] = Cardinality(Holders(o))
        /\ refcnt'[o] = Cardinality(Holders(o)) + 1
        /\ refcnt'[o] \in 0 .. RefMod - 1
        /\ Cardinality(Holders(o)') = Cardinality(Holders(o)) + 1
        /\ \A x \in Objects \ {o} : refcnt'[x] = refcnt[x]
    <2>1. refcnt[o] = Cardinality(Holders(o))
      BY <1>1 DEF CountExact
    <2>2. /\ Cardinality(Holders(o)) \in Nat /\ IsFiniteSet(Holders(o))
          /\ Cardinality(Holders(o)) + 2 < RefMod
          /\ RefMod \in Nat
      BY <1>1, HolderCount
    <2>3. Cardinality(Holders(o)') = Cardinality(Holders(o)) + 1
      BY <1>3, <2>2, FS_AddElement
    <2>4. refcnt'[o] = Incremented(refcnt[o]) /\ \A x \in Objects \ {o} : refcnt'[x] = refcnt[x]
      BY <1>1 DEF TypeOK
    <2>5. Incremented(refcnt[o]) = Cardinality(Holders(o)) + 1
      BY <2>1, <2>2 DEF Incremented
    <2> QED
      BY <2>1, <2>2, <2>3, <2>4, <2>5
  <1>5. TypeOK'
    <2>1. <<o>> \in Seq(Objects)
      BY <1>1
    <2>2. \A x \in Objects : refcnt'[x] \in 0 .. RefMod - 1
      BY <1>4 DEF TypeOK
    <2>3. refcnt' \in [Objects -> 0 .. RefMod - 1]
      BY <2>2 DEF TypeOK
    <2> QED
      BY <2>1, <2>3 DEF TypeOK
  <1>6. \A x \in Objects : /\ OnStack(x)' <=> OnStack(x)
                           /\ Live(x)' <=> Live(x)
                           /\ Linked(x)' <=> Linked(x)
                           /\ Held(x)' <=> Held(x)
    <2>1. \A x \in Objects : Held(x)' <=> Held(x)
      BY <1>1, <1>2 DEF Held
    <2> QED
      BY <2>1 DEF OnStack, Live, Linked
  <1>7. SoleOwner'
    <2>1. OwnedIsLive' /\ OneKindOfOwner' /\ LiveIsOwned'
      BY <1>6 DEF SoleOwner, OwnedIsLive, OneKindOfOwner, LiveIsOwned
    <2>2. LinkedOnce' /\ DestroyedOnce'
      BY DEF SoleOwner, LinkedOnce, DestroyedOnce
    <2> QED
      BY <2>1, <2>2 DEF SoleOwner
  <1>8. BorrowedIsLinked'
    <2>1. \A i \in 1 .. Len(path'[g]) - 1 : FALSE
      BY <1>2 DEF TypeOK
    <2>2. \A f \in Handles :
             path'[f] = path[f] \/ \A i \in 1 .. Len(path'[f]) - 1 : FALSE
      BY <1>2, <2>1 DEF TypeOK
    <2>3. \A p \in Objects : \A i \in DOMAIN list[p] : \E j \in DOMAIN list'[p] :
             list'[p][j].val = list[p][i].val
      OBVIOUS
    <2> QED
      BY <2>2, <2>3, BorrowedKept
  <1>9. ReleasingHasNoPath'
    BY <1>2 DEF ReleasingHasNoPath, Idle
  <1>10. CountExact'
    <2>1. ASSUME NEW x \in Objects, Held(x)'
          PROVE  refcnt'[x] = Cardinality(Holders(x)')
      <3>1. CASE x = o
        BY <1>4, <3>1
      <3>2. CASE x # o
        BY <1>3, <1>4, <1>6, <2>1, <3>2 DEF CountExact
      <3> QED
        BY <3>1, <3>2
    <2> QED
      BY <2>1 DEF CountExact
  <1>11. LinkedCount'
    <2>1. ~Linked(o)
      BY <1>1 DEF SoleOwner, OneKindOfOwner
    <2> QED
      BY <1>4, <1>6, <2>1 DEF LinkedCount, TypeOK
  <1>12. SizeField'
    BY <1>6 DEF SizeField
  <1> QED
    BY <1>5, <1>7, <1>8, <1>9, <1>10, <1>11, <1>12

\* Dropping a handle: the object stays with its other holders, or this was the
\* only one and the object moves to the destruction stack.
LEMMA ReleaseStep ==
    ASSUME IInv, NEW h \in Handles, xpc_release(h)
    PROVE  IInv'
  <1> USE DEF IInv
  <1>0. PICK o \in Objects : o = path[h][1]
    BY StateFacts DEF xpc_release, Busy
  <1> DEFINE cnt == Decremented(refcnt[o])
  <1>1. /\ o \in Objects /\ Held(o) /\ h \in Holders(o)
        /\ ~Linked(o) /\ ~OnStack(o) /\ Live(o)
        /\ stack[h] = <<>> /\ path[h] # <<>>
    <2>1. 1 \in 1 .. Len(path[h])
      BY StateFacts DEF xpc_release, Busy
    <2> QED
      BY <1>0, <2>1, ChainSafe DEF xpc_release, Busy, SoleOwner, OneKindOfOwner
  <1>2. /\ path'[h] = <<>>
        /\ \A f \in Handles \ {h} : path'[f] = path[f]
        /\ stack'[h] = IF cnt = 0 THEN <<o>> ELSE <<>>
        /\ \A f \in Handles \ {h} : stack'[f] = stack[f]
        /\ refcnt'[o] = cnt
        /\ \A x \in Objects \ {o} : refcnt'[x] = refcnt[x]
        /\ xtype' = xtype /\ size' = size /\ list' = list
    BY <1>0, <1>1 DEF TypeOK, xpc_release, LastReference
  <1>3. /\ Holders(o)' = Holders(o) \ {h}
        /\ \A x \in Objects \ {o} : Holders(x)' = Holders(x)
    BY <1>0, <1>1, <1>2 DEF Holders
  <1>4. /\ cnt = Cardinality(Holders(o)')
        /\ cnt \in 0 .. RefMod - 1
        /\ cnt = 0 <=> ~Held(o)'
    <2>1. refcnt[o] = Cardinality(Holders(o))
      BY <1>1 DEF CountExact
    <2>2. /\ Cardinality(Holders(o)) \in Nat /\ IsFiniteSet(Holders(o))
          /\ Cardinality(Holders(o)) + 2 < RefMod
          /\ Cardinality(Holders(o)) # 0
          /\ RefMod \in Nat
      BY <1>1, HolderCount
    <2>3. cnt = Cardinality(Holders(o)) - 1
      BY <2>1, <2>2 DEF Decremented
    <2>4. /\ Cardinality(Holders(o)') = Cardinality(Holders(o)) - 1
          /\ IsFiniteSet(Holders(o)')
      BY <1>1, <1>3, <2>2, FS_RemoveElement
    <2>5. Cardinality(Holders(o)') = 0 <=> Holders(o)' = {}
      BY <2>4, FS_EmptySet
    <2>6. Holders(o)' = {} <=> ~Held(o)'
      BY DEF Holders, Held
    <2> QED
      BY <2>2, <2>3, <2>4, <2>5, <2>6
  <1> HIDE DEF cnt
  <1>5. TypeOK'
    <2>1. path' \in [Handles -> Seq(Objects)]
      <3>1. <<>> \in Seq(Objects)
        OBVIOUS
      <3> QED
        BY <3>1 DEF TypeOK, xpc_release
    <2>2. stack' \in [Handles -> Seq(Objects)]
      <3>1. <<>> \in Seq(Objects) /\ <<o>> \in Seq(Objects)
        BY <1>1
      <3> QED
        BY <1>0, <3>1 DEF TypeOK, xpc_release
    <2>3. refcnt' \in [Objects -> 0 .. RefMod - 1]
      BY <1>0, <1>4 DEF TypeOK, xpc_release, cnt
    <2> QED
      BY <1>2, <2>1, <2>2, <2>3 DEF TypeOK
  <1>6. \A x \in Objects : /\ OnStack(x)' <=> (OnStack(x) \/ (x = o /\ cnt = 0))
                           /\ Live(x)' <=> Live(x)
                           /\ Linked(x)' <=> Linked(x)
                           /\ Held(x)' <=> (Held(x) /\ ~(x = o /\ cnt = 0))
    <2>1. \A x \in Objects : OnStack(x)' <=> (OnStack(x) \/ (x = o /\ cnt = 0))
      BY <1>1, <1>2 DEF OnStack
    <2>2. \A x \in Objects \ {o} : Held(x)' <=> Held(x)
      BY <1>0, <1>1, <1>2 DEF Held
    <2>3. \A x \in Objects : (Live(x)' <=> Live(x)) /\ (Linked(x)' <=> Linked(x))
      BY <1>2 DEF Live, Linked
    <2> QED
      BY <1>1, <1>4, <2>1, <2>2, <2>3
  <1>7. SoleOwner'
    <2>1. OwnedIsLive' /\ OneKindOfOwner' /\ LiveIsOwned'
      BY <1>1, <1>2, <1>6 DEF SoleOwner, OwnedIsLive, OneKindOfOwner, LiveIsOwned
    <2>2. LinkedOnce'
      BY <1>2 DEF SoleOwner, LinkedOnce
    <2>3. DestroyedOnce'
      <3> SUFFICES ASSUME NEW f \in Handles, NEW g \in Handles,
                          NEW i \in DOMAIN stack'[f], NEW j \in DOMAIN stack'[g],
                          stack'[f][i] = stack'[g][j]
                   PROVE  f = g /\ i = j
        BY DEF DestroyedOnce
      <3>1. \A k \in DOMAIN stack'[h] : k = 1 /\ stack'[h][k] = o
        BY <1>2
      <3>2. CASE f # h /\ g # h
        BY <1>2, <3>2 DEF SoleOwner, DestroyedOnce
      <3>3. CASE f = h /\ g # h
        BY <1>1, <1>2, <3>1, <3>3 DEF OnStack
      <3>4. CASE f # h /\ g = h
        BY <1>1, <1>2, <3>1, <3>4 DEF OnStack
      <3>5. CASE f = h /\ g = h
        BY <3>1, <3>5
      <3> QED
        BY <3>2, <3>3, <3>4, <3>5
    <2> QED
      BY <2>1, <2>2, <2>3 DEF SoleOwner
  <1>8. BorrowedIsLinked'
    <2>1. \A f \in Handles :
             path'[f] = path[f] \/ \A i \in 1 .. Len(path'[f]) - 1 : FALSE
      BY <1>2
    <2>2. \A p \in Objects : \A i \in DOMAIN list[p] : \E j \in DOMAIN list'[p] :
             list'[p][j].val = list[p][i].val
      BY <1>2
    <2> QED
      BY <2>1, <2>2, BorrowedKept
  <1>9. ReleasingHasNoPath'
    BY <1>2 DEF ReleasingHasNoPath
  <1>10. CountExact'
    <2>1. ASSUME NEW x \in Objects, Held(x)'
          PROVE  refcnt'[x] = Cardinality(Holders(x)')
      <3>1. CASE x = o
        BY <1>2, <1>4, <3>1
      <3>2. CASE x # o
        BY <1>2, <1>3, <1>6, <2>1, <3>2 DEF CountExact
      <3> QED
        BY <3>1, <3>2
    <2> QED
      BY <2>1 DEF CountExact
  <1>11. LinkedCount'
    BY <1>1, <1>2, <1>6 DEF LinkedCount
  <1>12. SizeField'
    BY <1>2, <1>6 DEF SizeField
  <1> QED
    BY <1>5, <1>7, <1>8, <1>9, <1>10, <1>11, <1>12

\* Unlinking the first element of the container being destroyed and going on
\* with it: the element leaves the links and joins the stack.
LEMMA DestroyChildStep ==
    ASSUME IInv, NEW h \in Handles, destroy_child(h)
    PROVE  IInv'
  <1> USE DEF IInv
  <1>0. PICK o \in Objects : o = Top(stack[h])
    BY StateFacts DEF destroy_child
  <1>1. PICK c \in Objects : c = list[o][1].val
    BY <1>0, StateFacts DEF destroy_child
  <1>2. /\ list[o] \in Seq(Entry) /\ list[o] # <<>>
        /\ 1 \in DOMAIN list[o]
        /\ stack[h] \in Seq(Objects) /\ stack[h] # <<>>
        /\ Len(stack[h]) \in DOMAIN stack[h]
        /\ path[h] = <<>>
        /\ OnStack(o) /\ Linked(c) /\ ~OnStack(c) /\ ~Held(c)
    <2>1. /\ list[o] \in Seq(Entry) /\ list[o] # <<>>
          /\ stack[h] \in Seq(Objects) /\ stack[h] # <<>>
      BY <1>0 DEF destroy_child, TypeOK
    <2>2. 1 \in DOMAIN list[o] /\ Len(stack[h]) \in DOMAIN stack[h]
      BY <2>1, StateFacts
    <2>3. OnStack(o) /\ Linked(c)
      BY <1>0, <1>1, <2>2 DEF OnStack, Linked, Top
    <2> QED
      BY <2>1, <2>2, <2>3 DEF SoleOwner, OneKindOfOwner, ReleasingHasNoPath
  <1>3. /\ list'[o] = Tail(list[o])
        /\ \A p \in Objects \ {o} : list'[p] = list[p]
        /\ stack'[h] = Append(stack[h], c)
        /\ \A f \in Handles \ {h} : stack'[f] = stack[f]
        /\ xtype' = xtype /\ refcnt' = refcnt /\ size' = size /\ path' = path
    BY <1>0, <1>1 DEF destroy_child, TypeOK
  <1>4. /\ list'[o] \in Seq(Entry)
        /\ Len(list[o]) \in Nat
        /\ DOMAIN list[o] = 1 .. Len(list[o])
        /\ DOMAIN list'[o] = 1 .. Len(list[o]) - 1
        /\ \A i \in 1 .. Len(list[o]) - 1 : list'[o][i] = list[o][i + 1]
    BY <1>2, <1>3, TailFacts, SeqFacts
  <1>5. /\ stack'[h] \in Seq(Objects)
        /\ Len(stack[h]) \in Nat
        /\ DOMAIN stack[h] = 1 .. Len(stack[h])
        /\ DOMAIN stack'[h] = 1 .. Len(stack[h]) + 1
        /\ \A i \in 1 .. Len(stack[h]) : stack'[h][i] = stack[h][i]
        /\ stack'[h][Len(stack[h]) + 1] = c
    BY <1>2, <1>3, AppendFacts, SeqFacts
  <1>6. TypeOK'
    <2>1. list' \in [Objects -> Seq(Entry)]
      BY <1>0, <1>3, <1>4 DEF TypeOK, destroy_child
    <2>2. stack' \in [Handles -> Seq(Objects)]
      BY <1>3, <1>5 DEF TypeOK, destroy_child
    <2> QED
      BY <1>3, <2>1, <2>2 DEF TypeOK
  <1>7. /\ \A p \in Objects : \A i \in DOMAIN list'[p] :
              \/ p # o /\ i \in DOMAIN list[p] /\ list'[p][i] = list[p][i]
              \/ p = o /\ i + 1 \in DOMAIN list[o] /\ list'[p][i] = list[o][i + 1]
                 /\ i + 1 # 1 /\ i \in Int
        /\ \A p \in Objects : \A i \in DOMAIN list[p] :
              (p = o /\ i = 1) \/ \E j \in DOMAIN list'[p] : list'[p][j] = list[p][i]
    <2>1. ASSUME NEW i \in DOMAIN list'[o]
          PROVE  /\ i + 1 \in DOMAIN list[o] /\ list'[o][i] = list[o][i + 1]
                 /\ i + 1 # 1 /\ i \in Int
      BY <1>4
    <2>2. ASSUME NEW i \in DOMAIN list[o], i # 1
          PROVE  \E j \in DOMAIN list'[o] : list'[o][j] = list[o][i]
      <3>1. i - 1 \in DOMAIN list'[o] /\ (i - 1) + 1 = i
        BY <1>4, <2>2
      <3> QED
        BY <1>4, <3>1
    <2> QED
      BY <1>3, <2>1, <2>2
  <1>8. \A f \in Handles : \A i \in DOMAIN stack'[f] :
           \/ i \in DOMAIN stack[f] /\ stack'[f][i] = stack[f][i]
           \/ f = h /\ i = Len(stack[h]) + 1 /\ stack'[f][i] = c
    BY <1>3, <1>5
  <1>9. \A x \in Objects : /\ Linked(x)' <=> (Linked(x) /\ x # c)
                           /\ OnStack(x)' <=> (OnStack(x) \/ x = c)
                           /\ Held(x)' <=> Held(x)
                           /\ Holders(x)' = Holders(x)
                           /\ Live(x)' <=> Live(x)
    <2>1. ASSUME NEW x \in Objects
          PROVE  Linked(x)' <=> (Linked(x) /\ x # c)
      <3>1. Linked(x) /\ x # c => Linked(x)'
        BY <1>1, <1>7 DEF Linked
      <3>2. ASSUME Linked(x)'
            PROVE  Linked(x) /\ x # c
        <4>1. PICK p \in Objects : \E i \in DOMAIN list'[p] : list'[p][i].val = x
          BY <3>2 DEF Linked
        <4>2. PICK i \in DOMAIN list'[p] : list'[p][i].val = x
          BY <4>1
        <4>3. PICK k \in DOMAIN list[p] : list[p][k].val = x /\ ~(p = o /\ k = 1)
          BY <1>7, <4>2
        <4>4. x # c
          BY <1>1, <1>2, <4>3 DEF SoleOwner, LinkedOnce
        <4> QED
          BY <4>3, <4>4 DEF Linked
      <3> QED
        BY <3>1, <3>2
    <2>2. ASSUME NEW x \in Objects
          PROVE  OnStack(x)' <=> (OnStack(x) \/ x = c)
      <3>1. OnStack(x) => OnStack(x)'
        BY <1>3, <1>5 DEF OnStack
      <3>2. Len(stack[h]) + 1 \in DOMAIN stack'[h]
        BY <1>5
      <3>3. x = c => OnStack(x)'
        BY <1>5, <3>2 DEF OnStack
      <3>4. OnStack(x)' => OnStack(x) \/ x = c
        BY <1>8 DEF OnStack
      <3> QED
        BY <3>1, <3>3, <3>4
    <2> QED
      BY <1>3, <2>1, <2>2 DEF Held, Holders, Live
  <1>10. SoleOwner'
    <2>1. \A x \in Objects : /\ Held(x)' \/ Linked(x)' \/ OnStack(x)' => Live(x)'
                             /\ ~(Held(x)' /\ Linked(x)')
                             /\ ~(Held(x)' /\ OnStack(x)')
                             /\ ~(Linked(x)' /\ OnStack(x)')
                             /\ Live(x)' => Held(x)' \/ Linked(x)' \/ OnStack(x)'
      BY <1>2, <1>9 DEF SoleOwner, OwnedIsLive, OneKindOfOwner, LiveIsOwned
    <2>2. \A x \in Objects : ~Live(x)' => list'[x] = <<>>
      BY <1>2, <1>3, <1>9 DEF SoleOwner, OwnedIsLive
    <2>3. LinkedOnce'
      <3> SUFFICES ASSUME NEW p \in Objects, NEW q \in Objects,
                          NEW i \in DOMAIN list'[p], NEW j \in DOMAIN list'[q],
                          list'[p][i].val = list'[q][j].val
                   PROVE  p = q /\ i = j
        BY DEF LinkedOnce
      <3>1. CASE p = o /\ q = o
        BY <1>7, <3>1 DEF SoleOwner, LinkedOnce
      <3>2. CASE p = o /\ q # o
        BY <1>7, <3>2 DEF SoleOwner, LinkedOnce
      <3>3. CASE p # o /\ q = o
        BY <1>7, <3>3 DEF SoleOwner, LinkedOnce
      <3>4. CASE p # o /\ q # o
        BY <1>7, <3>4 DEF SoleOwner, LinkedOnce
      <3> QED
        BY <3>1, <3>2, <3>3, <3>4
    <2>4. DestroyedOnce'
      <3> SUFFICES ASSUME NEW f \in Handles, NEW g \in Handles,
                          NEW i \in DOMAIN stack'[f], NEW j \in DOMAIN stack'[g],
                          stack'[f][i] = stack'[g][j]
                   PROVE  f = g /\ i = j
        BY DEF DestroyedOnce
      <3> QED
        BY <1>2, <1>8 DEF SoleOwner, DestroyedOnce, OnStack
    <2> QED
      BY <2>1, <2>2, <2>3, <2>4
      DEF SoleOwner, OwnedIsLive, OneKindOfOwner, LiveIsOwned
  <1>11. BorrowedIsLinked'
    <2>1. \A p \in Objects : ~OnStack(p) =>
             \A i \in DOMAIN list[p] : \E j \in DOMAIN list'[p] :
                list'[p][j].val = list[p][i].val
      BY <1>2, <1>3
    <2> QED
      BY <1>3, <2>1, BorrowedKept
  <1>12. ReleasingHasNoPath'
    BY <1>2, <1>3 DEF ReleasingHasNoPath
  <1>13. CountExact' /\ LinkedCount'
    BY <1>3, <1>9 DEF CountExact, LinkedCount
  <1>14. SizeField'
    BY <1>2, <1>3, <1>9 DEF SizeField
  <1> QED
    BY <1>6, <1>10, <1>11, <1>12, <1>13, <1>14

\* Freeing the object on top of the stack.
LEMMA FreeStep ==
    ASSUME IInv, NEW h \in Handles, free_object(h)
    PROVE  IInv'
  <1> USE DEF IInv
  <1>0. PICK o \in Objects : o = Top(stack[h])
    BY StateFacts DEF free_object
  <1>1. /\ list[o] = <<>>
        /\ stack[h] \in Seq(Objects) /\ stack[h] # <<>>
        /\ Len(stack[h]) \in DOMAIN stack[h]
        /\ path[h] = <<>>
        /\ OnStack(o) /\ ~Linked(o) /\ ~Held(o)
    <2>1. list[o] = <<>> /\ stack[h] \in Seq(Objects) /\ stack[h] # <<>>
      BY <1>0 DEF free_object, TypeOK
    <2>2. Len(stack[h]) \in DOMAIN stack[h]
      BY <2>1, StateFacts
    <2>3. OnStack(o)
      BY <1>0, <2>2 DEF OnStack, Top
    <2> QED
      BY <2>1, <2>2, <2>3 DEF SoleOwner, OneKindOfOwner, ReleasingHasNoPath
  <1>2. /\ list' = list /\ path' = path
        /\ xtype'[o] = "free" /\ \A x \in Objects \ {o} : xtype'[x] = xtype[x]
        /\ \A x \in Objects \ {o} : refcnt'[x] = refcnt[x] /\ size'[x] = size[x]
        /\ stack'[h] = SubSeq(stack[h], 1, Len(stack[h]) - 1)
        /\ \A f \in Handles \ {h} : stack'[f] = stack[f]
    BY <1>0 DEF free_object, TypeOK
  <1>3. /\ stack'[h] \in Seq(Objects)
        /\ Len(stack[h]) \in Nat
        /\ DOMAIN stack[h] = 1 .. Len(stack[h])
        /\ DOMAIN stack'[h] = 1 .. Len(stack[h]) - 1
        /\ \A i \in 1 .. Len(stack[h]) - 1 : stack'[h][i] = stack[h][i]
    BY <1>1, <1>2, PopFacts, SeqFacts
  <1>4. TypeOK'
    <2>1. stack' \in [Handles -> Seq(Objects)]
      BY <1>2, <1>3 DEF TypeOK, free_object
    <2>2. 0 \in 0 .. RefMod - 1
      BY HolderCount
    <2>3. /\ xtype' \in [Objects -> Types \cup {"free"}]
          /\ refcnt' \in [Objects -> 0 .. RefMod - 1]
          /\ size' \in [Objects -> Nat]
      BY <2>2 DEF TypeOK, free_object
    <2> QED
      BY <1>2, <2>1, <2>3 DEF TypeOK
  <1>5. /\ \A f \in Handles : \A i \in DOMAIN stack'[f] :
              /\ i \in DOMAIN stack[f] /\ stack'[f][i] = stack[f][i]
              /\ ~(f = h /\ i = Len(stack[h]))
        /\ \A f \in Handles : \A i \in DOMAIN stack[f] :
              \/ i \in DOMAIN stack'[f] /\ stack'[f][i] = stack[f][i]
              \/ f = h /\ i = Len(stack[h])
    <2>1. \A i \in DOMAIN stack'[h] : /\ i \in DOMAIN stack[h]
                                      /\ stack'[h][i] = stack[h][i]
                                      /\ i # Len(stack[h])
      BY <1>3
    <2>2. \A i \in DOMAIN stack[h] :
             \/ i \in DOMAIN stack'[h] /\ stack'[h][i] = stack[h][i]
             \/ i = Len(stack[h])
      BY <1>3
    <2> QED
      BY <1>2, <2>1, <2>2
  <1>6. \A x \in Objects : /\ Linked(x)' <=> Linked(x)
                           /\ OnStack(x)' <=> (OnStack(x) /\ x # o)
                           /\ Held(x)' <=> Held(x)
                           /\ Holders(x)' = Holders(x)
                           /\ Live(x)' <=> (Live(x) /\ x # o)
    <2>1. ASSUME NEW x \in Objects
          PROVE  OnStack(x)' <=> (OnStack(x) /\ x # o)
      <3>1. OnStack(x)' => OnStack(x) /\ x # o
        <4>1. stack[h][Len(stack[h])] = o
          BY <1>0 DEF Top
        <4> QED
          BY <1>1, <1>5, <4>1 DEF OnStack, SoleOwner, DestroyedOnce
      <3>2. OnStack(x) /\ x # o => OnStack(x)'
        BY <1>0, <1>5 DEF OnStack, Top
      <3> QED
        BY <3>1, <3>2
    <2>2. \A x \in Objects : Live(x)' <=> (Live(x) /\ x # o)
      BY <1>2 DEF Live
    <2> QED
      BY <1>2, <2>1, <2>2 DEF Linked, Held, Holders
  <1>7. SoleOwner'
    <2>1. \A x \in Objects : /\ Held(x)' \/ Linked(x)' \/ OnStack(x)' => Live(x)'
                             /\ ~(Held(x)' /\ Linked(x)')
                             /\ ~(Held(x)' /\ OnStack(x)')
                             /\ ~(Linked(x)' /\ OnStack(x)')
                             /\ Live(x)' => Held(x)' \/ Linked(x)' \/ OnStack(x)'
      BY <1>1, <1>6 DEF SoleOwner, OwnedIsLive, OneKindOfOwner, LiveIsOwned
    <2>2. \A x \in Objects : ~Live(x)' => list'[x] = <<>>
      BY <1>1, <1>2, <1>6 DEF SoleOwner, OwnedIsLive
    <2>3. LinkedOnce'
      BY <1>2 DEF SoleOwner, LinkedOnce
    <2>4. DestroyedOnce'
      BY <1>5 DEF SoleOwner, DestroyedOnce
    <2> QED
      BY <2>1, <2>2, <2>3, <2>4
      DEF SoleOwner, OwnedIsLive, OneKindOfOwner, LiveIsOwned
  <1>8. BorrowedIsLinked'
    BY <1>2 DEF BorrowedIsLinked
  <1>9. ReleasingHasNoPath'
    BY <1>1, <1>2 DEF ReleasingHasNoPath
  <1>10. CountExact' /\ LinkedCount'
    BY <1>1, <1>2, <1>6 DEF CountExact, LinkedCount
  <1>11. SizeField'
    BY <1>1, <1>2, <1>6 DEF SizeField
  <1> QED
    BY <1>4, <1>7, <1>8, <1>9, <1>10, <1>11

-----------------------------------------------------------------------------
(* The actions *)

\* A put by a caller that releases the value, or gives it up unreleased, has the
\* shape of PutStep: the value's count is 1 or 2 afterwards and nothing is
\* destroyed.
LEMMA PutValueStep ==
    ASSUME IInv, NEW h \in Handles, NEW g \in Handles, MayPut(h, g),
           NEW release \in BOOLEAN, NEW k \in Keys \cup {NoKey}, NEW n \in Nat,
           xtype[Top(path[h])] \in Containers,
           xtype[Top(path[h])] = "dict" =>
              n = size[Top(path[h])] + 1 /\ NewKey(Top(path[h]), k),
           xtype[Top(path[h])] = "array" => n = size[Top(path[h])],
           PutValue(g, Top(path[h]), path[g][1],
                    [list |-> Append(list[Top(path[h])],
                                     [key |-> k, val |-> path[g][1]]),
                     size |-> n, retain |-> TRUE],
                    release)
    PROVE  IInv'
  <1> DEFINE v == path[g][1]
             e == [key |-> k, val |-> v]
             cnt == IF release THEN Decremented(Incremented(refcnt[v]))
                               ELSE Incremented(refcnt[v])
  <1> USE DEF IInv
  <1>1. v \in Objects /\ stack[g] = <<>> /\ 1 \in 1 .. Len(path[g])
    BY StateFacts DEF MayPut, Busy
  <1>2. refcnt[v] = 1 /\ RefMod \in Nat /\ RefMod > 2
    <2>1. Held(v) /\ Holders(v) = {g}
      BY <1>1, ChainSafe DEF MayPut
    <2>2. Cardinality(Holders(v)) = 1
      BY <2>1, FS_Singleton
    <2>3. refcnt[v] = 1
      BY <1>1, <2>1, <2>2 DEF CountExact
    <2>4. /\ RefMod \in Nat /\ Cardinality(Holders(v)) \in Nat
          /\ Cardinality(Holders(v)) + 2 < RefMod
      BY <1>1, HolderCount
    <2> QED
      BY <2>2, <2>3, <2>4
  <1>3. cnt \in 1 .. 2
    <2>1. Incremented(refcnt[v]) = 2
      BY <1>2 DEF Incremented
    <2>2. Decremented(2) = 1
      BY DEF Decremented
    <2> QED
      BY <2>1, <2>2
  <1>4. e \in Entry /\ e.val = v /\ e.key = k
    BY <1>1 DEF Entry
  <1>5. /\ list' = [list EXCEPT ![Top(path[h])] = Append(list[Top(path[h])], e)]
        /\ size' = [size EXCEPT ![Top(path[h])] = n]
        /\ refcnt' = [refcnt EXCEPT ![v] = cnt]
        /\ path' = [path EXCEPT ![g] = <<>>]
        /\ xtype' = xtype
    BY DEF PutValue
  <1>6. stack' = stack
    <2>1. stack' = [stack EXCEPT ![g] = IF release /\ LastReference(cnt)
                                         THEN <<v>> ELSE <<>>]
      BY DEF PutValue
    <2>2. ~LastReference(cnt)
      BY <1>3 DEF LastReference
    <2> HIDE DEF cnt
    <2> QED
      BY <1>1, <2>1, <2>2 DEF TypeOK
  <1> HIDE DEF cnt, e
  <1> QED
    BY <1>3, <1>4, <1>5, <1>6, PutStep

\* Every step of Next has one of the shapes, when callers stay within the
\* repository's practice.
LEMMA NextIInv ==
    ASSUME Practices = {}, IInv, [Next]_vars
    PROVE  IInv'
  <1> USE DEF IInv
  <1>1. CASE UNCHANGED vars
    <2>1. /\ xtype' = xtype /\ refcnt' = refcnt /\ size' = size
          /\ list' = list /\ path' = path /\ stack' = stack
      BY <1>1 DEF vars
    <2>2. \A x \in Objects : /\ Linked(x)' <=> Linked(x)
                             /\ OnStack(x)' <=> OnStack(x)
                             /\ Held(x)' <=> Held(x)
                             /\ Holders(x)' = Holders(x)
                             /\ Live(x)' <=> Live(x)
      BY <2>1 DEF Linked, OnStack, Held, Holders, Live
    <2>3. TypeOK'
      BY <2>1 DEF TypeOK
    <2>4. SoleOwner'
      BY <2>1, <2>2 DEF SoleOwner, OwnedIsLive, OneKindOfOwner, LinkedOnce,
                        DestroyedOnce, LiveIsOwned
    <2>5. BorrowedIsLinked' /\ ReleasingHasNoPath'
      BY <2>1 DEF BorrowedIsLinked, ReleasingHasNoPath
    <2>6. CountExact' /\ LinkedCount' /\ SizeField'
      BY <2>1, <2>2 DEF CountExact, LinkedCount, SizeField
    <2> QED
      BY <2>3, <2>4, <2>5, <2>6
  <1>2. ASSUME NEW h \in Handles, Create(h)
        PROVE  IInv'
    <2>1. PICK o \in Objects : \/ xpc_prim_create(h, o)
                               \/ xpc_dictionary_create(h, o)
                               \/ xpc_array_create(h, o)
      BY <1>2 DEF Create
    <2>2. CASE xpc_prim_create(h, o)
      BY <2>2, CreateStep DEF xpc_prim_create, Types
    <2>3. CASE xpc_dictionary_create(h, o)
      BY <2>3, CreateStep DEF xpc_dictionary_create, Types, Containers
    <2>4. CASE xpc_array_create(h, o)
      BY <2>4, CreateStep DEF xpc_array_create, Types, Containers
    <2> QED
      BY <2>1, <2>2, <2>3, <2>4
  <1>3. ASSUME NEW h \in Handles, Put(h)
        PROVE  IInv'
    <2> DEFINE d == Top(path[h])
    <2>1. ASSUME NEW g \in Handles, newXPCObject_array(h, g) \/ deserialise_arr(h, g)
          PROVE  IInv'
      <3>1. PICK r \in BOOLEAN :
               /\ MayPut(h, g) /\ xtype[d] = "array"
               /\ PutValue(g, d, path[g][1], xpc_array_append_value(d, path[g][1]), r)
        BY <2>1 DEF newXPCObject_array, deserialise_arr
      <3>2. d \in Objects /\ size[d] \in Nat
        BY <3>1, StateFacts DEF MayPut, Busy, TypeOK
      <3> QED
        BY <3>1, <3>2, PutValueStep DEF xpc_array_append_value, Containers
    <2>2. ASSUME NEW g \in Handles, NEW k \in Keys,
                 newXPCObject_dict(h, g, k) \/ deserialise_dict(h, g, k)
          PROVE  IInv'
      <3>1. PICK r \in BOOLEAN :
               /\ MayPut(h, g) /\ xtype[d] = "dict" /\ NewKey(d, k)
               /\ PutValue(g, d, path[g][1],
                           xpc_dictionary_set_value(d, k, path[g][1]), r)
        BY <2>2 DEF newXPCObject_dict, deserialise_dict, MaySet
      <3>2. d \in Objects /\ size[d] + 1 \in Nat
        <4>1. d \in Objects
          BY <3>1, StateFacts DEF MayPut, Busy
        <4>2. size[d] \in Nat
          BY <4>1 DEF TypeOK
        <4> QED
          BY <4>1, <4>2
      <3>3. {i \in DOMAIN list[d] : list[d][i].key = k} = {}
        BY <3>1 DEF NewKey
      <3>4. xpc_dictionary_set_value(d, k, path[g][1]) =
              [list |-> Append(list[d], [key |-> k, val |-> path[g][1]]),
               size |-> size[d] + 1, retain |-> TRUE]
        BY <3>3 DEF xpc_dictionary_set_value
      <3> QED
        BY <3>1, <3>2, <3>4, PutValueStep DEF Containers
    <2>3. ASSUME NEW o \in Objects, xpc_array_append_typed(h, o)
          PROVE  IInv'
      <3> DEFINE e == [key |-> NoKey, val |-> o]
      <3>1. /\ Busy(h) /\ ~Live(o) /\ xtype[d] = "array"
            /\ xtype' = [xtype EXCEPT ![o] = "prim"]
            /\ list' = [list EXCEPT ![o] = <<>>, ![d] = Append(list[d], e)]
            /\ size' = [size EXCEPT ![o] = 1, ![d] = size[d]]
            /\ refcnt' = [refcnt EXCEPT ![o] = Incremented(1)]
            /\ path' = path /\ stack' = stack
        BY <2>3 DEF xpc_array_append_typed, xpc_array_append_value
      <3>2. d \in Objects /\ size[d] \in Nat
        BY <3>1, StateFacts DEF Busy, TypeOK
      <3>3. Incremented(1) = 2
        BY HolderCount, <3>2 DEF Incremented
      <3>4. e \in Entry /\ e.val = o
        BY DEF Entry
      <3> HIDE DEF e
      <3> QED
        BY <3>1, <3>2, <3>3, <3>4, TypedStep DEF Containers
    <2>4. ASSUME NEW o \in Objects, NEW k \in Keys, xpc_dictionary_set_typed(h, k, o)
          PROVE  IInv'
      <3> DEFINE e == [key |-> k, val |-> o]
      <3>1. xtype[d] = "dict" /\ NewKey(d, k) /\ Busy(h)
        BY <2>4 DEF xpc_dictionary_set_typed, MaySet
      <3>2. {i \in DOMAIN list[d] : list[d][i].key = k} = {}
        BY <3>1 DEF NewKey
      <3>3. xpc_dictionary_set_value(d, k, o) =
              [list |-> Append(list[d], e), size |-> size[d] + 1, retain |-> TRUE]
        BY <3>2 DEF xpc_dictionary_set_value
      <3>4. /\ ~Live(o)
            /\ xtype' = [xtype EXCEPT ![o] = "prim"]
            /\ list' = [list EXCEPT ![o] = <<>>, ![d] = Append(list[d], e)]
            /\ size' = [size EXCEPT ![o] = 1, ![d] = size[d] + 1]
            /\ refcnt' = [refcnt EXCEPT ![o] = Incremented(1)]
            /\ path' = path /\ stack' = stack
        BY <2>4, <3>3 DEF xpc_dictionary_set_typed
      <3>5. d \in Objects /\ size[d] + 1 \in Nat
        <4>1. d \in Objects
          BY <3>1, StateFacts DEF Busy
        <4>2. size[d] \in Nat
          BY <4>1 DEF TypeOK
        <4> QED
          BY <4>1, <4>2
      <3>6. Incremented(1) = 2
        BY HolderCount, <3>5 DEF Incremented
      <3>7. e \in Entry /\ e.val = o /\ e.key = k
        BY DEF Entry
      <3> HIDE DEF e
      <3> QED
        BY <3>1, <3>4, <3>5, <3>6, <3>7, TypedStep DEF Containers
    <2>5. ~\E o \in Objects, i \in Indices : xpc_array_set_typed(h, i, o)
      BY DEF xpc_array_set_typed
    <2> QED
      BY <1>3, <2>1, <2>2, <2>3, <2>4, <2>5 DEF Put
  <1>4. ASSUME NEW h \in Handles, Get(h)
        PROVE  IInv'
    <2> DEFINE d == Top(path[h])
    <2>1. ASSUME NEW k \in Keys, xpc_dictionary_get_value(h, k)
          PROVE  IInv'
      <3> DEFINE hits == {i \in DOMAIN list[d] : list[d][i].key = k}
      <3>1. Busy(h) /\ hits # {} /\ d \in Objects
        BY <2>1, StateFacts DEF xpc_dictionary_get_value, Busy
      <3>2. \E i \in hits : \A j \in hits : i <= j
        <4>1. xtype[d] = "dict" /\ ~OnStack(d)
          BY <2>1, <3>1, StateFacts, ChainSafe DEF xpc_dictionary_get_value, Busy, Top
        <4>2. \A i, j \in hits : i = j
          BY <3>1, <4>1 DEF SizeField
        <4>3. \A i \in hits : i \in Int
          BY <3>1, StateFacts
        <4> QED
          BY <3>1, <4>2, <4>3
      <3>3. PICK j \in hits : j = CHOOSE i \in hits : \A m \in hits : i <= m
        BY <3>2
      <3> QED
        BY <2>1, <3>1, <3>3, GetStep DEF xpc_dictionary_get_value
    <2>2. ASSUME NEW i \in Indices, xpc_array_get_value(h, i)
          PROVE  IInv'
      <3>1. Busy(h) /\ d \in Objects
        BY <2>2, StateFacts DEF xpc_array_get_value, Busy
      <3>2. i + 1 \in DOMAIN list[d]
        BY <2>2, <3>1, StateFacts, IndicesAssumption DEF xpc_array_get_value
      <3> QED
        BY <2>2, <3>1, <3>2, GetStep DEF xpc_array_get_value
    <2> QED
      BY <1>4, <2>1, <2>2 DEF Get
  <1>5. ASSUME NEW h \in Handles, NEW g \in Handles, xpc_retain(h, g)
        PROVE  IInv'
    BY <1>5, RetainStep DEF xpc_retain
  <1>6. ASSUME NEW h \in Handles, xpc_release(h)
        PROVE  IInv'
    BY <1>6, ReleaseStep
  <1>7. ASSUME NEW h \in Handles, xpc_object_destroy(h)
        PROVE  IInv'
    BY <1>7, DestroyChildStep, FreeStep DEF xpc_object_destroy
  <1> QED
    BY <1>1, <1>2, <1>3, <1>4, <1>5, <1>6, <1>7 DEF Next

-----------------------------------------------------------------------------
(* Theorems *)

\* The inductive invariant holds in every reachable state, for any number of
\* objects, handles and keys, under the repository's own calling practice
\* (xpc_misc.c, xpc_dictionary.c, xpc_array.c).
THEOREM Invariance == Practices = {} => (Spec => []IInv)
  <1> SUFFICES ASSUME Practices = {} PROVE Spec => []IInv
    OBVIOUS
  <1>1. Init => IInv
    BY InitIInv
  <1>2. IInv /\ [Next]_vars => IInv'
    BY NextIInv
  <1> QED
    BY <1>1, <1>2, PTL DEF Spec

\* Every variable keeps its type; in particular xo_refcnt never wraps.
THEOREM TypeCorrect == Practices = {} => (Spec => []TypeOK)
  <1> SUFFICES ASSUME Practices = {} PROVE Spec => []TypeOK
    OBVIOUS
  <1>1. Spec => []IInv
    BY Invariance
  <1>2. IInv => TypeOK
    BY DEF IInv
  <1> QED
    BY <1>1, <1>2, PTL

\* xpc_object_destroy, which ignores the children's counts, still frees every
\* object exactly once: an allocated object has owners of exactly one kind.
THEOREM SingleOwnership == Practices = {} => (Spec => []SoleOwner)
  <1> SUFFICES ASSUME Practices = {} PROVE Spec => []SoleOwner
    OBVIOUS
  <1>1. Spec => []IInv
    BY Invariance
  <1>2. IInv => SoleOwner
    BY DEF IInv
  <1> QED
    BY <1>1, <1>2, PTL

\* No caller ever has a pointer, owned or borrowed, to an object that is freed or
\* that a destruction has reached.
THEOREM NoUseAfterFree == Practices = {} => (Spec => []HandleSafe)
  <1> SUFFICES ASSUME Practices = {} PROVE Spec => []HandleSafe
    OBVIOUS
  <1>1. Spec => []IInv
    BY Invariance
  <1>2. IInv => HandleSafe
    <2> SUFFICES ASSUME IInv, NEW h \in Handles, NEW i \in DOMAIN path[h]
                 PROVE  Live(path[h][i]) /\ ~OnStack(path[h][i])
      BY DEF HandleSafe
    <2>1. i \in 1 .. Len(path[h])
      BY StateFacts DEF IInv
    <2> QED
      BY <2>1, ChainSafe
  <1> QED
    BY <1>1, <1>2, PTL

\* xo_refcnt of a held object is the number of its handles in every reachable
\* state.
THEOREM ExactCount == Practices = {} => (Spec => []CountExact)
  <1> SUFFICES ASSUME Practices = {} PROVE Spec => []CountExact
    OBVIOUS
  <1>1. Spec => []IInv
    BY Invariance
  <1>2. IInv => CountExact
    BY DEF IInv
  <1> QED
    BY <1>1, <1>2, PTL

\* The size field of a dictionary is the number of its pairs, and that of an array
\* is 0, so that the branch of xpc_array_set_value that replaces an element is
\* never taken.
THEOREM SizesDescribe == Practices = {} => (Spec => []SizeField)
  <1> SUFFICES ASSUME Practices = {} PROVE Spec => []SizeField
    OBVIOUS
  <1>1. Spec => []IInv
    BY Invariance
  <1>2. IInv => SizeField
    BY DEF IInv
  <1> QED
    BY <1>1, <1>2, PTL

\* Once the count of an object is 0 no step raises it before the object is freed:
\* the decision xpc_release takes on the new count is final.
THEOREM DecisionIsFinal == Practices = {} => (Spec => NoResurrection)
  <1> SUFFICES ASSUME Practices = {} PROVE Spec => NoResurrection
    OBVIOUS
  <1> DEFINE Kept == \A o \in Objects : Live(o) /\ refcnt[o] = 0 => refcnt'[o] = 0
  <1>1. Spec => []IInv
    BY Invariance
  <1>2. ASSUME IInv, [Next]_vars
        PROVE  [Kept]_vars
    <2> SUFFICES ASSUME Next, NEW o \in Objects, Live(o), refcnt[o] = 0
                 PROVE  refcnt'[o] = 0
      BY <1>2
    <2>0. refcnt \in [Objects -> 0 .. RefMod - 1]
      BY <1>2 DEF IInv, TypeOK
    <2>1. ~Held(o)
      <3>1. Held(o) => Cardinality(Holders(o)) = 0
        BY <1>2 DEF IInv, CountExact
      <3> QED
        BY <3>1, HolderCount
    <2>2. \A h \in Handles : path[h] # <<>> => path[h][1] # o
      BY <2>1 DEF Held
    <2>3. PICK h \in Handles : \/ Create(h) \/ Put(h) \/ Get(h)
                               \/ \E g \in Handles : xpc_retain(h, g)
                               \/ xpc_release(h)
                               \/ xpc_object_destroy(h)
      BY DEF Next
    <2>4. CASE Create(h)
      BY <2>0, <2>4 DEF Create, xpc_prim_create, xpc_dictionary_create,
                        xpc_array_create, Created
    <2>5. CASE Put(h)
      <3>1. ASSUME NEW g \in Handles, NEW d, NEW r, NEW rel, MayPut(h, g),
                   PutValue(g, d, path[g][1], r, rel)
            PROVE  refcnt'[o] = 0
        <4>1. path[g][1] # o
          BY <2>2, <3>1 DEF MayPut, Busy
        <4> QED
          BY <2>0, <3>1, <4>1 DEF PutValue
      <3>2. ASSUME NEW g \in Handles, newXPCObject_array(h, g) \/ deserialise_arr(h, g)
            PROVE  refcnt'[o] = 0
        BY <3>1, <3>2 DEF newXPCObject_array, deserialise_arr
      <3>3. ASSUME NEW g \in Handles, NEW k \in Keys,
                   newXPCObject_dict(h, g, k) \/ deserialise_dict(h, g, k)
            PROVE  refcnt'[o] = 0
        BY <3>1, <3>3 DEF newXPCObject_dict, deserialise_dict
      <3>4. ASSUME NEW x \in Objects, xpc_array_append_typed(h, x)
            PROVE  refcnt'[o] = 0
        BY <2>0, <3>4 DEF xpc_array_append_typed
      <3>5. ASSUME NEW x \in Objects, NEW k \in Keys, xpc_dictionary_set_typed(h, k, x)
            PROVE  refcnt'[o] = 0
        BY <2>0, <3>5 DEF xpc_dictionary_set_typed
      <3>6. ASSUME NEW x \in Objects, NEW i \in Indices, xpc_array_set_typed(h, i, x)
            PROVE  refcnt'[o] = 0
        BY <2>0, <3>6 DEF xpc_array_set_typed
      <3> QED
        BY <2>5, <3>2, <3>3, <3>4, <3>5, <3>6 DEF Put
    <2>6. CASE Get(h)
      BY <2>6 DEF Get, xpc_dictionary_get_value, xpc_array_get_value
    <2>7. ASSUME NEW g \in Handles, xpc_retain(h, g)
          PROVE  refcnt'[o] = 0
      BY <2>0, <2>2, <2>7 DEF xpc_retain, Busy
    <2>8. CASE xpc_release(h)
      BY <2>0, <2>2, <2>8 DEF xpc_release, Busy
    <2>9. CASE xpc_object_destroy(h)
      BY <2>0, <2>9 DEF xpc_object_destroy, destroy_child, free_object
    <2> QED
      BY <2>3, <2>4, <2>5, <2>6, <2>7, <2>8, <2>9
  <1> QED
    BY <1>1, <1>2, PTL DEF Spec, NoResurrection

\* Every object on a pointer chain is in the sets that the properties of NoLeak
\* range over.
LEMMA ChainEnclosed ==
    IInv => \A S \in SUBSET Objects, h \in Handles : Enclosed(S) =>
               \A i \in 1 .. Len(path[h]) : path[h][i] \in S
  <1> SUFFICES ASSUME IInv, NEW S \in SUBSET Objects, NEW h \in Handles, Enclosed(S)
               PROVE  \A i \in 1 .. Len(path[h]) : path[h][i] \in S
    OBVIOUS
  <1>1. Len(path[h]) \in Nat /\ \A i \in 1 .. Len(path[h]) : path[h][i] \in Objects
    BY StateFacts DEF IInv
  <1> DEFINE T == {n \in Nat : n + 1 \in 1 .. Len(path[h]) => path[h][n + 1] \in S}
  <1>2. 0 \in T
    <2> SUFFICES ASSUME 0 + 1 \in 1 .. Len(path[h]) PROVE path[h][0 + 1] \in S
      OBVIOUS
    <2>1. 1 \in 1 .. Len(path[h])
      OBVIOUS
    <2>2. Held(path[h][1]) /\ path[h][1] \in Objects
      BY <2>1, ChainSafe
    <2> QED
      BY <2>2 DEF Enclosed
  <1>3. ASSUME NEW n \in T PROVE n + 1 \in T
    <2> SUFFICES ASSUME n + 1 + 1 \in 1 .. Len(path[h]) PROVE path[h][n + 1 + 1] \in S
      OBVIOUS
    <2>1. n + 1 \in 1 .. Len(path[h]) - 1 /\ n + 1 \in 1 .. Len(path[h])
      BY <1>1
    <2>2. path[h][n + 1] \in S
      BY <2>1
    <2>3. \E j \in DOMAIN list[path[h][n + 1]] :
             list[path[h][n + 1]][j].val = path[h][n + 1 + 1]
      BY <2>1 DEF IInv, BorrowedIsLinked
    <2> QED
      BY <2>2, <2>3 DEF Enclosed
  <1>4. T = Nat
    <2>1. T \in SUBSET Nat
      OBVIOUS
    <2> HIDE DEF T
    <2> QED
      BY <1>2, <1>3, <2>1, Nats!AllNat
  <1> SUFFICES ASSUME NEW i \in 1 .. Len(path[h]) PROVE path[h][i] \in S
    OBVIOUS
  <1>5. i - 1 \in Nat /\ (i - 1) + 1 = i
    BY <1>1
  <1>6. i - 1 \in T
    BY <1>4, <1>5
  <1> QED
    BY <1>5, <1>6

LEMMA ChainEnclosedNext ==
    (IInv => \A S \in SUBSET Objects, h \in Handles : Enclosed(S) =>
                \A i \in 1 .. Len(path[h]) : path[h][i] \in S)'
  <1>1. IInv => \A S \in SUBSET Objects, h \in Handles : Enclosed(S) =>
                   \A i \in 1 .. Len(path[h]) : path[h][i] \in S
    BY ChainEnclosed
  <1> QED
    BY <1>1, PTL

\* What the setters do to the links: d gets one more, the element e, to a value v
\* that a handle gives up or to a fresh one.
GivesUp(h, d, v, e) ==
    \E g \in Handles :
       /\ MayPut(h, g) /\ v = path[g][1]
       /\ list' = [list EXCEPT ![d] = Append(list[d], e)]
       /\ path' = [path EXCEPT ![g] = <<>>]
       /\ \A f \in Handles : stack[f] # <<>> => stack'[f] = stack[f]
       /\ xtype' = xtype

AddsFresh(d, v, e) ==
    /\ ~Live(v)
    /\ list' = [list EXCEPT ![v] = <<>>, ![d] = Append(list[d], e)]
    /\ xtype' = [xtype EXCEPT ![v] = "prim"]
    /\ path' = path /\ stack' = stack

LEMMA PutIs ==
    ASSUME Practices = {}, IInv, NEW h \in Handles, Put(h)
    PROVE  \E d \in Objects, v \in Objects, e \in Entry :
              /\ Busy(h) /\ d = Top(path[h]) /\ e.val = v
              /\ GivesUp(h, d, v, e) \/ AddsFresh(d, v, e)
  <1> USE DEF IInv
  <1> DEFINE d == Top(path[h])
  <1>1. ASSUME NEW g \in Handles, NEW k \in Keys \cup {NoKey}, NEW n, NEW r, MayPut(h, g),
               PutValue(g, d, path[g][1],
                        [list |-> Append(list[d], [key |-> k, val |-> path[g][1]]),
                         size |-> n, retain |-> TRUE], r)
        PROVE  /\ Busy(h) /\ d \in Objects /\ path[g][1] \in Objects
               /\ [key |-> k, val |-> path[g][1]] \in Entry
               /\ list' = [list EXCEPT ![d] = Append(list[d], [key |-> k, val |-> path[g][1]])]
               /\ path' = [path EXCEPT ![g] = <<>>]
               /\ \A f \in Handles : stack[f] # <<>> => stack'[f] = stack[f]
               /\ xtype' = xtype
    <2>1. Busy(h) /\ Busy(g) /\ d \in Objects /\ path[g][1] \in Objects
      BY <1>1, StateFacts DEF MayPut, Busy
    <2>2. /\ list' = [list EXCEPT ![d] = Append(list[d], [key |-> k, val |-> path[g][1]])]
          /\ path' = [path EXCEPT ![g] = <<>>]
          /\ xtype' = xtype
      BY <1>1 DEF PutValue
    <2>3. \E s : stack' = [stack EXCEPT ![g] = s]
      BY <1>1 DEF PutValue
    <2>4. \A f \in Handles : stack[f] # <<>> => stack'[f] = stack[f]
      BY <2>1, <2>3 DEF Busy, TypeOK
    <2> QED
      BY <2>1, <2>2, <2>4 DEF Entry
  <1>2. ASSUME NEW g \in Handles, newXPCObject_array(h, g) \/ deserialise_arr(h, g)
        PROVE  MayPut(h, g) /\ \E r \in BOOLEAN :
                  PutValue(g, d, path[g][1],
                           [list |-> Append(list[d], [key |-> NoKey, val |-> path[g][1]]),
                            size |-> size[d], retain |-> TRUE], r)
    BY <1>2 DEF newXPCObject_array, deserialise_arr, xpc_array_append_value
  <1>3. ASSUME NEW g \in Handles, NEW k \in Keys,
               newXPCObject_dict(h, g, k) \/ deserialise_dict(h, g, k)
        PROVE  MayPut(h, g) /\ \E r \in BOOLEAN :
                  PutValue(g, d, path[g][1],
                           [list |-> Append(list[d], [key |-> k, val |-> path[g][1]]),
                            size |-> size[d] + 1, retain |-> TRUE], r)
    <2>1. PICK r \in BOOLEAN :
             /\ MayPut(h, g) /\ NewKey(d, k)
             /\ PutValue(g, d, path[g][1], xpc_dictionary_set_value(d, k, path[g][1]), r)
      BY <1>3 DEF newXPCObject_dict, deserialise_dict, MaySet
    <2>2. {i \in DOMAIN list[d] : list[d][i].key = k} = {}
      BY <2>1 DEF NewKey
    <2>3. xpc_dictionary_set_value(d, k, path[g][1]) =
            [list |-> Append(list[d], [key |-> k, val |-> path[g][1]]),
             size |-> size[d] + 1, retain |-> TRUE]
      BY <2>2 DEF xpc_dictionary_set_value
    <2> QED
      BY <2>1, <2>3
  <1>4. ASSUME NEW o \in Objects, xpc_array_append_typed(h, o)
        PROVE  Busy(h) /\ d \in Objects /\ AddsFresh(d, o, [key |-> NoKey, val |-> o])
    BY <1>4, StateFacts
    DEF xpc_array_append_typed, xpc_array_append_value, Busy, AddsFresh
  <1>5. ASSUME NEW o \in Objects, NEW k \in Keys, xpc_dictionary_set_typed(h, k, o)
        PROVE  Busy(h) /\ d \in Objects /\ AddsFresh(d, o, [key |-> k, val |-> o])
    <2>1. NewKey(d, k) /\ Busy(h)
      BY <1>5 DEF xpc_dictionary_set_typed, MaySet
    <2>2. {i \in DOMAIN list[d] : list[d][i].key = k} = {}
      BY <2>1 DEF NewKey
    <2>3. xpc_dictionary_set_value(d, k, o).list = Append(list[d], [key |-> k, val |-> o])
      BY <2>2 DEF xpc_dictionary_set_value
    <2> QED
      BY <1>5, <2>1, <2>3, StateFacts DEF xpc_dictionary_set_typed, Busy, AddsFresh
  <1>6. ~\E o \in Objects, i \in Indices : xpc_array_set_typed(h, i, o)
    BY DEF xpc_array_set_typed
  <1>7. \A k \in Keys \cup {NoKey}, v \in Objects :
           [key |-> k, val |-> v] \in Entry /\ [key |-> k, val |-> v].val = v
    BY DEF Entry
  <1>8. ASSUME NEW g \in Handles, NEW k \in Keys \cup {NoKey}, NEW n, NEW r, MayPut(h, g),
               PutValue(g, d, path[g][1],
                        [list |-> Append(list[d], [key |-> k, val |-> path[g][1]]),
                         size |-> n, retain |-> TRUE], r)
        PROVE  /\ Busy(h) /\ d \in Objects /\ path[g][1] \in Objects
               /\ GivesUp(h, d, path[g][1], [key |-> k, val |-> path[g][1]])
    BY <1>1, <1>8 DEF GivesUp
  <1>9. ASSUME NEW g \in Handles, newXPCObject_array(h, g) \/ deserialise_arr(h, g)
        PROVE  /\ Busy(h) /\ d \in Objects /\ path[g][1] \in Objects
               /\ GivesUp(h, d, path[g][1], [key |-> NoKey, val |-> path[g][1]])
    <2> HIDE DEF d
    <2> QED
      BY <1>2, <1>8, <1>9
  <1>10. ASSUME NEW g \in Handles, NEW k \in Keys,
                newXPCObject_dict(h, g, k) \/ deserialise_dict(h, g, k)
         PROVE  /\ Busy(h) /\ d \in Objects /\ path[g][1] \in Objects
                /\ GivesUp(h, d, path[g][1], [key |-> k, val |-> path[g][1]])
    <2> HIDE DEF d
    <2> QED
      BY <1>3, <1>8, <1>10
  <1>11. ASSUME NEW k \in Keys \cup {NoKey}, NEW v \in Objects, d \in Objects, Busy(h),
                \/ GivesUp(h, d, v, [key |-> k, val |-> v])
                \/ AddsFresh(d, v, [key |-> k, val |-> v])
         PROVE  \E x \in Objects, w \in Objects, e \in Entry :
                   /\ Busy(h) /\ x = Top(path[h]) /\ e.val = w
                   /\ GivesUp(h, x, w, e) \/ AddsFresh(x, w, e)
    <2>1. PICK e \in Entry : e = [key |-> k, val |-> v] /\ e.val = v
      BY <1>7
    <2>2. GivesUp(h, d, v, e) \/ AddsFresh(d, v, e)
      BY <1>11, <2>1
    <2>3. d = Top(path[h])
      OBVIOUS
    <2> HIDE DEF d
    <2> QED
      BY <1>11, <2>1, <2>2, <2>3
  <1> HIDE DEF d
  <1>12. \/ \E g \in Handles : newXPCObject_array(h, g) \/ deserialise_arr(h, g)
         \/ \E g \in Handles, k \in Keys : newXPCObject_dict(h, g, k) \/ deserialise_dict(h, g, k)
         \/ \E o \in Objects : xpc_array_append_typed(h, o)
         \/ \E o \in Objects, k \in Keys : xpc_dictionary_set_typed(h, k, o)
    BY <1>6 DEF Put
  <1>13. \E k \in Keys \cup {NoKey}, v \in Objects :
            /\ d \in Objects /\ Busy(h)
            /\ \/ GivesUp(h, d, v, [key |-> k, val |-> v])
               \/ AddsFresh(d, v, [key |-> k, val |-> v])
    BY <1>4, <1>5, <1>9, <1>10, <1>12
  <1> QED
    BY <1>11, <1>13

\* The getters add an object to the end of a pointer chain and change nothing else.
LEMMA GetAppends ==
    ASSUME IInv, NEW h \in Handles, Get(h)
    PROVE  \E o \in Objects :
              /\ path[h] # <<>> /\ path[h] \in Seq(Objects)
              /\ path' = [path EXCEPT ![h] = Append(@, o)]
              /\ xtype' = xtype /\ list' = list /\ stack' = stack
  <1> USE DEF IInv
  <1>1. ASSUME NEW j \in DOMAIN list[Top(path[h])], Busy(h),
               path' = [path EXCEPT ![h] = Append(@, list[Top(path[h])][j].val)],
               UNCHANGED <<xtype, refcnt, size, list, stack>>
        PROVE  \E o \in Objects :
                  /\ path[h] # <<>> /\ path[h] \in Seq(Objects)
                  /\ path' = [path EXCEPT ![h] = Append(@, o)]
                  /\ xtype' = xtype /\ list' = list /\ stack' = stack
    <2>1. path[h] # <<>> /\ path[h] \in Seq(Objects) /\ Top(path[h]) \in Objects
      BY <1>1, StateFacts DEF Busy, TypeOK
    <2>2. list[Top(path[h])][j].val \in Objects
      BY <1>1, <2>1, StateFacts
    <2> QED
      BY <1>1, <2>1, <2>2
  <1>2. ASSUME NEW k \in Keys, xpc_dictionary_get_value(h, k)
        PROVE  \E j \in DOMAIN list[Top(path[h])] :
                  /\ Busy(h)
                  /\ path' = [path EXCEPT ![h] = Append(@, list[Top(path[h])][j].val)]
                  /\ UNCHANGED <<xtype, refcnt, size, list, stack>>
    <2>1. PICK d \in Objects : d = Top(path[h])
      BY <1>2, StateFacts DEF xpc_dictionary_get_value, Busy
    <2>2. PICK hits \in SUBSET (DOMAIN list[d]) : hits = {i \in DOMAIN list[d] : list[d][i].key = k}
      OBVIOUS
    <2>3. \E j \in hits : j = CHOOSE i \in hits : \A m \in hits : i <= m
      <3>1. hits # {}
        BY <1>2, <2>1, <2>2 DEF xpc_dictionary_get_value
      <3>2. DOMAIN list[d] \in SUBSET Nat
        BY StateFacts
      <3>3. hits \in SUBSET Nat
        BY <3>2
      <3>4. \E i \in hits : \A m \in hits : i <= m
        BY <3>1, <3>3, Nats!LeastNat
      <3> QED
        BY <3>4
    <2>4. PICK j \in hits : j = CHOOSE i \in hits : \A m \in hits : i <= m
      BY <2>3
    <2> QED
      BY <1>2, <2>1, <2>2, <2>4 DEF xpc_dictionary_get_value
  <1>3. ASSUME NEW i \in Indices, xpc_array_get_value(h, i)
        PROVE  \E j \in DOMAIN list[Top(path[h])] :
                  /\ Busy(h)
                  /\ path' = [path EXCEPT ![h] = Append(@, list[Top(path[h])][j].val)]
                  /\ UNCHANGED <<xtype, refcnt, size, list, stack>>
    <2>1. Busy(h) /\ Top(path[h]) \in Objects
      BY <1>3, StateFacts DEF xpc_array_get_value, Busy
    <2>2. i + 1 \in DOMAIN list[Top(path[h])]
      BY <1>3, <2>1, StateFacts, IndicesAssumption DEF xpc_array_get_value
    <2> QED
      BY <1>3, <2>1, <2>2 DEF xpc_array_get_value
  <1> QED
    BY <1>1, <1>2, <1>3 DEF Get

\* Each lemma below goes from the state after a step back to the one before it:
\* what encloses the roots after the step encloses them, with one object more at
\* most, before it, and so holds every allocated object.

LEMMA CreateLeak ==
    ASSUME IInv, NoLeak, NEW h \in Handles, Create(h),
           NEW S \in SUBSET Objects, Enclosed(S)'
    PROVE  \A x \in Objects : Live(x)' => x \in S
  <1> USE DEF IInv
  <1>1. PICK o \in Objects :
           /\ path[h] = <<>> /\ ~Live(o) /\ stack' = stack
           /\ \A x \in Objects \ {o} : xtype'[x] = xtype[x]
           /\ path' = [path EXCEPT ![h] = <<o>>]
           /\ list' = [list EXCEPT ![o] = <<>>]
    BY DEF Create, xpc_prim_create, xpc_dictionary_create, xpc_array_create, Created,
           Idle, TypeOK
  <1>2. /\ path'[h] = <<o>>
        /\ \A f \in Handles \ {h} : path'[f] = path[f]
        /\ \A p \in Objects \ {o} : list'[p] = list[p]
        /\ list[o] = <<>>
    BY <1>1 DEF TypeOK, SoleOwner, OwnedIsLive
  <1>3. o \in S
    <2>1. Held(o)'
      BY <1>2 DEF Held
    <2> QED
      BY <2>1 DEF Enclosed
  <1>4. \A x \in Objects : Held(x) => Held(x)'
    BY <1>1, <1>2 DEF Held
  <1>5. \A x \in Objects : Held(x) \/ OnStack(x) => x \in S
    BY <1>1, <1>4 DEF Enclosed, OnStack
  <1>6. \A p \in S : \A i \in DOMAIN list[p] : list[p][i].val \in S
    BY <1>2 DEF Enclosed
  <1>7. \A x \in Objects : Live(x) => x \in S
    BY <1>5, <1>6 DEF NoLeak, Enclosed
  <1> QED
    BY <1>1, <1>3, <1>7 DEF Live

LEMMA PutLeak ==
    ASSUME Practices = {}, IInv, IInv', NoLeak, NEW h \in Handles, Put(h),
           NEW S \in SUBSET Objects, Enclosed(S)'
    PROVE  \A x \in Objects : Live(x)' => x \in S
  <1> USE DEF IInv
  <1>1. PICK d \in Objects, v \in Objects, e \in Entry :
              /\ Busy(h) /\ d = Top(path[h]) /\ e.val = v
              /\ GivesUp(h, d, v, e) \/ AddsFresh(d, v, e)
    BY PutIs
  <1>2. /\ list[d] \in Seq(Entry)
        /\ Len(path[h]) \in 1 .. Len(path[h])
        /\ Live(d)
        /\ DOMAIN list[d] = 1 .. Len(list[d]) /\ Len(list[d]) \in Nat
    <2>1. Len(path[h]) \in 1 .. Len(path[h])
      BY <1>1, StateFacts DEF Busy
    <2>2. Live(path[h][Len(path[h])])
      BY <2>1, ChainSafe
    <2> QED
      BY <1>1, <2>1, <2>2, StateFacts DEF Top, TypeOK
  <1>3. path'[h] = path[h] /\ list'[d] = Append(list[d], e)
    <2>1. CASE GivesUp(h, d, v, e)
      BY <2>1 DEF GivesUp, MayPut, TypeOK
    <2>2. CASE AddsFresh(d, v, e)
      BY <1>2, <2>2 DEF AddsFresh, TypeOK
    <2> QED
      BY <1>1, <2>1, <2>2
  <1>4. /\ DOMAIN list'[d] = 1 .. Len(list[d]) + 1
        /\ \A i \in 1 .. Len(list[d]) : list'[d][i] = list[d][i]
        /\ list'[d][Len(list[d]) + 1] = e
    BY <1>2, <1>3, AppendFacts
  <1>5. d \in S
    <2>1. \A i \in 1 .. Len(path'[h]) : path'[h][i] \in S
      BY ChainEnclosedNext
    <2> QED
      BY <1>1, <1>2, <1>3, <2>1 DEF Top
  <1>6. v \in S
    <2>1. Len(list[d]) + 1 \in DOMAIN list'[d]
      BY <1>2, <1>4
    <2>2. list'[d][Len(list[d]) + 1].val \in S
      BY <1>5, <2>1 DEF Enclosed
    <2> QED
      BY <1>1, <1>4, <2>2
  <1>7. \A i \in DOMAIN list[d] : list[d][i].val \in S
    <2>1. \A i \in 1 .. Len(list[d]) : i \in DOMAIN list'[d]
      BY <1>2, <1>4
    <2>2. \A i \in DOMAIN list'[d] : list'[d][i].val \in S
      BY <1>5 DEF Enclosed
    <2> QED
      BY <1>2, <1>4, <2>1, <2>2
  <1>8. \A p \in S : \A i \in DOMAIN list[p] : list[p][i].val \in S
    <2> SUFFICES ASSUME NEW p \in S, p # d PROVE \A i \in DOMAIN list[p] : list[p][i].val \in S
      BY <1>7
    <2>1. list'[p] = list[p] \/ list[p] = <<>>
      BY <1>1 DEF GivesUp, AddsFresh, TypeOK, SoleOwner, OwnedIsLive
    <2> QED
      BY <2>1 DEF Enclosed
  <1>9. \A x \in Objects : Held(x) \/ OnStack(x) => x \in S
    <2> SUFFICES ASSUME NEW x \in Objects, Held(x) \/ OnStack(x), x # v PROVE x \in S
      BY <1>6
    <2>1. \A f \in Handles : stack[f] # <<>> => stack'[f] = stack[f]
      BY <1>1 DEF GivesUp, AddsFresh
    <2>2. \A f \in Handles : path[f] # <<>> /\ path[f][1] # v => path'[f] = path[f]
      BY <1>1 DEF GivesUp, AddsFresh, TypeOK
    <2>3. Held(x) => Held(x)'
      BY <2>2 DEF Held
    <2>4. OnStack(x) => OnStack(x)'
      BY <2>1 DEF OnStack
    <2> QED
      BY <2>3, <2>4 DEF Enclosed
  <1>10. \A x \in Objects : Live(x) => x \in S
    BY <1>8, <1>9 DEF NoLeak, Enclosed
  <1>11. \A x \in Objects \ {v} : xtype'[x] = xtype[x]
    BY <1>1 DEF GivesUp, AddsFresh, TypeOK
  <1> QED
    BY <1>6, <1>10, <1>11 DEF Live

LEMMA ReleaseLeak ==
    ASSUME IInv, IInv', NoLeak, NEW h \in Handles, xpc_release(h),
           NEW S \in SUBSET Objects, Enclosed(S)'
    PROVE  \A x \in Objects : Live(x)' => x \in S
  <1> USE DEF IInv
  <1>0. PICK o \in Objects : o = path[h][1]
    BY StateFacts DEF xpc_release, Busy
  <1>1. /\ stack[h] = <<>> /\ path[h] # <<>>
        /\ list' = list /\ xtype' = xtype
        /\ \A f \in Handles \ {h} : path'[f] = path[f] /\ stack'[f] = stack[f]
    BY DEF xpc_release, Busy, TypeOK
  <1>2. o \in S
    <2>1. Held(o)
      BY <1>0, <1>1 DEF Held
    <2>2. Live(o)' /\ ~Linked(o)'
      BY <1>1, <2>1 DEF SoleOwner, OwnedIsLive, OneKindOfOwner, Live, Linked
    <2>3. Held(o)' \/ OnStack(o)'
      BY <2>2 DEF SoleOwner, LiveIsOwned
    <2> QED
      BY <2>3 DEF Enclosed
  <1>3. \A x \in Objects : Held(x) \/ OnStack(x) => x \in S
    <2> SUFFICES ASSUME NEW x \in Objects, Held(x) \/ OnStack(x), x # o PROVE x \in S
      BY <1>2
    <2>1. Held(x) => Held(x)'
      BY <1>0, <1>1 DEF Held
    <2>2. OnStack(x) => OnStack(x)'
      BY <1>1 DEF OnStack
    <2> QED
      BY <2>1, <2>2 DEF Enclosed
  <1>4. \A p \in S : \A i \in DOMAIN list[p] : list[p][i].val \in S
    BY <1>1 DEF Enclosed
  <1>5. \A x \in Objects : Live(x) => x \in S
    BY <1>3, <1>4 DEF NoLeak, Enclosed
  <1> QED
    BY <1>1, <1>5 DEF Live

LEMMA DestroyChildLeak ==
    ASSUME IInv, NoLeak, NEW h \in Handles, destroy_child(h),
           NEW S \in SUBSET Objects, Enclosed(S)'
    PROVE  \A x \in Objects : Live(x)' => x \in S
  <1> USE DEF IInv
  <1>0. PICK o \in Objects : o = Top(stack[h])
    BY StateFacts DEF destroy_child
  <1>1. PICK c \in Objects : c = list[o][1].val
    BY <1>0, StateFacts DEF destroy_child
  <1>2. /\ list[o] \in Seq(Entry) /\ list[o] # <<>>
        /\ stack[h] \in Seq(Objects) /\ stack[h] # <<>>
        /\ list'[o] = Tail(list[o])
        /\ \A p \in Objects \ {o} : list'[p] = list[p]
        /\ stack'[h] = Append(stack[h], c)
        /\ \A f \in Handles \ {h} : stack'[f] = stack[f]
        /\ xtype' = xtype /\ path' = path
    BY <1>0, <1>1 DEF destroy_child, TypeOK
  <1>3. /\ Len(list[o]) \in Nat
        /\ DOMAIN list[o] = 1 .. Len(list[o])
        /\ DOMAIN list'[o] = 1 .. Len(list[o]) - 1
        /\ \A i \in 1 .. Len(list[o]) - 1 : list'[o][i] = list[o][i + 1]
    BY <1>2, TailFacts, SeqFacts
  <1>4. /\ Len(stack[h]) \in Nat
        /\ DOMAIN stack[h] = 1 .. Len(stack[h])
        /\ DOMAIN stack'[h] = 1 .. Len(stack[h]) + 1
        /\ \A i \in 1 .. Len(stack[h]) : stack'[h][i] = stack[h][i]
        /\ stack'[h][Len(stack[h]) + 1] = c
    BY <1>2, AppendFacts, SeqFacts
  <1>5. c \in S
    <2>1. Len(stack[h]) + 1 \in DOMAIN stack'[h]
      BY <1>4
    <2>2. OnStack(c)'
      BY <1>4, <2>1 DEF OnStack
    <2> QED
      BY <2>2 DEF Enclosed
  <1>6. \A x \in Objects : Held(x) \/ OnStack(x) => x \in S
    <2> SUFFICES ASSUME NEW x \in Objects, Held(x) \/ OnStack(x) PROVE x \in S
      OBVIOUS
    <2>1. Held(x) => Held(x)'
      BY <1>2 DEF Held
    <2>2. \A i \in DOMAIN stack[h] : i \in DOMAIN stack'[h] /\ stack'[h][i] = stack[h][i]
      BY <1>4
    <2>3. OnStack(x) => OnStack(x)'
      BY <1>2, <2>2 DEF OnStack
    <2> QED
      BY <2>1, <2>3 DEF Enclosed
  <1>7. \A p \in S : \A i \in DOMAIN list[p] : list[p][i].val \in S
    <2>1. ASSUME o \in S, NEW i \in DOMAIN list[o], i # 1 PROVE list[o][i].val \in S
      <3>1. i - 1 \in DOMAIN list'[o] /\ list'[o][i - 1] = list[o][(i - 1) + 1] /\ (i - 1) + 1 = i
        BY <1>3, <2>1
      <3>2. list'[o][i - 1].val \in S
        BY <2>1, <3>1 DEF Enclosed
      <3> QED
        BY <3>1, <3>2
    <2>2. \A p \in S \ {o} : \A i \in DOMAIN list[p] : list[p][i].val \in S
      BY <1>2 DEF Enclosed
    <2> QED
      BY <1>1, <1>5, <2>1, <2>2
  <1>8. \A x \in Objects : Live(x) => x \in S
    BY <1>6, <1>7 DEF NoLeak, Enclosed
  <1> QED
    BY <1>2, <1>8 DEF Live

LEMMA FreeLeak ==
    ASSUME IInv, NoLeak, NEW h \in Handles, free_object(h),
           NEW S \in SUBSET Objects, Enclosed(S)'
    PROVE  \A x \in Objects : Live(x)' => x \in S
  <1> USE DEF IInv
  <1>0. PICK o \in Objects : o = Top(stack[h])
    BY StateFacts DEF free_object
  <1>1. /\ list[o] = <<>>
        /\ stack[h] \in Seq(Objects) /\ stack[h] # <<>>
        /\ list' = list /\ path' = path
        /\ xtype'[o] = "free" /\ \A x \in Objects \ {o} : xtype'[x] = xtype[x]
        /\ stack'[h] = SubSeq(stack[h], 1, Len(stack[h]) - 1)
        /\ \A f \in Handles \ {h} : stack'[f] = stack[f]
    BY <1>0 DEF free_object, TypeOK
  <1>2. /\ Len(stack[h]) \in Nat
        /\ DOMAIN stack[h] = 1 .. Len(stack[h])
        /\ DOMAIN stack'[h] = 1 .. Len(stack[h]) - 1
        /\ \A i \in 1 .. Len(stack[h]) - 1 : stack'[h][i] = stack[h][i]
    BY <1>1, PopFacts, SeqFacts
  <1>3. PICK R \in SUBSET Objects : R = S \cup {o}
    OBVIOUS
  <1>4. \A x \in Objects : Held(x) \/ OnStack(x) => x \in R
    <2> SUFFICES ASSUME NEW x \in Objects, Held(x) \/ OnStack(x), x # o PROVE x \in S
      BY <1>3
    <2>1. Held(x) => Held(x)'
      BY <1>1 DEF Held
    <2>2. \A i \in DOMAIN stack[h] : stack[h][i] = x =>
             i \in DOMAIN stack'[h] /\ stack'[h][i] = x
      BY <1>0, <1>2 DEF Top
    <2>3. OnStack(x) => OnStack(x)'
      BY <1>1, <2>2 DEF OnStack
    <2> QED
      BY <2>1, <2>3 DEF Enclosed
  <1>5. \A p \in R : \A i \in DOMAIN list[p] : list[p][i].val \in R
    BY <1>1, <1>3 DEF Enclosed
  <1>6. \A x \in Objects : Live(x) => x \in R
    BY <1>4, <1>5 DEF NoLeak, Enclosed
  <1> QED
    BY <1>1, <1>3, <1>6 DEF Live

LEMMA NextNoLeak ==
    ASSUME Practices = {}, IInv, NoLeak, [Next]_vars
    PROVE  NoLeak'
  <1> USE DEF IInv
  <1>1. IInv'
    BY NextIInv
  <1> SUFFICES ASSUME NEW S \in SUBSET Objects, Enclosed(S)'
               PROVE  \A x \in Objects : Live(x)' => x \in S
    BY DEF NoLeak
  <1>2. ASSUME xtype' = xtype, list' = list, stack' = stack,
               \A x \in Objects : Held(x) => Held(x)'
        PROVE  \A x \in Objects : Live(x)' => x \in S
    <2>1. Enclosed(S)
      BY <1>2 DEF Enclosed, OnStack
    <2> QED
      BY <1>2, <2>1 DEF NoLeak, Live
  <1>3. CASE UNCHANGED vars
    BY <1>2, <1>3 DEF vars, Held
  <1>4. CASE Next
    <2>1. PICK h \in Handles : \/ Create(h)
                               \/ Put(h)
                               \/ Get(h)
                               \/ \E g \in Handles : xpc_retain(h, g)
                               \/ xpc_release(h)
                               \/ xpc_object_destroy(h)
      BY <1>4 DEF Next
    <2>2. CASE Get(h)
      <3>1. PICK o \in Objects :
               /\ path[h] # <<>> /\ path[h] \in Seq(Objects)
               /\ path' = [path EXCEPT ![h] = Append(@, o)]
               /\ xtype' = xtype /\ list' = list /\ stack' = stack
        BY <2>2, GetAppends DEF TypeOK
      <3>2. /\ path'[h] # <<>> /\ path'[h][1] = path[h][1]
            /\ \A f \in Handles \ {h} : path'[f] = path[f]
        <4>1. path'[h] = Append(path[h], o) /\ 1 \in 1 .. Len(path[h])
          BY <3>1, SeqFacts DEF TypeOK
        <4> QED
          BY <3>1, <4>1, AppendFacts DEF TypeOK
      <3>3. \A x \in Objects : Held(x) => Held(x)'
        BY <3>2 DEF Held
      <3> QED
        BY <1>2, <3>1, <3>3
    <2>3. ASSUME NEW g \in Handles, xpc_retain(h, g)
          PROVE  \A x \in Objects : Live(x)' => x \in S
      <3>1. /\ path[g] = <<>>
            /\ \A f \in Handles \ {g} : path'[f] = path[f]
            /\ xtype' = xtype /\ list' = list /\ stack' = stack
        BY <2>3 DEF xpc_retain, Idle, TypeOK
      <3>2. \A x \in Objects : Held(x) => Held(x)'
        BY <3>1 DEF Held
      <3> QED
        BY <1>2, <3>1, <3>2
    <2>4. CASE Create(h)
      BY <2>4, CreateLeak
    <2>5. CASE Put(h)
      BY <1>1, <2>5, PutLeak
    <2>6. CASE xpc_release(h)
      BY <1>1, <2>6, ReleaseLeak
    <2>7. CASE xpc_object_destroy(h)
      BY <2>7, DestroyChildLeak, FreeLeak DEF xpc_object_destroy
    <2> QED
      BY <2>1, <2>2, <2>3, <2>4, <2>5, <2>6, <2>7
  <1> QED
    BY <1>3, <1>4

\* No object leaks and none is kept alive by a cycle: whatever is allocated can be
\* reached from a handle or from a destruction in progress, so releasing the
\* handles frees it (xpc_release, xpc_object_destroy, the setters).
THEOREM NothingLeaks == Practices = {} => (Spec => []NoLeak)
  <1> SUFFICES ASSUME Practices = {} PROVE Spec => []NoLeak
    OBVIOUS
  <1>1. Spec => []IInv
    BY Invariance
  <1>2. Init => NoLeak
    BY DEF Init, NoLeak, Live
  <1>3. IInv /\ NoLeak /\ [Next]_vars => NoLeak'
    BY NextNoLeak
  <1> QED
    BY <1>1, <1>2, <1>3, PTL DEF Spec

=============================================================================
