--------------------------- MODULE XpcValueProofs ---------------------------
(***************************************************************************)
(* What the functions of XpcValue compute, for values of every depth, all  *)
(* names and contents and words of every width.                            *)
(***************************************************************************)
EXTENDS XpcValueSpec, SequenceTheorems, FiniteSetTheorems, TLAPS

-----------------------------------------------------------------------------
(* The recursive functions are what their definitions say *)

\* For induction alone.
Nats == INSTANCE NatFacts WITH Base <- 0, Step <- +

\* One more level of values, and of D-Bus values.
ValuesStep(n, S) == Prims \cup Boxes(S)
WiresStep(n, S) ==
    [sig : Signatures \cup {"refused"}, val : Seq(Nat), elems : {<<>>}]
    \cup [sig : {DictSig, ArraySig}, val : {<<>>},
          elems : Seq([key : Seq(Int), sig : Signatures, val : S])]

Vals == INSTANCE NatFacts WITH Base <- {}, Step <- ValuesStep
Wirs == INSTANCE NatFacts WITH Base <- {}, Step <- WiresStep

LEMMA ValuesAt ==
    /\ Values[0] = {}
    /\ \A n \in Nat : Values[n + 1] = Prims \cup Boxes(Values[n])
  <1>1. Values = Vals!Rec
    BY DEF Values, Vals!Rec, ValuesStep
  <1>2. \A n \in Nat : Values[n] = IF n = 0 THEN {} ELSE ValuesStep(n, Values[n - 1])
    BY <1>1, Vals!Unfold
  <1>3. \A n \in Nat : Values[n + 1] = ValuesStep(n + 1, Values[n])
    BY <1>2
  <1> QED
    BY <1>2, <1>3 DEF ValuesStep

LEMMA WiresAt ==
    /\ Wires[0] = {}
    /\ \A n \in Nat : Wires[n + 1] = WiresStep(n, Wires[n])
  <1>1. Wires = Wirs!Rec
    BY DEF Wires, Wirs!Rec, WiresStep
  <1>2. \A n \in Nat : Wires[n] = IF n = 0 THEN {} ELSE WiresStep(n, Wires[n - 1])
    BY <1>1, Wirs!Unfold
  <1>3. \A n \in Nat : WiresStep(n + 1, Wires[n]) = WiresStep(n, Wires[n])
    BY DEF WiresStep
  <1> QED
    BY <1>2, <1>3

Copy == AtDepth(Values, copy_with)
CopyStep(n, f) == [v \in Values[n] |-> copy_with(v, f)]
CopyRec == INSTANCE NatFacts WITH Base <- <<>>, Step <- CopyStep

LEMMA CopyAt ==
    \A n \in Nat : \A v \in Values[n + 1] : Copy[n + 1][v] = copy_with(v, Copy[n])
  <1>1. Copy = CopyRec!Rec
    BY DEF Copy, AtDepth, CopyRec!Rec, CopyStep
  <1>2. \A n \in Nat : Copy[n] = IF n = 0 THEN <<>> ELSE CopyStep(n, Copy[n - 1])
    BY <1>1, CopyRec!Unfold
  <1>3. \A n \in Nat : Copy[n + 1] = CopyStep(n + 1, Copy[n])
    BY <1>2
  <1> QED
    BY <1>3 DEF CopyStep

Hash == AtDepth(Values, hash_with)
HashStep(n, f) == [v \in Values[n] |-> hash_with(v, f)]
HashRec == INSTANCE NatFacts WITH Base <- <<>>, Step <- HashStep

LEMMA HashAt ==
    \A n \in Nat : \A v \in Values[n + 1] : Hash[n + 1][v] = hash_with(v, Hash[n])
  <1>1. Hash = HashRec!Rec
    BY DEF Hash, AtDepth, HashRec!Rec, HashStep
  <1>2. \A n \in Nat : Hash[n] = IF n = 0 THEN <<>> ELSE HashStep(n, Hash[n - 1])
    BY <1>1, HashRec!Unfold
  <1>3. \A n \in Nat : Hash[n + 1] = HashStep(n + 1, Hash[n])
    BY <1>2
  <1> QED
    BY <1>3 DEF HashStep

Appended == AtDepth(Values, append_with)
AppendedStep(n, f) == [v \in Values[n] |-> append_with(v, f)]
AppendedRec == INSTANCE NatFacts WITH Base <- <<>>, Step <- AppendedStep

LEMMA AppendedAt ==
    \A n \in Nat : \A v \in Values[n + 1] : Appended[n + 1][v] = append_with(v, Appended[n])
  <1>1. Appended = AppendedRec!Rec
    BY DEF Appended, AtDepth, AppendedRec!Rec, AppendedStep
  <1>2. \A n \in Nat : Appended[n] = IF n = 0 THEN <<>> ELSE AppendedStep(n, Appended[n - 1])
    BY <1>1, AppendedRec!Unfold
  <1>3. \A n \in Nat : Appended[n + 1] = AppendedStep(n + 1, Appended[n])
    BY <1>2
  <1> QED
    BY <1>3 DEF AppendedStep

Sound == AtDepth(Wires, wellformed_with)
SoundStep(n, f) == [v \in Wires[n] |-> wellformed_with(v, f)]
SoundRec == INSTANCE NatFacts WITH Base <- <<>>, Step <- SoundStep

LEMMA SoundAt ==
    \A n \in Nat : \A v \in Wires[n + 1] : Sound[n + 1][v] = wellformed_with(v, Sound[n])
  <1>1. Sound = SoundRec!Rec
    BY DEF Sound, AtDepth, SoundRec!Rec, SoundStep
  <1>2. \A n \in Nat : Sound[n] = IF n = 0 THEN <<>> ELSE SoundStep(n, Sound[n - 1])
    BY <1>1, SoundRec!Unfold
  <1>3. \A n \in Nat : Sound[n + 1] = SoundStep(n + 1, Sound[n])
    BY <1>2
  <1> QED
    BY <1>3 DEF SoundStep

Parsed == AtDepth(Wires, deserialise_with)
ParsedStep(n, f) == [v \in Wires[n] |-> deserialise_with(v, f)]
ParsedRec == INSTANCE NatFacts WITH Base <- <<>>, Step <- ParsedStep

LEMMA ParsedAt ==
    \A n \in Nat : \A v \in Wires[n + 1] : Parsed[n + 1][v] = deserialise_with(v, Parsed[n])
  <1>1. Parsed = ParsedRec!Rec
    BY DEF Parsed, AtDepth, ParsedRec!Rec, ParsedStep
  <1>2. \A n \in Nat : Parsed[n] = IF n = 0 THEN <<>> ELSE ParsedStep(n, Parsed[n - 1])
    BY <1>1, ParsedRec!Unfold
  <1>3. \A n \in Nat : Parsed[n + 1] = ParsedStep(n + 1, Parsed[n])
    BY <1>2
  <1> QED
    BY <1>3 DEF ParsedStep

PartsOf == AtDepth(Values, parts_with)
PartsOfStep(n, f) == [v \in Values[n] |-> parts_with(v, f)]
PartsOfRec == INSTANCE NatFacts WITH Base <- <<>>, Step <- PartsOfStep

LEMMA PartsOfAt ==
    \A n \in Nat : \A v \in Values[n + 1] : PartsOf[n + 1][v] = parts_with(v, PartsOf[n])
  <1>1. PartsOf = PartsOfRec!Rec
    BY DEF PartsOf, AtDepth, PartsOfRec!Rec, PartsOfStep
  <1>2. \A n \in Nat : PartsOf[n] = IF n = 0 THEN <<>> ELSE PartsOfStep(n, PartsOf[n - 1])
    BY <1>1, PartsOfRec!Unfold
  <1>3. \A n \in Nat : PartsOf[n + 1] = PartsOfStep(n + 1, PartsOf[n])
    BY <1>2
  <1> QED
    BY <1>3 DEF PartsOfStep

Shown == AtDepth(Values, visible_with)
ShownStep(n, f) == [v \in Values[n] |-> visible_with(v, f)]
ShownRec == INSTANCE NatFacts WITH Base <- <<>>, Step <- ShownStep

LEMMA ShownAt ==
    \A n \in Nat : \A v \in Values[n + 1] : Shown[n + 1][v] = visible_with(v, Shown[n])
  <1>1. Shown = ShownRec!Rec
    BY DEF Shown, AtDepth, ShownRec!Rec, ShownStep
  <1>2. \A n \in Nat : Shown[n] = IF n = 0 THEN <<>> ELSE ShownStep(n, Shown[n - 1])
    BY <1>1, ShownRec!Unfold
  <1>3. \A n \in Nat : Shown[n + 1] = ShownStep(n + 1, Shown[n])
    BY <1>2
  <1> QED
    BY <1>3 DEF ShownStep

Degrade == AtDepth(Values, degraded_with)
DegradeStep(n, f) == [v \in Values[n] |-> degraded_with(v, f)]
DegradeRec == INSTANCE NatFacts WITH Base <- <<>>, Step <- DegradeStep

LEMMA DegradeAt ==
    \A n \in Nat : \A v \in Values[n + 1] : Degrade[n + 1][v] = degraded_with(v, Degrade[n])
  <1>1. Degrade = DegradeRec!Rec
    BY DEF Degrade, AtDepth, DegradeRec!Rec, DegradeStep
  <1>2. \A n \in Nat : Degrade[n] = IF n = 0 THEN <<>> ELSE DegradeStep(n, Degrade[n - 1])
    BY <1>1, DegradeRec!Unfold
  <1>3. \A n \in Nat : Degrade[n + 1] = DegradeStep(n + 1, Degrade[n])
    BY <1>2
  <1> QED
    BY <1>3 DEF DegradeStep

Empty == AtDepth(Values, emptied_with)
EmptyStep(n, f) == [v \in Values[n] |-> emptied_with(v, f)]
EmptyRec == INSTANCE NatFacts WITH Base <- <<>>, Step <- EmptyStep

LEMMA EmptyAt ==
    \A n \in Nat : \A v \in Values[n + 1] : Empty[n + 1][v] = emptied_with(v, Empty[n])
  <1>1. Empty = EmptyRec!Rec
    BY DEF Empty, AtDepth, EmptyRec!Rec, EmptyStep
  <1>2. \A n \in Nat : Empty[n] = IF n = 0 THEN <<>> ELSE EmptyStep(n, Empty[n - 1])
    BY <1>1, EmptyRec!Unfold
  <1>3. \A n \in Nat : Empty[n + 1] = EmptyStep(n + 1, Empty[n])
    BY <1>2
  <1> QED
    BY <1>3 DEF EmptyStep

-----------------------------------------------------------------------------
(* Values *)

Types == {"null", "bool", "int64", "uint64", "double", "date", "fd", "string", "data",
          "array", "dictionary"}

Dict(list) == [type |-> "dictionary", u |-> <<>>, list |-> list]
Arr(list) == [type |-> "array", u |-> <<>>, list |-> list]

\* A list, its elements in S: as the elements of a value, with what their keys are.
ListIn(list, S) ==
    /\ Len(list) \in Nat
    /\ DOMAIN list = 1 .. Len(list)
    /\ list = [i \in 1 .. Len(list) |-> list[i]]
    /\ \A i \in 1 .. Len(list) : /\ list[i] = [key |-> list[i].key, val |-> list[i].val]
                                 /\ list[i].val \in S

Unnamed(list) == \A i \in 1 .. Len(list) : list[i].key = NoName

Named(list) ==
    /\ \A i \in 1 .. Len(list) : list[i].key \in Seq(Byte)
    /\ \A i, j \in 1 .. Len(list) : list[i].key = list[j].key => i = j

LEMMA PrimFacts ==
    ASSUME NEW v \in Prims
    PROVE  /\ v.type \in Types \ {"array", "dictionary"}
           /\ v = _xpc_prim_create(v.type, v.u)
           /\ v.list = <<>>
           /\ v.type = "null" => v.u = <<0, 0>>
           /\ v.type = "bool" => v.u \in (0 .. 1) \X Half
           /\ v.type \in {"int64", "uint64", "double", "date", "fd"} => v.u \in Half \X Half
           /\ v.type \in {"string", "data"} => v.u \in Seq(Byte)
  BY DEF Prims, Types, _xpc_prim_create

LEMMA IsPrim ==
    /\ xpc_null_create \in Prims
    /\ \A u \in (0 .. 1) \X Half : _xpc_prim_create("bool", u) \in Prims
    /\ \A type \in {"int64", "uint64", "double", "date", "fd"} : \A u \in Half \X Half :
          _xpc_prim_create(type, u) \in Prims
    /\ \A type \in {"string", "data"} : \A u \in Seq(Byte) :
          _xpc_prim_create(type, u) \in Prims
  BY DEF Prims, _xpc_prim_create, xpc_null_create

\* A sequence of pairs with values in S.
LEMMA ListFacts ==
    ASSUME NEW K, NEW S, NEW list \in Seq([key : K, val : S])
    PROVE  /\ ListIn(list, S)
           /\ \A i \in 1 .. Len(list) : list[i].key \in K
  <1>1. /\ Len(list) \in Nat
        /\ DOMAIN list = 1 .. Len(list)
        /\ list \in [1 .. Len(list) -> [key : K, val : S]]
    BY LenProperties
  <1>2. \A i \in 1 .. Len(list) : /\ list[i] = [key |-> list[i].key, val |-> list[i].val]
                                  /\ list[i].val \in S
                                  /\ list[i].key \in K
    BY <1>1
  <1>3. list = [i \in 1 .. Len(list) |-> list[i]]
    BY <1>1
  <1> QED
    BY <1>1, <1>2, <1>3 DEF ListIn

LEMMA IsSeq ==
    ASSUME NEW S, NEW m \in Nat, NEW s \in [1 .. m -> S]
    PROVE  s \in Seq(S)
  BY SeqDef

LEMMA IsList ==
    ASSUME NEW K, NEW S, NEW list, ListIn(list, S), \A i \in 1 .. Len(list) : list[i].key \in K
    PROVE  list \in Seq([key : K, val : S])
  <1>1. \A i \in 1 .. Len(list) : list[i] \in [key : K, val : S]
    BY DEF ListIn
  <1>2. PICK P : P = [key : K, val : S]
    OBVIOUS
  <1>3. list \in [1 .. Len(list) -> P] /\ Len(list) \in Nat
    BY <1>1, <1>2 DEF ListIn
  <1>4. list \in Seq(P)
    BY <1>3, IsSeq
  <1> QED
    BY <1>2, <1>4

LEMMA BoxFacts ==
    ASSUME NEW S, NEW v \in Boxes(S)
    PROVE  /\ v.type \in {"array", "dictionary"}
           /\ ListIn(v.list, S)
           /\ v.type = "array" => v = Arr(v.list) /\ Unnamed(v.list)
           /\ v.type = "dictionary" => v = Dict(v.list) /\ Named(v.list)
  <1>1. CASE v \in [type : {"array"}, u : {<<>>}, list : Seq([key : {NoName}, val : S])]
    <2>1. v.type = "array" /\ v = Arr(v.list) /\ v.list \in Seq([key : {NoName}, val : S])
      BY <1>1 DEF Arr
    <2>2. ListIn(v.list, S) /\ \A i \in 1 .. Len(v.list) : v.list[i].key \in {NoName}
      BY <2>1, ListFacts
    <2> QED
      BY <2>1, <2>2 DEF Unnamed
  <1>2. CASE v \in {d \in [type : {"dictionary"}, u : {<<>>},
                           list : Seq([key : Seq(Byte), val : S])] :
                       \A i, j \in DOMAIN d.list : d.list[i].key = d.list[j].key => i = j}
    <2>1. /\ v.type = "dictionary" /\ v = Dict(v.list)
          /\ v.list \in Seq([key : Seq(Byte), val : S])
          /\ \A i, j \in DOMAIN v.list : v.list[i].key = v.list[j].key => i = j
      BY <1>2 DEF Dict
    <2>2. ListIn(v.list, S) /\ \A i \in 1 .. Len(v.list) : v.list[i].key \in Seq(Byte)
      BY <2>1, ListFacts
    <2> QED
      BY <2>1, <2>2 DEF Named, ListIn
  <1> QED
    BY <1>1, <1>2 DEF Boxes

LEMMA IsBox ==
    ASSUME NEW S, NEW list, ListIn(list, S)
    PROVE  /\ Unnamed(list) => Arr(list) \in Boxes(S)
           /\ Named(list) => Dict(list) \in Boxes(S)
  <1>1. ASSUME Unnamed(list) PROVE Arr(list) \in Boxes(S)
    <2>1. list \in Seq([key : {NoName}, val : S])
      BY <1>1, IsList DEF Unnamed
    <2> QED
      BY <2>1 DEF Arr, Boxes
  <1>2. ASSUME Named(list) PROVE Dict(list) \in Boxes(S)
    <2>1. list \in Seq([key : Seq(Byte), val : S])
      BY <1>2, IsList DEF Named
    <2>2. \A i, j \in DOMAIN list : list[i].key = list[j].key => i = j
      BY <1>2 DEF Named, ListIn
    <2> QED
      BY <2>1, <2>2 DEF Dict, Boxes
  <1> QED
    BY <1>1, <1>2

\* What there is to know of a value nested at most n + 1 deep.
LEMMA ValueFacts ==
    ASSUME NEW n \in Nat, NEW v \in Values[n + 1]
    PROVE  /\ v.type \in Types
           /\ ListIn(v.list, Values[n])
           /\ v.type \notin {"array", "dictionary"} => v \in Prims
           /\ v.type = "array" => v = Arr(v.list) /\ Unnamed(v.list)
           /\ v.type = "dictionary" => v = Dict(v.list) /\ Named(v.list)
  <1>1. CASE v \in Prims
    <2>1. v.type \in Types \ {"array", "dictionary"} /\ v.list = <<>>
      BY <1>1, PrimFacts
    <2>2. ListIn(v.list, Values[n])
      <3>1. v.list \in Seq([key : {NoName}, val : Values[n]])
        BY <2>1, EmptySeq
      <3> QED
        BY <3>1, ListFacts
    <2> QED
      BY <1>1, <2>1, <2>2
  <1>2. CASE v \in Boxes(Values[n])
    BY <1>2, BoxFacts DEF Types
  <1> QED
    BY <1>1, <1>2, ValuesAt

LEMMA IsValue ==
    ASSUME NEW n \in Nat
    PROVE  /\ Prims \subseteq Values[n + 1]
           /\ Boxes(Values[n]) \subseteq Values[n + 1]
  BY ValuesAt

\* A value is a value at every greater depth.
LEMMA ValuesGrow == \A n \in Nat : Values[n] \subseteq Values[n + 1]
  <1> DEFINE T == {n \in Nat : Values[n] \subseteq Values[n + 1]}
  <1>1. 0 \in T
    BY ValuesAt
  <1>2. ASSUME NEW n \in T PROVE n + 1 \in T
    <2>1. n \in Nat /\ n + 1 \in Nat /\ Values[n] \subseteq Values[n + 1]
      OBVIOUS
    <2>2. ASSUME NEW v \in Values[n + 1] PROVE v \in Values[(n + 1) + 1]
      <3>1. /\ ListIn(v.list, Values[n + 1])
            /\ v.type \in Types
            /\ v.type \notin {"array", "dictionary"} => v \in Prims
            /\ v.type = "array" => v = Arr(v.list) /\ Unnamed(v.list)
            /\ v.type = "dictionary" => v = Dict(v.list) /\ Named(v.list)
        BY <2>1, ValueFacts DEF ListIn
      <3>2. v \in Prims \/ v \in Boxes(Values[n + 1])
        BY <3>1, IsBox
      <3> QED
        BY <2>1, <3>2, IsValue
    <2> QED
      BY <2>1, <2>2
  <1>3. T \in SUBSET Nat
    OBVIOUS
  <1>4. T = Nat
    <2> HIDE DEF T
    <2> QED
      BY <1>1, <1>2, <1>3, Nats!AllNat
  <1> QED
    BY <1>4

\* Nothing a value is or holds is a null pointer.
LEMMA NotNull ==
    ASSUME NEW n \in Nat, NEW v \in Values[n]
    PROVE  /\ n # 0 /\ n - 1 \in Nat /\ n = (n - 1) + 1
           /\ v.type \in Types
           /\ v # NULL /\ v # Crash
  <1>1. n # 0 /\ n - 1 \in Nat /\ n = (n - 1) + 1
    BY ValuesAt
  <1>2. v.type \in Types
    BY <1>1, ValueFacts
  <1>3. v # NULL /\ v # Crash
    BY <1>2 DEF Types, NULL, Crash
  <1> QED
    BY <1>1, <1>2, <1>3

\* list with one element more.
Longer(list, k, v) == Append(list, [key |-> k, val |-> v])

LEMMA LongerFacts ==
    ASSUME NEW S, NEW list, ListIn(list, S), NEW k, NEW v \in S
    PROVE  /\ ListIn(Longer(list, k, v), S)
           /\ Len(Longer(list, k, v)) = Len(list) + 1
           /\ \A i \in 1 .. Len(list) : Longer(list, k, v)[i] = list[i]
           /\ Longer(list, k, v)[Len(list) + 1] = [key |-> k, val |-> v]
  <1> DEFINE K == {list[i].key : i \in 1 .. Len(list)} \cup {k}
  <1>1. list \in Seq([key : K, val : S])
    BY IsList
  <1>2. PICK pair \in [key : K, val : S] : pair = [key |-> k, val |-> v]
    OBVIOUS
  <1> HIDE DEF K
  <1>3. Longer(list, k, v) = Append(list, pair)
    BY <1>2 DEF Longer
  <1>4. /\ Append(list, pair) \in Seq([key : K, val : S])
        /\ Len(Append(list, pair)) = Len(list) + 1
        /\ \A i \in 1 .. Len(list) : Append(list, pair)[i] = list[i]
        /\ Append(list, pair)[Len(list) + 1] = pair
    BY <1>1, AppendProperties
  <1>5. ListIn(Append(list, pair), S)
    BY <1>4, ListFacts
  <1> QED
    BY <1>2, <1>3, <1>4, <1>5

\* Which keys it has.
LEMMA LongerKeys ==
    ASSUME NEW S, NEW list, ListIn(list, S), NEW k, NEW v \in S
    PROVE  /\ Named(list) /\ k \in Seq(Byte) /\ (\A i \in DOMAIN list : list[i].key # k)
                 => Named(Longer(list, k, v))
           /\ Unnamed(list) /\ k = NoName => Unnamed(Longer(list, k, v))
  <1> DEFINE keys == [i \in 1 .. Len(list) + 1 |-> IF i <= Len(list) THEN list[i].key ELSE k]
  <1>1. Len(list) \in Nat /\ DOMAIN list = 1 .. Len(list)
    BY DEF ListIn
  <1>2. /\ Len(Longer(list, k, v)) = Len(list) + 1
        /\ \A i \in 1 .. Len(list) : Longer(list, k, v)[i] = list[i]
        /\ Longer(list, k, v)[Len(list) + 1] = [key |-> k, val |-> v]
    BY LongerFacts
  <1>3. ASSUME NEW i \in 1 .. Len(list) + 1 PROVE Longer(list, k, v)[i].key = keys[i]
    <2>1. CASE i \in 1 .. Len(list)
      <3>1. Longer(list, k, v)[i] = list[i]
        BY <1>2, <2>1
      <3> QED
        BY <1>1, <2>1, <3>1
    <2>2. CASE i = Len(list) + 1
      <3>1. Longer(list, k, v)[i].key = k
        BY <1>2, <2>2
      <3> QED
        BY <1>1, <2>2, <3>1
    <2> QED
      BY <1>1, <2>1, <2>2
  <1>4. ASSUME Named(list), k \in Seq(Byte), \A i \in 1 .. Len(list) : list[i].key # k
        PROVE  /\ \A i \in 1 .. Len(list) + 1 : keys[i] \in Seq(Byte)
               /\ \A i, j \in 1 .. Len(list) + 1 : keys[i] = keys[j] => i = j
    <2>1. ASSUME NEW i \in 1 .. Len(list) + 1 PROVE keys[i] \in Seq(Byte)
      BY <1>1, <1>4 DEF Named
    <2>2. ASSUME NEW i \in 1 .. Len(list) + 1, NEW j \in 1 .. Len(list) + 1, keys[i] = keys[j]
          PROVE  i = j
      BY <1>1, <1>4, <2>2 DEF Named
    <2> QED
      BY <2>1, <2>2
  <1>5. ASSUME Unnamed(list), k = NoName
        PROVE  \A i \in 1 .. Len(list) + 1 : keys[i] = NoName
    BY <1>1, <1>5 DEF Unnamed
  <1> HIDE DEF keys
  <1>6. ASSUME Named(list), k \in Seq(Byte), \A i \in DOMAIN list : list[i].key # k
        PROVE  Named(Longer(list, k, v))
    <2>1. /\ \A i \in 1 .. Len(list) + 1 : keys[i] \in Seq(Byte)
          /\ \A i, j \in 1 .. Len(list) + 1 : keys[i] = keys[j] => i = j
      BY <1>1, <1>4, <1>6
    <2> QED
      BY <1>2, <1>3, <2>1 DEF Named
  <1>7. ASSUME Unnamed(list), k = NoName PROVE Unnamed(Longer(list, k, v))
    BY <1>2, <1>3, <1>5, <1>7 DEF Unnamed
  <1> QED
    BY <1>6, <1>7

\* A key that is not there is put at the end (xpc_dictionary_set_value).
LEMMA SetNewValue ==
    ASSUME NEW list, NEW k, NEW v, v \notin {NULL, Crash},
           \A i \in DOMAIN list : list[i].key # k
    PROVE  xpc_dictionary_set_value(Dict(list), k, v)
              = Dict(Longer(list, k, v))
  <1>1. {i \in DOMAIN list : list[i].key = k} = {}
    OBVIOUS
  <1>2. Dict(list) # Crash /\ Dict(list).list = list
    BY DEF Dict, Crash
  <1>3. [Dict(list) EXCEPT !.list = Append(@, [key |-> k, val |-> v])]
           = Dict(Longer(list, k, v))
    BY DEF Dict, Longer
  <1> QED
    BY <1>1, <1>2, <1>3 DEF xpc_dictionary_set_value, Retaining

LEMMA AppendValue ==
    ASSUME NEW list, NEW v, v \notin {NULL, Crash}
    PROVE  xpc_array_append_value(Arr(list), v)
              = Arr(Longer(list, NoName, v))
  <1>1. Arr(list) # Crash
    BY DEF Arr, Crash
  <1>2. [Arr(list) EXCEPT !.list = Append(@, [key |-> NoName, val |-> v])]
           = Arr(Longer(list, NoName, v))
    BY DEF Arr, Longer
  <1> QED
    BY <1>1, <1>2 DEF xpc_array_append_value, Retaining

\* Keys stay distinct: a pair under a key that is there is replaced.
LEMMA SetValueType ==
    ASSUME NEW n \in Nat, NEW list, ListIn(list, Values[n]), Named(list),
           NEW k \in Seq(Byte), NEW v \in Values[n]
    PROVE  xpc_dictionary_set_value(Dict(list), k, v) \in Boxes(Values[n])
  <1> DEFINE hits == {i \in DOMAIN list : list[i].key = k}
             pair == [key |-> k, val |-> v]
  <1>1. v \notin {NULL, Crash}
    BY NotNull
  <1>2. CASE hits = {}
    <2>1. xpc_dictionary_set_value(Dict(list), k, v) = Dict(Longer(list, k, v))
      BY <1>1, <1>2, SetNewValue
    <2>2. ListIn(Longer(list, k, v), Values[n]) /\ Named(Longer(list, k, v))
      BY <1>2, LongerFacts, LongerKeys
    <2> QED
      BY <2>1, <2>2, IsBox
  <1>3. CASE hits # {}
    <2>1. PICK h \in hits : TRUE
      BY <1>3
    <2>2. hits = {h}
      BY <2>1 DEF Named, ListIn
    <2>3. (CHOOSE i \in hits : \A j \in hits : i <= j) = h
      BY <2>1, <2>2 DEF ListIn
    <2>4. Dict(list).list = list
      BY DEF Dict
    <2>5. xpc_dictionary_set_value(Dict(list), k, v) = [Dict(list) EXCEPT !.list[h] = pair]
      BY <1>3, <2>3, <2>4 DEF xpc_dictionary_set_value
    <2>6. PICK new : new = [list EXCEPT ![h] = pair]
      OBVIOUS
    <2>7. xpc_dictionary_set_value(Dict(list), k, v) = Dict(new)
      BY <2>5, <2>6 DEF Dict
    <2>8. list \in Seq([key : Seq(Byte), val : Values[n]])
      BY IsList DEF Named
    <2>9. h \in 1 .. Len(list) /\ list[h].key = k
      BY <2>1 DEF ListIn
    <2>10. /\ new \in Seq([key : Seq(Byte), val : Values[n]])
           /\ Len(new) = Len(list)
           /\ \A j \in 1 .. Len(list) : new[j] = IF j = h THEN pair ELSE list[j]
      <3>1. pair \in [key : Seq(Byte), val : Values[n]]
        OBVIOUS
      <3> HIDE DEF pair
      <3> QED
        BY <2>6, <2>8, <2>9, <3>1, ExceptSeq
    <2>11. ASSUME NEW j \in 1 .. Len(list) PROVE new[j].key = list[j].key
      <3>1. CASE j = h
        BY <2>9, <2>10, <3>1
      <3>2. CASE j # h
        BY <2>10, <3>2
      <3> QED
        BY <3>1, <3>2
    <2>12. ListIn(new, Values[n])
      BY <2>10, ListFacts
    <2>13. Named(new)
      BY <2>10, <2>11 DEF Named
    <2> QED
      BY <2>7, <2>12, <2>13, IsBox
  <1> QED
    BY <1>2, <1>3

LEMMA AppendValueType ==
    ASSUME NEW n \in Nat, NEW list, ListIn(list, Values[n]), Unnamed(list), NEW v \in Values[n]
    PROVE  xpc_array_append_value(Arr(list), v) \in Boxes(Values[n])
  <1>1. xpc_array_append_value(Arr(list), v) = Arr(Longer(list, NoName, v))
    BY NotNull, AppendValue
  <1>2. ListIn(Longer(list, NoName, v), Values[n]) /\ Unnamed(Longer(list, NoName, v))
    BY LongerFacts, LongerKeys
  <1> QED
    BY <1>1, <1>2, IsBox

-----------------------------------------------------------------------------
(* What callers build is a value *)

LEMMA NoElements ==
    /\ xpc_dictionary_create = Dict(<<>>) /\ xpc_array_create = Arr(<<>>)
    /\ \A S : ListIn(<<>>, S)
    /\ Named(<<>>) /\ Unnamed(<<>>)
  <1>1. xpc_dictionary_create = Dict(<<>>) /\ xpc_array_create = Arr(<<>>)
    BY DEF xpc_dictionary_create, xpc_array_create, _xpc_prim_create, Dict, Arr
  <1>2. ASSUME NEW S PROVE ListIn(<<>>, S)
    BY EmptySeq, ListFacts
  <1>3. Named(<<>>) /\ Unnamed(<<>>)
    BY DEF Named, Unnamed
  <1> QED
    BY <1>1, <1>2, <1>3

\* The objects callers build are values, with distinct keys in every dictionary:
\* xpc_dictionary_set_value replaces the pair of a key that is there.
THEOREM TypeCorrect == Spec => []TypeOK
  <1>1. PICK m \in Nat : m = MaxDepth - 1 /\ MaxDepth = m + 1
    BY DepthAssumption
  <1>2. /\ Given \subseteq Values[m] /\ Values[m] \subseteq Values[m + 1]
        /\ Names \subseteq Seq(Byte)
    BY <1>1, CallerAssumption, ValuesGrow
  <1>3. Init => TypeOK
    BY <1>1, <1>2 DEF Init, TypeOK
  <1>4. TypeOK /\ [Next]_x => TypeOK'
    <2> SUFFICES ASSUME x \in Values[m + 1], [Next]_x
                 PROVE  x' \in Values[m + 1]
      BY <1>1 DEF TypeOK
    <2>1. /\ ListIn(x.list, Values[m])
          /\ x.type = "array" => x = Arr(x.list) /\ Unnamed(x.list)
          /\ x.type = "dictionary" => x = Dict(x.list) /\ Named(x.list)
      BY ValueFacts
    <2>2. CASE SetPair
      <3>1. PICK k \in Seq(Byte), v \in Values[m] :
               x.type = "dictionary" /\ x' = xpc_dictionary_set_value(x, k, v)
        BY <1>2, <2>2 DEF SetPair
      <3>2. x' \in Boxes(Values[m])
        BY <2>1, <3>1, SetValueType
      <3> QED
        BY <3>2, IsValue
    <2>3. CASE AppendElement
      <3>1. PICK v \in Values[m] : x.type = "array" /\ x' = xpc_array_append_value(x, v)
        BY <1>2, <2>3 DEF AppendElement
      <3>2. x' \in Boxes(Values[m])
        BY <2>1, <3>1, AppendValueType
      <3> QED
        BY <3>2, IsValue
    <2>4. CASE Nest
      <3>1. x \in Values[m]
        BY <1>1, <2>4 DEF Nest
      <3>2. CASE \E k \in Names : x' = xpc_dictionary_set_value(xpc_dictionary_create, k, x)
        <4>1. PICK k \in Seq(Byte) : x' = xpc_dictionary_set_value(Dict(<<>>), k, x)
          BY <1>2, <3>2, NoElements
        <4>2. x' \in Boxes(Values[m])
          BY <3>1, <4>1, NoElements, SetValueType
        <4> QED
          BY <4>2, IsValue
      <3>3. CASE x' = xpc_array_append_value(xpc_array_create, x)
        <4>1. x' \in Boxes(Values[m])
          BY <3>1, <3>3, NoElements, AppendValueType
        <4> QED
          BY <4>1, IsValue
      <3> QED
        BY <2>4, <3>2, <3>3 DEF Nest
    <2>5. CASE UNCHANGED x
      BY <2>5
    <2> QED
      BY <2>2, <2>3, <2>4, <2>5 DEF Next
  <1> QED
    BY <1>3, <1>4, PTL DEF Spec

-----------------------------------------------------------------------------
(* What the appliers build (xpc_apply_fun) *)

\* The first m elements of a list, with the function f of their values.
Mapped(list, f, m) == [i \in 1 .. m |-> [key |-> list[i].key, val |-> f[list[i].val]]]

\* A value no container takes in among those of the first m elements.
Fatal(list, f, m) == \E i \in 1 .. m : f[list[i].val] \in {NULL, Crash}

LEMMA MappedFacts ==
    ASSUME NEW list, NEW f, NEW m \in Nat
    PROVE  /\ Len(Mapped(list, f, m)) = m
           /\ DOMAIN Mapped(list, f, m) = 1 .. m
           /\ \A i \in 1 .. m : /\ Mapped(list, f, m)[i].key = list[i].key
                                /\ Mapped(list, f, m)[i].val = f[list[i].val]
           /\ \A S : (\A i \in 1 .. m : f[list[i].val] \in S) => ListIn(Mapped(list, f, m), S)
  <1> DEFINE M == Mapped(list, f, m)
             K == {list[i].key : i \in 1 .. m}
             V == {f[list[i].val] : i \in 1 .. m}
  <1>1. \A i \in 1 .. m : [key |-> list[i].key, val |-> f[list[i].val]] \in [key : K, val : V]
    OBVIOUS
  <1>2. M \in [1 .. m -> [key : K, val : V]]
    BY <1>1 DEF Mapped
  <1>3. M \in Seq([key : K, val : V])
    <2> HIDE DEF M, K, V
    <2>1. PICK P : P = [key : K, val : V]
      OBVIOUS
    <2>2. M \in Seq(P)
      BY <1>2, <2>1, IsSeq
    <2> QED
      BY <2>1, <2>2
  <1>4. DOMAIN M = 1 .. m /\ Len(M) = m
    <2>1. DOMAIN M = 1 .. m
      BY DEF Mapped
    <2>2. Len(M) \in Nat /\ DOMAIN M = 1 .. Len(M)
      BY <1>3, LenProperties
    <2> HIDE DEF M
    <2> QED
      BY <2>1, <2>2
  <1>5. \A i \in 1 .. m : /\ M[i].key = list[i].key
                          /\ M[i].val = f[list[i].val]
                          /\ M[i] = [key |-> M[i].key, val |-> M[i].val]
    BY DEF Mapped
  <1>6. M = [i \in 1 .. m |-> M[i]]
    BY DEF Mapped
  <1>7. ASSUME NEW S, \A i \in 1 .. m : f[list[i].val] \in S PROVE ListIn(M, S)
    <2> HIDE DEF M
    <2> QED
      BY <1>4, <1>5, <1>6, <1>7 DEF ListIn
  <1> QED
    BY <1>4, <1>5, <1>7

LEMMA MappedGrows ==
    ASSUME NEW list, NEW f, NEW m \in Nat
    PROVE  Longer(Mapped(list, f, m), list[m + 1].key, f[list[m + 1].val])
              = Mapped(list, f, m + 1)
  <1> DEFINE V == {f[list[i].val] : i \in 1 .. m + 1}
             v == f[list[m + 1].val]
             k == list[m + 1].key
  <1>1. v \in V
    OBVIOUS
  <1>2. ListIn(Mapped(list, f, m), V) /\ Len(Mapped(list, f, m)) = m
    BY MappedFacts
  <1>3. ListIn(Mapped(list, f, m + 1), V) /\ Len(Mapped(list, f, m + 1)) = m + 1
    BY MappedFacts
  <1> HIDE DEF V, v, k
  <1>4. /\ ListIn(Longer(Mapped(list, f, m), k, v), V)
        /\ Len(Longer(Mapped(list, f, m), k, v)) = m + 1
        /\ \A i \in 1 .. m : Longer(Mapped(list, f, m), k, v)[i] = Mapped(list, f, m)[i]
        /\ Longer(Mapped(list, f, m), k, v)[m + 1] = [key |-> k, val |-> v]
    BY <1>1, <1>2, LongerFacts
  <1>5. ASSUME NEW i \in 1 .. m + 1
        PROVE  Longer(Mapped(list, f, m), k, v)[i] = Mapped(list, f, m + 1)[i]
    <2>1. CASE i \in 1 .. m
      <3>1. Mapped(list, f, m)[i] = Mapped(list, f, m + 1)[i]
        BY <2>1 DEF Mapped
      <3> QED
        BY <1>4, <2>1, <3>1
    <2>2. CASE i = m + 1
      <3>1. Mapped(list, f, m + 1)[m + 1] = [key |-> k, val |-> v]
        BY DEF Mapped, k, v
      <3> QED
        BY <1>4, <2>2, <3>1
    <2> QED
      BY <2>1, <2>2
  <1>6. /\ Longer(Mapped(list, f, m), k, v)
             = [i \in 1 .. m + 1 |-> Longer(Mapped(list, f, m), k, v)[i]]
        /\ Mapped(list, f, m + 1) = [i \in 1 .. m + 1 |-> Mapped(list, f, m + 1)[i]]
    BY <1>3, <1>4 DEF ListIn
  <1>7. Longer(Mapped(list, f, m), k, v) = Mapped(list, f, m + 1)
    BY <1>5, <1>6
  <1> QED
    BY <1>7 DEF k, v

\* Two ways through the elements that agree at each step agree at the end.
LEMMA SameFold ==
    ASSUME NEW m \in Nat, NEW g, NEW h, g[0] = h[0],
           \A i \in 1 .. m : g[i - 1] = h[i - 1] => g[i] = h[i]
    PROVE  g[m] = h[m]
  <1> DEFINE T == {i \in Nat : i <= m => g[i] = h[i]}
  <1>1. 0 \in T
    OBVIOUS
  <1>2. ASSUME NEW i \in T PROVE i + 1 \in T
    <2> SUFFICES ASSUME i + 1 <= m PROVE g[i + 1] = h[i + 1]
      OBVIOUS
    <2>1. i + 1 \in 1 .. m /\ (i + 1) - 1 = i /\ g[i] = h[i]
      OBVIOUS
    <2> QED
      BY <2>1
  <1>3. T \in SUBSET Nat
    OBVIOUS
  <1>4. T = Nat
    <2> HIDE DEF T
    <2> QED
      BY <1>1, <1>2, <1>3, Nats!AllNat
  <1> QED
    BY <1>4

\* A dictionary to which each element of list is set in turn: as copies and received
\* dictionaries are made.
SetAll(list, f) ==
    xpc_apply_fun(list, LAMBDA d, e : xpc_dictionary_set_value(d, e.key, f[e.val]),
                  xpc_dictionary_create)

SetSome(list, f, m) == IF Fatal(list, f, m) THEN Crash ELSE Dict(Mapped(list, f, m))

LEMMA SetSomeGrows ==
    ASSUME NEW list, NEW f, NEW m \in Nat,
           \A i \in 1 .. m : list[i].key # list[m + 1].key
    PROVE  xpc_dictionary_set_value(SetSome(list, f, m), list[m + 1].key, f[list[m + 1].val])
              = SetSome(list, f, m + 1)
  <1> DEFINE v == f[list[m + 1].val]
             k == list[m + 1].key
  <1>1. Fatal(list, f, m + 1) <=> Fatal(list, f, m) \/ v \in {NULL, Crash}
    BY DEF Fatal
  <1>2. \A i \in DOMAIN Mapped(list, f, m) : Mapped(list, f, m)[i].key # k
    BY MappedFacts
  <1>3. Longer(Mapped(list, f, m), k, v) = Mapped(list, f, m + 1)
    BY MappedGrows
  <1> HIDE DEF v, k
  <1>4. CASE Fatal(list, f, m)
    <2>1. DOMAIN Crash.list = {}
      BY DEF Crash
    <2>2. xpc_dictionary_set_value(Crash, k, v) = Crash
      BY <2>1 DEF xpc_dictionary_set_value, Retaining
    <2> QED
      BY <1>1, <1>4, <2>2 DEF SetSome, k, v
  <1>5. CASE ~Fatal(list, f, m) /\ v \in {NULL, Crash}
    <2>1. Dict(Mapped(list, f, m)).list = Mapped(list, f, m)
      BY DEF Dict
    <2>2. xpc_dictionary_set_value(Dict(Mapped(list, f, m)), k, v) = Crash
      BY <1>2, <1>5, <2>1 DEF xpc_dictionary_set_value, Retaining
    <2> QED
      BY <1>1, <1>5, <2>2 DEF SetSome, k, v
  <1>6. CASE ~Fatal(list, f, m) /\ v \notin {NULL, Crash}
    <2>1. xpc_dictionary_set_value(Dict(Mapped(list, f, m)), k, v)
             = Dict(Mapped(list, f, m + 1))
      BY <1>2, <1>3, <1>6, SetNewValue
    <2> QED
      BY <1>1, <1>6, <2>1 DEF SetSome, k, v
  <1> QED
    BY <1>4, <1>5, <1>6

\* A dictionary with distinct keys, each element under its own; or a crash.
LEMMA SetAllIs ==
    ASSUME NEW list, NEW f, Len(list) \in Nat,
           \A i, j \in 1 .. Len(list) : list[i].key = list[j].key => i = j
    PROVE  SetAll(list, f) = SetSome(list, f, Len(list))
  <1> DEFINE Body(after, i) == xpc_dictionary_set_value(after[i - 1], list[i].key, f[list[i].val])
             After(after) == after = [i \in 0 .. Len(list) |->
                                        IF i = 0 THEN xpc_dictionary_create ELSE Body(after, i)]
             g == [i \in 0 .. Len(list) |-> SetSome(list, f, i)]
             A == CHOOSE after : After(after)
  <1>1. SetAll(list, f) = A[Len(list)]
    BY DEF SetAll, xpc_apply_fun
  <1>2. SetSome(list, f, 0) = xpc_dictionary_create
    <2>1. Mapped(list, f, 0) = <<>>
      BY DEF Mapped
    <2>2. ~Fatal(list, f, 0)
      BY DEF Fatal
    <2> QED
      BY <2>1, <2>2, NoElements DEF SetSome
  <1>3. ASSUME NEW m \in Nat, m + 1 <= Len(list)
        PROVE  SetSome(list, f, m + 1)
                  = xpc_dictionary_set_value(SetSome(list, f, m), list[m + 1].key, f[list[m + 1].val])
    <2>1. \A i \in 1 .. m : list[i].key # list[m + 1].key
      BY <1>3
    <2> QED
      BY <2>1, SetSomeGrows
  <1>4. After(g)
    <2>1. ASSUME NEW i \in 1 .. Len(list) PROVE g[i] = Body(g, i)
      <3>1. PICK m \in Nat : m = i - 1 /\ i = m + 1 /\ m + 1 <= Len(list)
        BY <2>1
      <3>2. g[i] = SetSome(list, f, m + 1) /\ g[m] = SetSome(list, f, m)
        BY <3>1
      <3> QED
        BY <1>3, <3>1, <3>2
    <2>2. g[0] = xpc_dictionary_create
      BY <1>2
    <2>3. g = [i \in 0 .. Len(list) |-> g[i]]
      OBVIOUS
    <2> HIDE DEF g, Body
    <2>4. \A i \in 0 .. Len(list) : g[i] = IF i = 0 THEN xpc_dictionary_create ELSE Body(g, i)
      BY <2>1, <2>2
    <2> QED
      BY <2>3, <2>4
  <1>5. After(A)
    <2> HIDE DEF After, g
    <2> QED
      BY <1>4
  <1>6. A[Len(list)] = g[Len(list)]
    <2> HIDE DEF A, g
    <2>1. A[0] = g[0]
      BY <1>4, <1>5
    <2>2. ASSUME NEW i \in 1 .. Len(list), A[i - 1] = g[i - 1] PROVE A[i] = g[i]
      BY <1>4, <1>5, <2>2
    <2> QED
      BY <2>1, <2>2, SameFold
  <1>7. g[Len(list)] = SetSome(list, f, Len(list))
    OBVIOUS
  <1> HIDE DEF A, g
  <1> QED
    BY <1>1, <1>6, <1>7

\* An array to which each element of list is appended in turn, as received arrays
\* are made.
AppendAll(list, f) ==
    xpc_apply_fun(list, LAMBDA a, e : xpc_array_append_value(a, f[e.val]), xpc_array_create)

AppendSome(list, f, m) == IF Fatal(list, f, m) THEN Crash ELSE Arr(Mapped(list, f, m))

LEMMA AppendSomeGrows ==
    ASSUME NEW list, NEW f, NEW m \in Nat, list[m + 1].key = NoName
    PROVE  xpc_array_append_value(AppendSome(list, f, m), f[list[m + 1].val])
              = AppendSome(list, f, m + 1)
  <1> DEFINE v == f[list[m + 1].val]
  <1>1. Fatal(list, f, m + 1) <=> Fatal(list, f, m) \/ v \in {NULL, Crash}
    BY DEF Fatal
  <1>2. Longer(Mapped(list, f, m), NoName, v) = Mapped(list, f, m + 1)
    BY MappedGrows
  <1> HIDE DEF v
  <1>3. CASE Fatal(list, f, m) \/ v \in {NULL, Crash}
    <2>1. xpc_array_append_value(AppendSome(list, f, m), v) = Crash
      BY <1>3 DEF xpc_array_append_value, Retaining, AppendSome
    <2> QED
      BY <1>1, <1>3, <2>1 DEF AppendSome, v
  <1>4. CASE ~Fatal(list, f, m) /\ v \notin {NULL, Crash}
    <2>1. xpc_array_append_value(Arr(Mapped(list, f, m)), v) = Arr(Mapped(list, f, m + 1))
      BY <1>2, <1>4, AppendValue
    <2> QED
      BY <1>1, <1>4, <2>1 DEF AppendSome, v
  <1> QED
    BY <1>3, <1>4

LEMMA AppendAllIs ==
    ASSUME NEW list, NEW f, Len(list) \in Nat, Unnamed(list)
    PROVE  AppendAll(list, f) = AppendSome(list, f, Len(list))
  <1> DEFINE Body(after, i) == xpc_array_append_value(after[i - 1], f[list[i].val])
             After(after) == after = [i \in 0 .. Len(list) |->
                                        IF i = 0 THEN xpc_array_create ELSE Body(after, i)]
             g == [i \in 0 .. Len(list) |-> AppendSome(list, f, i)]
             A == CHOOSE after : After(after)
  <1>1. AppendAll(list, f) = A[Len(list)]
    BY DEF AppendAll, xpc_apply_fun
  <1>2. AppendSome(list, f, 0) = xpc_array_create
    <2>1. Mapped(list, f, 0) = <<>>
      BY DEF Mapped
    <2>2. ~Fatal(list, f, 0)
      BY DEF Fatal
    <2> QED
      BY <2>1, <2>2, NoElements DEF AppendSome
  <1>3. After(g)
    <2>1. ASSUME NEW i \in 1 .. Len(list) PROVE g[i] = Body(g, i)
      <3>1. PICK m \in Nat : m = i - 1 /\ i = m + 1 /\ m + 1 <= Len(list)
        BY <2>1
      <3>2. g[i] = AppendSome(list, f, m + 1) /\ g[m] = AppendSome(list, f, m)
        BY <3>1
      <3>3. AppendSome(list, f, m + 1)
               = xpc_array_append_value(AppendSome(list, f, m), f[list[m + 1].val])
        BY <3>1, AppendSomeGrows DEF Unnamed
      <3> QED
        BY <3>1, <3>2, <3>3
    <2>2. g[0] = xpc_array_create
      BY <1>2
    <2>3. g = [i \in 0 .. Len(list) |-> g[i]]
      OBVIOUS
    <2> HIDE DEF g, Body
    <2>4. \A i \in 0 .. Len(list) : g[i] = IF i = 0 THEN xpc_array_create ELSE Body(g, i)
      BY <2>1, <2>2
    <2> QED
      BY <2>3, <2>4
  <1>4. After(A)
    <2> HIDE DEF After, g
    <2> QED
      BY <1>3
  <1>5. A[Len(list)] = g[Len(list)]
    <2> HIDE DEF A, g
    <2>1. A[0] = g[0]
      BY <1>3, <1>4
    <2>2. ASSUME NEW i \in 1 .. Len(list), A[i - 1] = g[i - 1] PROVE A[i] = g[i]
      BY <1>3, <1>4, <2>2
    <2> QED
      BY <2>1, <2>2, SameFold
  <1>6. g[Len(list)] = AppendSome(list, f, Len(list))
    OBVIOUS
  <1> HIDE DEF A, g
  <1> QED
    BY <1>1, <1>5, <1>6

\* The copy of an array: the copies of its elements get lost.
LoseAll(list, f) ==
    xpc_apply_fun(list, LAMBDA a, e : array_copy_cb(a, f[e.val]), xpc_array_create)

Lost(list, f, m) == IF \E i \in 1 .. m : f[list[i].val] = Crash THEN Crash ELSE Arr(<<>>)

LEMMA LoseAllIs ==
    ASSUME NEW list, NEW f, Len(list) \in Nat
    PROVE  LoseAll(list, f) = Lost(list, f, Len(list))
  <1> DEFINE Body(after, i) == array_copy_cb(after[i - 1], f[list[i].val])
             After(after) == after = [i \in 0 .. Len(list) |->
                                        IF i = 0 THEN xpc_array_create ELSE Body(after, i)]
             g == [i \in 0 .. Len(list) |-> Lost(list, f, i)]
             A == CHOOSE after : After(after)
  <1>1. LoseAll(list, f) = A[Len(list)]
    BY DEF LoseAll, xpc_apply_fun
  <1>2. Lost(list, f, 0) = xpc_array_create
    BY NoElements DEF Lost
  <1>3. ASSUME NEW m \in Nat
        PROVE  Lost(list, f, m + 1) = array_copy_cb(Lost(list, f, m), f[list[m + 1].val])
    <2>1. (\E i \in 1 .. m + 1 : f[list[i].val] = Crash)
             <=> (\E i \in 1 .. m : f[list[i].val] = Crash) \/ f[list[m + 1].val] = Crash
      OBVIOUS
    <2> QED
      BY <2>1 DEF Lost, array_copy_cb
  <1>4. After(g)
    <2>1. ASSUME NEW i \in 1 .. Len(list) PROVE g[i] = Body(g, i)
      <3>1. PICK m \in Nat : m = i - 1 /\ i = m + 1 /\ m + 1 <= Len(list)
        BY <2>1
      <3>2. g[i] = Lost(list, f, m + 1) /\ g[m] = Lost(list, f, m)
        BY <3>1
      <3> QED
        BY <1>3, <3>1, <3>2
    <2>2. g[0] = xpc_array_create
      BY <1>2
    <2>3. g = [i \in 0 .. Len(list) |-> g[i]]
      OBVIOUS
    <2> HIDE DEF g, Body
    <2>4. \A i \in 0 .. Len(list) : g[i] = IF i = 0 THEN xpc_array_create ELSE Body(g, i)
      BY <2>1, <2>2
    <2> QED
      BY <2>3, <2>4
  <1>5. After(A)
    <2> HIDE DEF After, g
    <2> QED
      BY <1>4
  <1>6. A[Len(list)] = g[Len(list)]
    <2> HIDE DEF A, g
    <2>1. A[0] = g[0]
      BY <1>4, <1>5
    <2>2. ASSUME NEW i \in 1 .. Len(list), A[i - 1] = g[i - 1] PROVE A[i] = g[i]
      BY <1>4, <1>5, <2>2
    <2> QED
      BY <2>1, <2>2, SameFold
  <1>7. g[Len(list)] = Lost(list, f, Len(list))
    OBVIOUS
  <1> HIDE DEF A, g
  <1> QED
    BY <1>1, <1>6, <1>7

-----------------------------------------------------------------------------
(* What the hash of a container is: the bits that an odd number of its     *)
(* elements have                                                           *)

OddBits(E, m) ==
    {b \in UNION {E[i] : i \in 1 .. m} : Cardinality({i \in 1 .. m : b \in E[i]}) % 2 = 1}

LEMMA OddBitsGrow ==
    ASSUME NEW E, NEW m \in Nat
    PROVE  OddBits(E, m + 1) = Xor(OddBits(E, m), E[m + 1])
  <1>1. ASSUME NEW b PROVE b \in OddBits(E, m + 1) <=> b \in Xor(OddBits(E, m), E[m + 1])
    <2> DEFINE I == {i \in 1 .. m : b \in E[i]}
               J == {i \in 1 .. m + 1 : b \in E[i]}
    <2>1. IsFiniteSet(I) /\ Cardinality(I) \in Nat
      <3>1. IsFiniteSet(1 .. m)
        BY FS_Interval
      <3> QED
        BY <3>1, FS_Subset, FS_CardinalityType
    <2>2. b \in UNION {E[i] : i \in 1 .. m} <=> I # {}
      OBVIOUS
    <2>3. b \in UNION {E[i] : i \in 1 .. m + 1} <=> J # {}
      OBVIOUS
    <2>4. /\ b \in OddBits(E, m) <=> I # {} /\ Cardinality(I) % 2 = 1
          /\ b \in OddBits(E, m + 1) <=> J # {} /\ Cardinality(J) % 2 = 1
      BY <2>2, <2>3 DEF OddBits
    <2>5. CASE b \in E[m + 1]
      <3>1. J = I \cup {m + 1} /\ m + 1 \notin I
        BY <2>5
      <3>2. Cardinality(J) = Cardinality(I) + 1
        <4> HIDE DEF I, J
        <4> QED
          BY <2>1, <3>1, FS_AddElement
      <3>3. I = {} => Cardinality(I) = 0
        BY FS_EmptySet
      <3>4. J # {}
        BY <3>1
      <3> HIDE DEF I, J
      <3>5. (I # {} /\ Cardinality(I) % 2 = 1) <=> ~(Cardinality(J) % 2 = 1)
        BY <2>1, <3>2, <3>3
      <3> QED
        BY <2>4, <2>5, <3>4, <3>5 DEF Xor
    <2>6. CASE b \notin E[m + 1]
      <3>1. J = I
        BY <2>6
      <3> HIDE DEF I, J
      <3> QED
        BY <2>4, <2>6, <3>1 DEF Xor
    <2> QED
      BY <2>5, <2>6
  <1> QED
    BY <1>1

XorAll(list, f) ==
    xpc_apply_fun(list, LAMBDA h, e : array_hash_cb(h, f[e.val]), {})

XorAllKeyed(list, f) ==
    xpc_apply_fun(list, LAMBDA h, e : dict_hash_cb(h, e.key, f[e.val]), {})

LEMMA NoOddBits == ASSUME NEW E PROVE OddBits(E, 0) = {}
  BY DEF OddBits

LEMMA XorAllIs ==
    ASSUME NEW list, NEW f, Len(list) \in Nat, NEW E,
           \A i \in 1 .. Len(list) : E[i] = f[list[i].val]
    PROVE  XorAll(list, f) = OddBits(E, Len(list))
  <1> DEFINE none == {}
             Body(after, i) == array_hash_cb(after[i - 1], f[list[i].val])
             After(after) == after = [i \in 0 .. Len(list) |-> IF i = 0 THEN none ELSE Body(after, i)]
             g == [i \in 0 .. Len(list) |-> OddBits(E, i)]
             A == CHOOSE after : After(after)
  <1>1. XorAll(list, f) = A[Len(list)]
    BY DEF XorAll, xpc_apply_fun
  <1>2. After(g)
    <2>1. ASSUME NEW i \in 1 .. Len(list) PROVE g[i] = Body(g, i)
      <3>1. PICK m \in Nat : m = i - 1 /\ i = m + 1 /\ m + 1 <= Len(list)
        BY <2>1
      <3>2. g[i] = OddBits(E, m + 1) /\ g[m] = OddBits(E, m)
        BY <3>1
      <3>3. E[m + 1] = f[list[i].val]
        BY <3>1
      <3> QED
        BY <3>1, <3>2, <3>3, OddBitsGrow DEF array_hash_cb
    <2>2. g[0] = none
      BY NoOddBits
    <2>3. g = [i \in 0 .. Len(list) |-> g[i]]
      OBVIOUS
    <2> HIDE DEF g, Body, none
    <2>4. \A i \in 0 .. Len(list) : g[i] = IF i = 0 THEN none ELSE Body(g, i)
      BY <2>1, <2>2
    <2> QED
      BY <2>3, <2>4
  <1>3. After(A)
    <2> HIDE DEF After, g
    <2> QED
      BY <1>2
  <1>4. A[Len(list)] = g[Len(list)]
    <2> HIDE DEF A, g, none
    <2>1. A[0] = g[0]
      BY <1>2, <1>3
    <2>2. ASSUME NEW i \in 1 .. Len(list), A[i - 1] = g[i - 1] PROVE A[i] = g[i]
      BY <1>2, <1>3, <2>2
    <2> QED
      BY <2>1, <2>2, SameFold
  <1>5. g[Len(list)] = OddBits(E, Len(list))
    OBVIOUS
  <1> HIDE DEF A, g
  <1> QED
    BY <1>1, <1>4, <1>5

LEMMA XorAllKeyedIs ==
    ASSUME NEW list, NEW f, Len(list) \in Nat, NEW E,
           \A i \in 1 .. Len(list) : E[i] = Xor(xpc_data_hash(list[i].key), f[list[i].val])
    PROVE  XorAllKeyed(list, f) = OddBits(E, Len(list))
  <1> DEFINE none == {}
             Body(after, i) == dict_hash_cb(after[i - 1], list[i].key, f[list[i].val])
             After(after) == after = [i \in 0 .. Len(list) |-> IF i = 0 THEN none ELSE Body(after, i)]
             g == [i \in 0 .. Len(list) |-> OddBits(E, i)]
             A == CHOOSE after : After(after)
  <1>1. XorAllKeyed(list, f) = A[Len(list)]
    BY DEF XorAllKeyed, xpc_apply_fun
  <1>2. \A h, k, vh : dict_hash_cb(h, k, vh) = Xor(h, Xor(xpc_data_hash(k), vh))
    BY DEF dict_hash_cb, Xor
  <1>3. After(g)
    <2>1. ASSUME NEW i \in 1 .. Len(list) PROVE g[i] = Body(g, i)
      <3>1. PICK m \in Nat : m = i - 1 /\ i = m + 1 /\ m + 1 <= Len(list)
        BY <2>1
      <3>2. g[i] = OddBits(E, m + 1) /\ g[m] = OddBits(E, m)
        BY <3>1
      <3>3. E[m + 1] = Xor(xpc_data_hash(list[i].key), f[list[i].val])
        BY <3>1
      <3>4. g[i] = Xor(g[m], Xor(xpc_data_hash(list[i].key), f[list[i].val]))
        BY <3>1, <3>2, <3>3, OddBitsGrow
      <3> HIDE DEF g
      <3> QED
        BY <1>2, <3>1, <3>4
    <2>2. g[0] = none
      BY NoOddBits
    <2>3. g = [i \in 0 .. Len(list) |-> g[i]]
      OBVIOUS
    <2> HIDE DEF g, Body, none
    <2>4. \A i \in 0 .. Len(list) : g[i] = IF i = 0 THEN none ELSE Body(g, i)
      BY <2>1, <2>2
    <2> QED
      BY <2>3, <2>4
  <1>4. After(A)
    <2> HIDE DEF After, g
    <2> QED
      BY <1>3
  <1>5. A[Len(list)] = g[Len(list)]
    <2> HIDE DEF A, g, none
    <2>1. A[0] = g[0]
      BY <1>3, <1>4
    <2>2. ASSUME NEW i \in 1 .. Len(list), A[i - 1] = g[i - 1] PROVE A[i] = g[i]
      BY <1>3, <1>4, <2>2
    <2> QED
      BY <2>1, <2>2, SameFold
  <1>6. g[Len(list)] = OddBits(E, Len(list))
    OBVIOUS
  <1> HIDE DEF A, g
  <1> QED
    BY <1>1, <1>5, <1>6

-----------------------------------------------------------------------------
(* The objects in a value *)

\* v is or holds an object of one of the types.
Holds(n, v, types) == \E p \in PartsOf[n][v] : p.type \in types

LEMMA HoldsAt ==
    ASSUME NEW n \in Nat, NEW v \in Values[n + 1], NEW types
    PROVE  Holds(n + 1, v, types)
              <=> \/ v.type \in types
                  \/ \E i \in 1 .. Len(v.list) : Holds(n, v.list[i].val, types)
  <1>1. PartsOf[n + 1][v] = {v} \cup UNION {PartsOf[n][v.list[i].val] : i \in DOMAIN v.list}
    BY PartsOfAt DEF parts_with
  <1>2. DOMAIN v.list = 1 .. Len(v.list)
    BY ValueFacts DEF ListIn
  <1> QED
    BY <1>1, <1>2 DEF Holds

LEMMA PartsAreValues == \A n \in Nat : \A v \in Values[n] : PartsOf[n][v] \subseteq Values[n]
  <1> DEFINE T == {n \in Nat : \A v \in Values[n] : PartsOf[n][v] \subseteq Values[n]}
  <1>1. 0 \in T
    BY ValuesAt
  <1>2. ASSUME NEW n \in T PROVE n + 1 \in T
    <2>1. n \in Nat /\ \A v \in Values[n] : PartsOf[n][v] \subseteq Values[n]
      OBVIOUS
    <2>2. ASSUME NEW v \in Values[n + 1], NEW p \in PartsOf[n + 1][v] PROVE p \in Values[n + 1]
      <3> HIDE DEF T
      <3>4. PartsOf[n + 1][v] = {v} \cup UNION {PartsOf[n][v.list[i].val] : i \in DOMAIN v.list}
        BY <2>1, PartsOfAt DEF parts_with
      <3>1. p = v \/ \E i \in DOMAIN v.list : p \in PartsOf[n][v.list[i].val]
        BY <2>2, <3>4
      <3>2. \A i \in DOMAIN v.list : v.list[i].val \in Values[n]
        BY <2>1, ValueFacts DEF ListIn
      <3>3. p = v \/ p \in Values[n]
        BY <2>1, <3>1, <3>2
      <3> QED
        BY <2>1, <3>3, ValuesGrow
    <2> QED
      BY <2>1, <2>2
  <1>3. T \in SUBSET Nat
    OBVIOUS
  <1>4. T = Nat
    <2> HIDE DEF T
    <2> QED
      BY <1>1, <1>2, <1>3, Nats!AllNat
  <1> QED
    BY <1>4

-----------------------------------------------------------------------------
(* The message a value is sent as *)

LEMMA SigFacts ==
    /\ DictSig \notin {"b", "x", "t", "s", "ay", "h", "refused"}
    /\ ArraySig \notin {"b", "x", "t", "s", "ay", "h", "refused"}
    /\ DictSig # ArraySig
  <1>1. DictSig \notin {"b", "x", "t", "s", "ay", "h", "refused"} /\ DictSig # ArraySig
    BY Zenon DEF DictSig, ArraySig
  <1>2. ArraySig \notin {"b", "x", "t", "s", "ay", "h", "refused"}
    BY Zenon DEF ArraySig
  <1> QED
    BY <1>1, <1>2

Elems(n, v) ==
    [i \in DOMAIN v.list |-> Variant(v.list[i].key, xpc_dbus_type(v.list[i].val),
                                     Appended[n][v.list[i].val])]

LEMMA AppendedIs ==
    ASSUME NEW n \in Nat, NEW v \in Values[n + 1]
    PROVE  /\ v.type = "dictionary" => Appended[n + 1][v] = Array(DictSig, Elems(n, v))
           /\ v.type = "array" => Appended[n + 1][v] = Array(ArraySig, Elems(n, v))
           /\ v.type \notin {"array", "dictionary"} => Appended[n + 1][v] = append_basic(v)
  <1>1. Appended[n + 1][v] = append_with(v, Appended[n])
    BY AppendedAt
  <1> QED
    BY <1>1 DEF append_with, Elems

LEMMA ElemsFacts ==
    ASSUME NEW n \in Nat, NEW v \in Values[n + 1],
           \A c \in Values[n] : Appended[n][c] \in Wires[n]
    PROVE  /\ Elems(n, v) \in Seq([key : Seq(Int), sig : Signatures, val : Wires[n]])
           /\ Len(Elems(n, v)) = Len(v.list)
           /\ DOMAIN Elems(n, v) = 1 .. Len(v.list)
           /\ \A i \in 1 .. Len(v.list) :
                 /\ Elems(n, v)[i].key = v.list[i].key
                 /\ Elems(n, v)[i].sig = xpc_dbus_type(v.list[i].val)
                 /\ Elems(n, v)[i].val = Appended[n][v.list[i].val]
  <1>1. /\ Len(v.list) \in Nat /\ DOMAIN v.list = 1 .. Len(v.list)
        /\ \A i \in 1 .. Len(v.list) : v.list[i].val \in Values[n]
    BY ValueFacts DEF ListIn
  <1>2. ASSUME NEW i \in 1 .. Len(v.list) PROVE v.list[i].key \in Seq(Int)
    <2>1. NoName \in Seq(Int)
      BY DEF NoName
    <2>2. Seq(Byte) \subseteq Seq(Int)
      <3>1. Byte \subseteq Int
        BY DEF Byte
      <3> QED
        BY <3>1, SeqMonotonic
    <2>3. v.type \in {"array", "dictionary"}
      <3>1. v.type \notin {"array", "dictionary"} => v \in Prims
        BY ValueFacts
      <3>2. v \in Prims => Len(v.list) = 0
        BY PrimFacts
      <3> QED
        BY <3>1, <3>2
    <2>4. CASE v.type = "array"
      BY <2>1, <2>4, ValueFacts DEF Unnamed
    <2>5. CASE v.type = "dictionary"
      BY <2>2, <2>5, ValueFacts DEF Named
    <2> QED
      BY <2>3, <2>4, <2>5
  <1>3. \A c : xpc_dbus_type(c) \in Signatures
    BY DEF xpc_dbus_type, Signatures
  <1>4. \A i \in 1 .. Len(v.list) :
           /\ /\ Elems(n, v)[i].key = v.list[i].key
              /\ Elems(n, v)[i].sig = xpc_dbus_type(v.list[i].val)
              /\ Elems(n, v)[i].val = Appended[n][v.list[i].val]
           /\ Elems(n, v)[i] \in [key : Seq(Int), sig : Signatures, val : Wires[n]]
    <2> TAKE i \in 1 .. Len(v.list)
    <2>1. Elems(n, v)[i] = [key |-> v.list[i].key, sig |-> xpc_dbus_type(v.list[i].val),
                            val |-> Appended[n][v.list[i].val]]
      BY <1>1 DEF Elems, Variant
    <2>2. Appended[n][v.list[i].val] \in Wires[n]
      BY <1>1
    <2>3. Elems(n, v)[i] \in [key : Seq(Int), sig : Signatures, val : Wires[n]]
      BY <1>2, <1>3, <2>1, <2>2
    <2>4. /\ Elems(n, v)[i].key = v.list[i].key
          /\ Elems(n, v)[i].sig = xpc_dbus_type(v.list[i].val)
          /\ Elems(n, v)[i].val = Appended[n][v.list[i].val]
      BY <2>1
    <2> QED
      BY <2>3, <2>4
  <1>5. DOMAIN Elems(n, v) = 1 .. Len(v.list)
    BY <1>1 DEF Elems
  <1>6. Elems(n, v) = [i \in 1 .. Len(v.list) |-> Elems(n, v)[i]]
    BY <1>1 DEF Elems
  <1>7. Elems(n, v) \in [1 .. Len(v.list) -> [key : Seq(Int), sig : Signatures, val : Wires[n]]]
    BY <1>4, <1>6
  <1>8. Elems(n, v) \in Seq([key : Seq(Int), sig : Signatures, val : Wires[n]])
    <2>1. PICK P : P = [key : Seq(Int), sig : Signatures, val : Wires[n]]
      OBVIOUS
    <2>2. Elems(n, v) \in [1 .. Len(v.list) -> P]
      BY <1>7, <2>1
    <2>3. Elems(n, v) \in Seq(P)
      BY <1>1, <2>2, IsSeq
    <2> QED
      BY <2>1, <2>3
  <1>9. Len(Elems(n, v)) = Len(v.list)
    BY <1>1, <1>5, <1>8, LenProperties
  <1> QED
    BY <1>4, <1>5, <1>8, <1>9

LEMMA IsWire ==
    ASSUME NEW n \in Nat
    PROVE  /\ \A sig \in Signatures \cup {"refused"}, val \in Seq(Nat) :
                 Basic(sig, val) \in Wires[n + 1]
           /\ \A elems \in Seq([key : Seq(Int), sig : Signatures, val : Wires[n]]) :
                 Array(DictSig, elems) \in Wires[n + 1] /\ Array(ArraySig, elems) \in Wires[n + 1]
  BY WiresAt DEF WiresStep, Basic, Array

\* The content of a value that is not a container.
LEMMA ContentFacts ==
    ASSUME NEW v \in Prims
    PROVE  /\ v.u \in Seq(Nat)
           /\ v.type \in {"bool", "fd"} => v.u[1] \in Nat /\ <<v.u[1]>> \in Seq(Nat)
           /\ <<0>> \in Seq(Nat) /\ <<>> \in Seq(Nat)
  <1>1. Half \subseteq Nat /\ 0 .. 1 \subseteq Nat /\ Byte \subseteq Nat
    BY DEF Half, Byte
  <1>2. ASSUME NEW u \in Nat \X Nat PROVE u \in Seq(Nat) /\ u[1] \in Nat
    <2>1. PICK a \in Nat, b \in Nat : u = <<a, b>>
      OBVIOUS
    <2>2. <<a, b>> \in Seq(Nat) /\ <<a, b>>[1] = a
      OBVIOUS
    <2> QED
      BY <2>1, <2>2
  <1>3. CASE v.type = "null"
    <2>1. v.u = <<0, 0>> /\ <<0, 0>> \in Nat \X Nat
      BY <1>3, PrimFacts
    <2> QED
      BY <1>2, <1>3, <2>1
  <1>4. CASE v.type = "bool"
    <2>1. v.u \in Nat \X Nat
      BY <1>1, <1>4, PrimFacts
    <2> QED
      BY <1>2, <1>4, <2>1
  <1>5. CASE v.type \in {"int64", "uint64", "double", "date", "fd"}
    <2>1. v.u \in Nat \X Nat
      BY <1>1, <1>5, PrimFacts
    <2> QED
      BY <1>2, <1>5, <2>1
  <1>6. CASE v.type \in {"string", "data"}
    <2>1. v.u \in Seq(Byte)
      BY <1>6, PrimFacts
    <2>2. v.u \in Seq(Nat)
      BY <1>1, <2>1, SeqMonotonic
    <2> QED
      BY <1>6, <2>2
  <1>7. v.u \in Seq(Nat) /\ (v.type \in {"bool", "fd"} => v.u[1] \in Nat)
    <2>1. v.type \in Types \ {"array", "dictionary"}
      BY PrimFacts
    <2> QED
      BY <1>3, <1>4, <1>5, <1>6, <2>1 DEF Types
  <1>8. /\ \A a \in Nat : <<a>> \in Seq(Nat)
        /\ <<>> \in Seq(Nat)
    OBVIOUS
  <1> QED
    BY <1>7, <1>8

LEMMA AppendBasicFacts ==
    ASSUME NEW v \in Prims
    PROVE  /\ append_basic(v).sig = IF v.type = "data" THEN "refused" ELSE xpc_dbus_type(v)
           /\ append_basic(v).elems = <<>>
           /\ \A n \in Nat : append_basic(v) \in Wires[n + 1]
  <1>1. /\ append_basic(v).sig = IF v.type = "data" THEN "refused" ELSE xpc_dbus_type(v)
        /\ append_basic(v).elems = <<>>
    BY PrimFacts, SigFacts DEF append_basic, xpc_dbus_type, Basic, Refused, Types
  <1>2. \E sig \in Signatures \cup {"refused"}, val \in Seq(Nat) : append_basic(v) = Basic(sig, val)
    <2>1. v.type \in Types \ {"array", "dictionary"}
      BY PrimFacts
    <2>2. CASE v.type \in {"bool", "fd"}
      <3>1. append_basic(v) = Basic(IF v.type = "bool" THEN "b" ELSE "h", <<v.u[1]>>)
        BY <2>2 DEF append_basic
      <3> QED
        BY <2>2, <3>1, ContentFacts DEF Signatures
    <2>3. CASE v.type \in {"int64", "date", "uint64", "string"}
      <3>1. \E sig \in Signatures : append_basic(v) = Basic(sig, v.u)
        BY <2>3 DEF append_basic, Signatures
      <3> QED
        BY <3>1, ContentFacts
    <2>4. CASE v.type = "data"
      <3>1. append_basic(v) = Basic("refused", <<>>)
        BY <2>4 DEF append_basic, Refused
      <3> QED
        BY <3>1, ContentFacts
    <2>5. CASE v.type \in {"null", "double"}
      <3>1. append_basic(v) = Basic("b", <<0>>)
        BY <2>5 DEF append_basic
      <3> QED
        BY <3>1, ContentFacts DEF Signatures
    <2> QED
      BY <2>1, <2>2, <2>3, <2>4, <2>5 DEF Types
  <1> QED
    BY <1>1, <1>2, IsWire

\* Every value goes out as a D-Bus value of the declared type, and libdbus can send
\* it if there is no data in it.
LEMMA Sent ==
    \A n \in Nat : \A v \in Values[n] :
       /\ Appended[n][v] \in Wires[n]
       /\ Appended[n][v].sig = IF v.type = "data" THEN "refused" ELSE xpc_dbus_type(v)
       /\ Sound[n][Appended[n][v]] <=> ~Holds(n, v, {"data"})
  <1> DEFINE P(n, v) == /\ Appended[n][v] \in Wires[n]
                        /\ Appended[n][v].sig = IF v.type = "data" THEN "refused"
                                                ELSE xpc_dbus_type(v)
                        /\ Sound[n][Appended[n][v]] <=> ~Holds(n, v, {"data"})
             T == {n \in Nat : \A v \in Values[n] : P(n, v)}
  <1>1. 0 \in T
    BY ValuesAt
  <1>2. ASSUME NEW n \in Nat, \A c \in Values[n] : P(n, c), NEW v \in Values[n + 1]
        PROVE  P(n + 1, v)
    <2>1. v.type \in Types /\ ListIn(v.list, Values[n])
      BY ValueFacts
    <2>2. Holds(n + 1, v, {"data"})
             <=> v.type = "data" \/ \E i \in 1 .. Len(v.list) : Holds(n, v.list[i].val, {"data"})
      BY HoldsAt
    <2>3. CASE v.type \notin {"array", "dictionary"}
      <3>1. v \in Prims
        BY <2>3, ValueFacts
      <3>2. Appended[n + 1][v] = append_basic(v)
        BY <2>3, AppendedIs
      <3>6. Len(v.list) = 0
        BY <3>1, PrimFacts, EmptySeq
      <3>3. /\ append_basic(v) \in Wires[n + 1]
            /\ append_basic(v).sig = IF v.type = "data" THEN "refused" ELSE xpc_dbus_type(v)
            /\ append_basic(v).elems = <<>>
        BY <3>1, AppendBasicFacts
      <3>4. Sound[n + 1][append_basic(v)] <=> append_basic(v).sig # "refused"
        <4>1. Sound[n + 1][append_basic(v)] = wellformed_with(append_basic(v), Sound[n])
          BY <3>3, SoundAt
        <4>2. wellformed_with(append_basic(v), Sound[n]) <=> append_basic(v).sig # "refused"
          BY <3>3 DEF wellformed_with
        <4> QED
          BY <4>1, <4>2, Zenon
      <3>5. xpc_dbus_type(v) # "refused"
        BY SigFacts DEF xpc_dbus_type
      <3> QED
        BY <2>2, <3>2, <3>3, <3>4, <3>5, <3>6
    <2>4. CASE v.type \in {"array", "dictionary"}
      <3> DEFINE w == Array(xpc_dbus_type(v), Elems(n, v))
      <3>1. Appended[n + 1][v] = w
        BY <2>4, AppendedIs DEF xpc_dbus_type
      <3>2. xpc_dbus_type(v) \in {DictSig, ArraySig}
        BY <2>4 DEF xpc_dbus_type
      <3>3. /\ Elems(n, v) \in Seq([key : Seq(Int), sig : Signatures, val : Wires[n]])
            /\ DOMAIN Elems(n, v) = 1 .. Len(v.list)
            /\ \A i \in 1 .. Len(v.list) :
                  /\ Elems(n, v)[i].sig = xpc_dbus_type(v.list[i].val)
                  /\ Elems(n, v)[i].val = Appended[n][v.list[i].val]
        <4>1. \A c \in Values[n] : Appended[n][c] \in Wires[n]
          BY <1>2
        <4> QED
          BY <4>1, ElemsFacts
      <3>4. w \in Wires[n + 1]
        BY <3>2, <3>3, IsWire
      <3>5. w.sig = xpc_dbus_type(v) /\ w.elems = Elems(n, v)
        BY DEF Array
      <3>6. Sound[n + 1][w]
               <=> \A i \in DOMAIN Elems(n, v) : /\ Elems(n, v)[i].sig = Elems(n, v)[i].val.sig
                                                 /\ Sound[n][Elems(n, v)[i].val]
        <4> HIDE DEF w
        <4>1. Sound[n + 1][w] = wellformed_with(w, Sound[n])
          BY <3>4, SoundAt
        <4>2. w.sig # "refused"
          BY <3>2, <3>5, SigFacts
        <4>3. wellformed_with(w, Sound[n])
                 <=> \A i \in DOMAIN Elems(n, v) : /\ Elems(n, v)[i].sig = Elems(n, v)[i].val.sig
                                                   /\ Sound[n][Elems(n, v)[i].val]
          BY <3>5, <4>2, Zenon DEF wellformed_with
        <4> QED
          BY <4>1, <4>3, Zenon
      <3> HIDE DEF w
      <3>7. ASSUME NEW i \in 1 .. Len(v.list)
            PROVE  /\ Elems(n, v)[i].sig = Elems(n, v)[i].val.sig
                   /\ Sound[n][Elems(n, v)[i].val]
                   <=> ~Holds(n, v.list[i].val, {"data"})
        <4>1. v.list[i].val \in Values[n]
          BY <2>1 DEF ListIn
        <4>2. P(n, v.list[i].val)
          BY <1>2, <4>1
        <4>3. v.list[i].val.type = "data" => Holds(n, v.list[i].val, {"data"})
          <5>1. PICK m \in Nat : n = m + 1
            BY <4>1, NotNull
          <5> QED
            BY <4>1, <5>1, HoldsAt
        <4> QED
          BY <3>3, <4>2, <4>3
      <3>8. Sound[n + 1][w] <=> ~Holds(n + 1, v, {"data"})
        BY <2>2, <2>4, <3>3, <3>6, <3>7
      <3> QED
        BY <2>4, <3>1, <3>4, <3>5, <3>8
    <2> QED
      BY <2>3, <2>4
  <1>3. ASSUME NEW n \in T PROVE n + 1 \in T
    <2>1. n \in Nat /\ \A c \in Values[n] : P(n, c)
      OBVIOUS
    <2> HIDE DEF P
    <2> QED
      BY <1>2, <2>1
  <1>4. T \in SUBSET Nat
    OBVIOUS
  <1>5. T = Nat
    <2> HIDE DEF T
    <2> QED
      BY <1>1, <1>3, <1>4, Nats!AllNat
  <1> QED
    BY <1>5

-----------------------------------------------------------------------------
(* The value a message is received as *)

Recv == [n \in Nat |-> [v \in Values[n] |-> Parsed[n][Appended[n][v]]]]

\* What arrives of v.
Arrived(n, v) ==
    CASE v.type = "date" -> xpc_int64_create(v.u)
      [] v.type \in {"null", "double"} -> xpc_bool_create(0)
      [] v.type = "bool" -> xpc_bool_create(v.u[1])
      [] v.type = "fd" -> xpc_fd_create(v.u[1])
      [] v.type = "array" -> Arr(Mapped(v.list, Recv[n], Len(v.list)))
      [] v.type = "dictionary" -> Dict(Mapped(v.list, Recv[n], Len(v.list)))
      [] OTHER -> v

LEMMA ArrivedPrim ==
    ASSUME NEW n \in Nat, NEW v \in Prims, v.type # "data"
    PROVE  /\ deserialise_basic(append_basic(v)) = Arrived(n, v)
           /\ append_basic(v).sig \notin {DictSig, ArraySig}
           /\ Arrived(n, v) \in Prims
  <1>1. /\ v.type \in Types \ {"array", "dictionary"}
        /\ v = _xpc_prim_create(v.type, v.u)
    BY PrimFacts
  <1>2. Junk \in Half /\ 0 \in 0 .. 1
    BY WordAssumption
  <1>3. ASSUME NEW sig, NEW val
        PROVE  Basic(sig, val).sig = sig /\ Basic(sig, val).val = val
    BY DEF Basic
  <1>4. CASE v.type = "date"
    <2>1. append_basic(v) = Basic("x", v.u)
      BY <1>4 DEF append_basic
    <2>2. Arrived(n, v) = xpc_int64_create(v.u)
      BY <1>4 DEF Arrived
    <2>3. deserialise_basic(append_basic(v)) = xpc_int64_create(v.u)
      BY <1>3, <2>1 DEF deserialise_basic
    <2>4. xpc_int64_create(v.u) \in Prims
      BY <1>4, PrimFacts, IsPrim DEF xpc_int64_create
    <2>5. append_basic(v).sig = "x" /\ "x" \notin {DictSig, ArraySig}
      BY <1>3, <2>1, SigFacts
    <2> QED
      BY <2>2, <2>3, <2>4, <2>5
  <1>5. CASE v.type \in {"null", "double"}
    <2>1. append_basic(v) = Basic("b", <<0>>)
      BY <1>5 DEF append_basic
    <2>2. Arrived(n, v) = xpc_bool_create(0)
      BY <1>5 DEF Arrived
    <2>3. deserialise_basic(append_basic(v)) = xpc_bool_create(0)
      BY <1>3, <2>1 DEF deserialise_basic
    <2>4. xpc_bool_create(0) \in Prims
      BY <1>2, IsPrim DEF xpc_bool_create
    <2>5. append_basic(v).sig = "b" /\ "b" \notin {DictSig, ArraySig}
      BY <1>3, <2>1, SigFacts
    <2> QED
      BY <2>2, <2>3, <2>4, <2>5
  <1>6. CASE v.type = "bool"
    <2>1. append_basic(v) = Basic("b", <<v.u[1]>>)
      BY <1>6 DEF append_basic
    <2>2. Arrived(n, v) = xpc_bool_create(v.u[1])
      BY <1>6 DEF Arrived
    <2>3. deserialise_basic(append_basic(v)) = xpc_bool_create(v.u[1])
      BY <1>3, <2>1 DEF deserialise_basic
    <2>4. v.u[1] \in 0 .. 1
      BY <1>6, PrimFacts
    <2>5. xpc_bool_create(v.u[1]) \in Prims
      BY <1>2, <2>4, IsPrim DEF xpc_bool_create
    <2>6. append_basic(v).sig = "b" /\ "b" \notin {DictSig, ArraySig}
      BY <1>3, <2>1, SigFacts
    <2> QED
      BY <2>2, <2>3, <2>5, <2>6
  <1>7. CASE v.type = "fd"
    <2>1. append_basic(v) = Basic("h", <<v.u[1]>>)
      BY <1>7 DEF append_basic
    <2>2. Arrived(n, v) = xpc_fd_create(v.u[1])
      BY <1>7 DEF Arrived
    <2>3. deserialise_basic(append_basic(v)) = xpc_fd_create(v.u[1])
      BY <1>3, <2>1 DEF deserialise_basic
    <2>4. v.u[1] \in Half
      BY <1>7, PrimFacts
    <2>5. xpc_fd_create(v.u[1]) \in Prims
      BY <1>2, <2>4, IsPrim DEF xpc_fd_create
    <2>6. append_basic(v).sig = "h" /\ "h" \notin {DictSig, ArraySig}
      BY <1>3, <2>1, SigFacts
    <2> QED
      BY <2>2, <2>3, <2>5, <2>6
  <1>8. CASE v.type \in {"int64", "uint64", "string"}
    <2>1. append_basic(v) = Basic(IF v.type = "int64" THEN "x"
                                  ELSE IF v.type = "uint64" THEN "t" ELSE "s", v.u)
      BY <1>8 DEF append_basic
    <2>2. Arrived(n, v) = v
      BY <1>8 DEF Arrived
    <2>3. deserialise_basic(append_basic(v)) = _xpc_prim_create(v.type, v.u)
      BY <1>3, <1>8, <2>1
         DEF deserialise_basic, xpc_int64_create, xpc_uint64_create, xpc_string_create
    <2>4. append_basic(v).sig \in {"x", "t", "s"}
      BY <1>3, <2>1
    <2> QED
      BY <1>1, <2>2, <2>3, <2>4, SigFacts
  <1> QED
    BY <1>1, <1>4, <1>5, <1>6, <1>7, <1>8 DEF Types

\* What arrives of a value without data is a value.
LEMMA ReceivedIs ==
    \A n \in Nat :
       /\ \A v \in Values[n] : ~Holds(n, v, {"data"}) => Recv[n][v] \in Values[n]
       /\ \A v \in Values[n + 1] : ~Holds(n + 1, v, {"data"}) => Recv[n + 1][v] = Arrived(n, v)
  <1> DEFINE Arrives(n) == \A v \in Values[n] : ~Holds(n, v, {"data"}) => Recv[n][v] \in Values[n]
             Becomes(n) == \A v \in Values[n + 1] :
                              ~Holds(n + 1, v, {"data"}) =>
                                 /\ Recv[n + 1][v] = Arrived(n, v)
                                 /\ Recv[n + 1][v] \in Values[n + 1]
             T == {n \in Nat : Arrives(n)}
  <1>1. 0 \in T
    BY ValuesAt
  <1>2. ASSUME NEW n \in Nat, Arrives(n) PROVE Becomes(n)
    <2> SUFFICES ASSUME NEW v \in Values[n + 1], ~Holds(n + 1, v, {"data"})
                 PROVE  Recv[n + 1][v] = Arrived(n, v) /\ Arrived(n, v) \in Values[n + 1]
      OBVIOUS
    <2>1. v.type \in Types /\ ListIn(v.list, Values[n])
      BY ValueFacts
    <2>2. /\ v.type # "data"
          /\ \A i \in 1 .. Len(v.list) : ~Holds(n, v.list[i].val, {"data"})
      BY HoldsAt
    <2>3. /\ Recv[n + 1][v] = Parsed[n + 1][Appended[n + 1][v]]
          /\ \A c \in Values[n] : Recv[n][c] = Parsed[n][Appended[n][c]]
      BY DEF Recv
    <2>4. Appended[n + 1][v] \in Wires[n + 1] /\ \A c \in Values[n] : Appended[n][c] \in Wires[n]
      BY Sent
    <2>5. Recv[n + 1][v] = deserialise_with(Appended[n + 1][v], Parsed[n])
      BY <2>3, <2>4, ParsedAt
    <2>6. CASE v.type \notin {"array", "dictionary"}
      <3>1. v \in Prims /\ Appended[n + 1][v] = append_basic(v)
        BY <2>6, ValueFacts, AppendedIs
      <3>2. deserialise_with(append_basic(v), Parsed[n]) = deserialise_basic(append_basic(v))
        BY <2>2, <3>1, ArrivedPrim DEF deserialise_with
      <3> QED
        BY <2>2, <2>5, <3>1, <3>2, ArrivedPrim, IsValue
    <2>7. CASE v.type \in {"array", "dictionary"}
      <3> DEFINE e == Elems(n, v)
                 m == Len(v.list)
      <3>1. /\ m \in Nat /\ Len(e) = m /\ DOMAIN e = 1 .. m
            /\ \A i \in 1 .. m : e[i].key = v.list[i].key /\ e[i].val = Appended[n][v.list[i].val]
        BY <2>1, <2>4, ElemsFacts DEF ListIn
      <3>2. \A i \in 1 .. m : /\ Parsed[n][e[i].val] = Recv[n][v.list[i].val]
                              /\ Recv[n][v.list[i].val] \in Values[n]
        <4> TAKE i \in 1 .. m
        <4>1. v.list[i].val \in Values[n]
          BY <2>1 DEF ListIn
        <4>2. Recv[n][v.list[i].val] \in Values[n]
          BY <1>2, <2>2, <4>1
        <4> QED
          BY <2>3, <3>1, <4>1, <4>2
      <3> HIDE DEF e, m
      <3>3. Mapped(e, Parsed[n], m) = Mapped(v.list, Recv[n], m)
        BY <3>1, <3>2 DEF Mapped
      <3>4. ~Fatal(e, Parsed[n], m)
        BY <3>2, NotNull DEF Fatal
      <3>5. ListIn(Mapped(v.list, Recv[n], m), Values[n])
        BY <3>1, <3>2, MappedFacts
      <3>6. /\ Len(Mapped(v.list, Recv[n], m)) = m
            /\ \A i \in 1 .. m : Mapped(v.list, Recv[n], m)[i].key = v.list[i].key
        BY <3>1, MappedFacts
      <3>7. CASE v.type = "dictionary"
        <4>1. Named(v.list)
          BY <3>7, ValueFacts
        <4>2. Appended[n + 1][v].sig = DictSig /\ Appended[n + 1][v].elems = e
          <5>1. Appended[n + 1][v] = Array(DictSig, e)
            BY <3>7, AppendedIs DEF e
          <5> QED
            BY <5>1 DEF Array
        <4>3. Recv[n + 1][v] = SetAll(e, Parsed[n])
          BY <2>5, <4>2, SigFacts DEF deserialise_with, SetAll
        <4>4. \A i, j \in 1 .. Len(e) : e[i].key = e[j].key => i = j
          BY <3>1, <4>1 DEF Named, m
        <4>5. SetAll(e, Parsed[n]) = Dict(Mapped(v.list, Recv[n], m))
          BY <3>1, <3>3, <3>4, <4>4, SetAllIs DEF SetSome
        <4>6. Named(Mapped(v.list, Recv[n], m))
          BY <3>6, <4>1 DEF Named, m
        <4>7. Arrived(n, v) = Dict(Mapped(v.list, Recv[n], m))
          BY <3>7 DEF Arrived, m
        <4> QED
          BY <3>5, <4>3, <4>5, <4>6, <4>7, IsBox, IsValue
      <3>8. CASE v.type = "array"
        <4>1. Unnamed(v.list)
          BY <3>8, ValueFacts
        <4>2. Appended[n + 1][v].sig = ArraySig /\ Appended[n + 1][v].elems = e
          <5>1. Appended[n + 1][v] = Array(ArraySig, e)
            BY <3>8, AppendedIs DEF e
          <5> QED
            BY <5>1 DEF Array
        <4>3. Recv[n + 1][v] = AppendAll(e, Parsed[n])
          BY <2>5, <4>2, SigFacts DEF deserialise_with, AppendAll
        <4>4. Unnamed(e)
          BY <3>1, <4>1 DEF Unnamed, m
        <4>5. AppendAll(e, Parsed[n]) = Arr(Mapped(v.list, Recv[n], m))
          BY <3>1, <3>3, <3>4, <4>4, AppendAllIs DEF AppendSome
        <4>6. Unnamed(Mapped(v.list, Recv[n], m))
          BY <3>6, <4>1 DEF Unnamed, m
        <4>7. Arrived(n, v) = Arr(Mapped(v.list, Recv[n], m))
          BY <3>8 DEF Arrived, m
        <4> QED
          BY <3>5, <4>3, <4>5, <4>6, <4>7, IsBox, IsValue
      <3> QED
        BY <2>7, <3>7, <3>8
    <2> QED
      BY <2>6, <2>7
  <1>3. ASSUME NEW n \in T PROVE n + 1 \in T
    <2>1. n \in Nat /\ Arrives(n)
      OBVIOUS
    <2>2. Becomes(n)
      <3> HIDE DEF Arrives, Becomes
      <3> QED
        BY <1>2, <2>1
    <2> QED
      BY <2>1, <2>2
  <1>4. T \in SUBSET Nat
    OBVIOUS
  <1>5. T = Nat
    <2> HIDE DEF T
    <2> QED
      BY <1>1, <1>3, <1>4, Nats!AllNat
  <1>6. \A n \in Nat : Arrives(n) /\ Becomes(n)
    <2>1. \A n \in Nat : Arrives(n)
      BY <1>5
    <2> HIDE DEF Arrives, Becomes
    <2> QED
      BY <1>2, <2>1
  <1> QED
    BY <1>6

-----------------------------------------------------------------------------
(* The round trip *)

LEMMA OnValuesIs ==
    ASSUME NEW S, NEW list, ListIn(list, S), NEW f
    PROVE  OnValues(list, f) = Mapped(list, f, Len(list))
  BY DEF OnValues, Mapped, ListIn

LEMMA MappedNone ==
    ASSUME NEW f
    PROVE  OnValues(<<>>, f) = <<>> /\ Mapped(<<>>, f, 0) = <<>>
  BY DEF OnValues, Mapped

LEMMA MappedTwice ==
    ASSUME NEW list, NEW f, NEW g, NEW h, NEW m \in Nat,
           \A i \in 1 .. m : h[f[list[i].val]] = h[g[list[i].val]]
    PROVE  Mapped(Mapped(list, f, m), h, m) = Mapped(Mapped(list, g, m), h, m)
  <1>1. \A i \in 1 .. m :
           /\ Mapped(list, f, m)[i].key = Mapped(list, g, m)[i].key
           /\ h[Mapped(list, f, m)[i].val] = h[Mapped(list, g, m)[i].val]
    BY MappedFacts
  <1> DEFINE F == Mapped(list, f, m)
             G == Mapped(list, g, m)
  <1>2. \A i \in 1 .. m : F[i].key = G[i].key /\ h[F[i].val] = h[G[i].val]
    BY <1>1
  <1> HIDE DEF F, G
  <1>3. Mapped(F, h, m) = Mapped(G, h, m)
    BY <1>2 DEF Mapped
  <1> QED
    BY <1>3 DEF F, G

LEMMA ShownIs ==
    ASSUME NEW n \in Nat, NEW v \in Values[n + 1]
    PROVE  /\ v.type \in {"array", "dictionary"} =>
                Shown[n + 1][v] = [v EXCEPT !.list = Mapped(v.list, Shown[n], Len(v.list))]
           /\ v.type \notin {"array", "dictionary"} =>
                Shown[n + 1][v] = [type |-> v.type,
                                   u |-> IF v.type \in {"bool", "fd"} THEN <<v.u[1]>> ELSE v.u,
                                   list |-> <<>>]
  <1>1. Shown[n + 1][v] = visible_with(v, Shown[n])
    BY ShownAt
  <1>2. OnValues(v.list, Shown[n]) = Mapped(v.list, Shown[n], Len(v.list))
    BY ValueFacts, OnValuesIs
  <1>3. CASE v.type \in {"array", "dictionary"}
    <2>1. v = [type |-> v.type, u |-> v.u, list |-> v.list]
      BY <1>3, ValueFacts DEF Arr, Dict
    <2>2. [v EXCEPT !.list = Mapped(v.list, Shown[n], Len(v.list))]
             = [type |-> v.type, u |-> v.u, list |-> Mapped(v.list, Shown[n], Len(v.list))]
      BY <2>1
    <2> QED
      BY <1>1, <1>2, <1>3, <2>2 DEF visible_with
  <1>4. CASE v.type \notin {"array", "dictionary"}
    <2>1. v.list = <<>>
      BY <1>4, ValueFacts, PrimFacts
    <2> QED
      BY <1>1, <1>4, <2>1, MappedNone DEF visible_with
  <1> QED
    BY <1>3, <1>4

LEMMA DegradeIs ==
    ASSUME NEW n \in Nat, NEW v \in Values[n + 1]
    PROVE  /\ v.type = "array" =>
                Degrade[n + 1][v] = Arr(Mapped(v.list, Degrade[n], Len(v.list)))
           /\ v.type = "dictionary" =>
                Degrade[n + 1][v] = Dict(Mapped(v.list, Degrade[n], Len(v.list)))
           /\ v.type = "date" => Degrade[n + 1][v] = xpc_int64_create(v.u)
           /\ v.type \in {"null", "double"} => Degrade[n + 1][v] = xpc_bool_create(0)
           /\ v.type \notin {"array", "dictionary", "date", "null", "double"} =>
                Degrade[n + 1][v] = v
  <1>1. Degrade[n + 1][v] = degraded_with(v, Degrade[n])
    BY DegradeAt
  <1>2. OnValues(v.list, Degrade[n]) = Mapped(v.list, Degrade[n], Len(v.list))
    BY ValueFacts, OnValuesIs
  <1>3. ASSUME v.type = "array"
        PROVE  Degrade[n + 1][v] = Arr(Mapped(v.list, Degrade[n], Len(v.list)))
    <2>1. v = Arr(v.list)
      BY <1>3, ValueFacts
    <2>2. \A l : [v EXCEPT !.list = l] = Arr(l)
      BY <2>1 DEF Arr
    <2> QED
      BY <1>1, <1>2, <1>3, <2>2 DEF degraded_with
  <1>4. ASSUME v.type = "dictionary"
        PROVE  Degrade[n + 1][v] = Dict(Mapped(v.list, Degrade[n], Len(v.list)))
    <2>1. v = Dict(v.list)
      BY <1>4, ValueFacts
    <2>2. \A l : [v EXCEPT !.list = l] = Dict(l)
      BY <2>1 DEF Dict
    <2> QED
      BY <1>1, <1>2, <1>4, <2>2 DEF degraded_with
  <1>5. /\ v.type = "date" => Degrade[n + 1][v] = xpc_int64_create(v.u)
        /\ v.type \in {"null", "double"} => Degrade[n + 1][v] = xpc_bool_create(0)
    BY <1>1 DEF degraded_with
  <1>6. ASSUME v.type \notin {"array", "dictionary", "date", "null", "double"}
        PROVE  Degrade[n + 1][v] = v
    <2>1. v.list = <<>> /\ v = _xpc_prim_create(v.type, v.u)
      BY <1>6, ValueFacts, PrimFacts
    <2>2. [v EXCEPT !.list = <<>>] = v
      BY <2>1 DEF _xpc_prim_create
    <2> QED
      BY <1>1, <1>6, <2>1, <2>2, MappedNone DEF degraded_with
  <1> QED
    BY <1>3, <1>4, <1>5, <1>6

LEMMA DegradeType == \A n \in Nat : \A v \in Values[n] : Degrade[n][v] \in Values[n]
  <1> DEFINE T == {n \in Nat : \A v \in Values[n] : Degrade[n][v] \in Values[n]}
  <1>1. 0 \in T
    BY ValuesAt
  <1>2. ASSUME NEW n \in Nat, \A c \in Values[n] : Degrade[n][c] \in Values[n],
               NEW v \in Values[n + 1]
        PROVE  Degrade[n + 1][v] \in Values[n + 1]
    <2> DEFINE list == Mapped(v.list, Degrade[n], Len(v.list))
    <2>1. Len(v.list) \in Nat /\ \A i \in 1 .. Len(v.list) : v.list[i].val \in Values[n]
      BY ValueFacts DEF ListIn
    <2>2. ListIn(list, Values[n])
      BY <1>2, <2>1, MappedFacts
    <2>3. /\ Len(list) = Len(v.list)
          /\ \A i \in 1 .. Len(v.list) : list[i].key = v.list[i].key
      BY <2>1, MappedFacts
    <2> HIDE DEF list
    <2>4. CASE v.type = "array"
      <3>1. Unnamed(list)
        BY <2>3, <2>4, ValueFacts DEF Unnamed
      <3>2. Degrade[n + 1][v] = Arr(list)
        BY <2>4, DegradeIs DEF list
      <3> QED
        BY <2>2, <3>1, <3>2, IsBox, IsValue
    <2>5. CASE v.type = "dictionary"
      <3>1. Named(v.list)
        BY <2>5, ValueFacts
      <3>2. Named(list)
        BY <2>3, <3>1 DEF Named
      <3>3. Degrade[n + 1][v] = Dict(list)
        BY <2>5, DegradeIs DEF list
      <3> QED
        BY <2>2, <3>2, <3>3, IsBox, IsValue
    <2>6. CASE v.type = "date"
      <3>1. v.u \in Half \X Half
        BY <2>6, ValueFacts, PrimFacts
      <3>2. xpc_int64_create(v.u) \in Prims
        BY <3>1, IsPrim DEF xpc_int64_create
      <3>3. Degrade[n + 1][v] = xpc_int64_create(v.u)
        BY <2>6, DegradeIs
      <3> QED
        BY <3>2, <3>3, IsValue
    <2>7. CASE v.type \in {"null", "double"}
      <3>1. <<0, Junk>> \in (0 .. 1) \X Half
        BY WordAssumption
      <3>2. xpc_bool_create(0) \in Prims
        BY <3>1, IsPrim DEF xpc_bool_create
      <3>3. Degrade[n + 1][v] = xpc_bool_create(0)
        BY <2>7, DegradeIs
      <3> QED
        BY <3>2, <3>3, IsValue
    <2>8. CASE v.type \notin {"array", "dictionary", "date", "null", "double"}
      BY <2>8, DegradeIs
    <2> QED
      BY <2>4, <2>5, <2>6, <2>7, <2>8
  <1>3. T \in SUBSET Nat
    OBVIOUS
  <1>4. ASSUME NEW n \in T PROVE n + 1 \in T
    <2>1. n \in Nat /\ \A c \in Values[n] : Degrade[n][c] \in Values[n]
      OBVIOUS
    <2> QED
      BY <1>2, <2>1
  <1>5. T = Nat
    <2> HIDE DEF T
    <2> QED
      BY <1>1, <1>3, <1>4, Nats!AllNat
  <1> QED
    BY <1>5

\* What arrives looks as the degraded value does.
LEMMA ReceivedLooks ==
    \A n \in Nat : \A v \in Values[n] :
       ~Holds(n, v, {"data"}) => Shown[n][Recv[n][v]] = Shown[n][Degrade[n][v]]
  <1> DEFINE Same(n, v) == Shown[n][Recv[n][v]] = Shown[n][Degrade[n][v]]
             T == {n \in Nat : \A v \in Values[n] : ~Holds(n, v, {"data"}) => Same(n, v)}
  <1>1. 0 \in T
    BY ValuesAt
  <1>2. ASSUME NEW n \in Nat,
               \A c \in Values[n] : ~Holds(n, c, {"data"}) => Same(n, c),
               NEW v \in Values[n + 1], ~Holds(n + 1, v, {"data"})
        PROVE  Same(n + 1, v)
    <2>1. /\ Recv[n + 1][v] = Arrived(n, v)
          /\ Recv[n + 1][v] \in Values[n + 1]
          /\ Degrade[n + 1][v] \in Values[n + 1]
      BY <1>2, ReceivedIs, DegradeType
    <2>2. v.type \in Types /\ v.type # "data"
      BY <1>2, ValueFacts, HoldsAt
    <2>3. CASE v.type \in {"date", "null", "double", "int64", "uint64", "string"}
      <3>1. Degrade[n + 1][v] = Arrived(n, v)
        BY <2>3, DegradeIs DEF Arrived
      <3> QED
        BY <2>1, <3>1
    <2>4. CASE v.type \in {"bool", "fd"}
      <3> DEFINE r == _xpc_prim_create(v.type, <<v.u[1], Junk>>)
      <3>1. Recv[n + 1][v] = r
        BY <2>1, <2>4 DEF Arrived, xpc_bool_create, xpc_fd_create
      <3>2. Degrade[n + 1][v] = v
        BY <2>4, DegradeIs
      <3>3. r.type = v.type /\ r.u = <<v.u[1], Junk>>
        BY DEF _xpc_prim_create
      <3>4. r.u[1] = v.u[1]
        BY <3>3
      <3> HIDE DEF r
      <3>5. r \in Values[n + 1]
        BY <2>1, <3>1
      <3>6. Shown[n + 1][r] = [type |-> v.type, u |-> <<v.u[1]>>, list |-> <<>>]
        BY <2>4, <3>3, <3>4, <3>5, ShownIs
      <3>7. Shown[n + 1][v] = [type |-> v.type, u |-> <<v.u[1]>>, list |-> <<>>]
        BY <2>4, ShownIs
      <3> QED
        BY <3>1, <3>2, <3>6, <3>7
    <2>5. CASE v.type \in {"array", "dictionary"}
      <3> DEFINE m == Len(v.list)
                 R == Mapped(v.list, Recv[n], m)
                 D == Mapped(v.list, Degrade[n], m)
      <3>1. m \in Nat /\ \A i \in 1 .. m : v.list[i].val \in Values[n]
        BY ValueFacts DEF ListIn
      <3>2. \A i \in 1 .. m : ~Holds(n, v.list[i].val, {"data"})
        BY <1>2, HoldsAt
      <3>3. \A i \in 1 .. m : Shown[n][Recv[n][v.list[i].val]] = Shown[n][Degrade[n][v.list[i].val]]
        BY <1>2, <3>1, <3>2
      <3> HIDE DEF m
      <3>4. Len(R) = m /\ Len(D) = m
        BY <3>1, MappedFacts
      <3>5. Mapped(R, Shown[n], m) = Mapped(D, Shown[n], m)
        BY <3>1, <3>3, MappedTwice
      <3> HIDE DEF R, D
      <3>6. CASE v.type = "array"
        <4>1. Recv[n + 1][v] = Arr(R) /\ Degrade[n + 1][v] = Arr(D)
          BY <2>1, <3>6, DegradeIs DEF Arrived, R, D, m
        <4>2. ASSUME NEW l, Arr(l) \in Values[n + 1], Len(l) = m
              PROVE  Shown[n + 1][Arr(l)] = Arr(Mapped(l, Shown[n], m))
          <5>1. PICK w \in Values[n + 1] : w = Arr(l)
            BY <4>2
          <5>2. w.type = "array" /\ w.list = l /\ \A k : [w EXCEPT !.list = k] = Arr(k)
            BY <5>1 DEF Arr
          <5>3. Shown[n + 1][w] = [w EXCEPT !.list = Mapped(w.list, Shown[n], Len(w.list))]
            BY <5>2, ShownIs
          <5>4. Shown[n + 1][w] = Arr(Mapped(l, Shown[n], m))
            BY <4>2, <5>2, <5>3
          <5> QED
            BY <5>1, <5>4
        <4> QED
          BY <2>1, <3>4, <3>5, <4>1, <4>2
      <3>7. CASE v.type = "dictionary"
        <4>1. Recv[n + 1][v] = Dict(R) /\ Degrade[n + 1][v] = Dict(D)
          BY <2>1, <3>7, DegradeIs DEF Arrived, R, D, m
        <4>2. ASSUME NEW l, Dict(l) \in Values[n + 1], Len(l) = m
              PROVE  Shown[n + 1][Dict(l)] = Dict(Mapped(l, Shown[n], m))
          <5>1. PICK w \in Values[n + 1] : w = Dict(l)
            BY <4>2
          <5>2. w.type = "dictionary" /\ w.list = l /\ \A k : [w EXCEPT !.list = k] = Dict(k)
            BY <5>1 DEF Dict
          <5>3. Shown[n + 1][w] = [w EXCEPT !.list = Mapped(w.list, Shown[n], Len(w.list))]
            BY <5>2, ShownIs
          <5>4. Shown[n + 1][w] = Dict(Mapped(l, Shown[n], m))
            BY <4>2, <5>2, <5>3
          <5> QED
            BY <5>1, <5>4
        <4> QED
          BY <2>1, <3>4, <3>5, <4>1, <4>2
      <3> QED
        BY <2>5, <3>6, <3>7
    <2> QED
      BY <2>2, <2>3, <2>4, <2>5 DEF Types
  <1>3. T \in SUBSET Nat
    OBVIOUS
  <1>4. ASSUME NEW n \in T PROVE n + 1 \in T
    <2>1. n \in Nat /\ \A c \in Values[n] : ~Holds(n, c, {"data"}) => Same(n, c)
      OBVIOUS
    <2> HIDE DEF Same
    <2> QED
      BY <1>2, <2>1
  <1>5. T = Nat
    <2> HIDE DEF T
    <2> QED
      BY <1>1, <1>3, <1>4, Nats!AllNat
  <1> QED
    BY <1>5

\* The properties in terms of the functions.
LEMMA AtMaxDepth ==
    /\ \A v : xpc_copy(v) = Copy[MaxDepth][v]
    /\ \A v : xpc_hash(v) = Hash[MaxDepth][v]
    /\ \A v : append_xpc(v) = Appended[MaxDepth][v]
    /\ \A w : Wellformed(w) = Sound[MaxDepth][w]
    /\ \A w : deserialise_object(w) = Parsed[MaxDepth][w]
    /\ \A v : Parts(v) = PartsOf[MaxDepth][v]
    /\ \A v : Visible(v) = Shown[MaxDepth][v]
    /\ \A v : Degraded(v) = Degrade[MaxDepth][v]
    /\ \A v : Emptied(v) = Empty[MaxDepth][v]
    /\ \A v \in Values[MaxDepth] : Received(v) = Recv[MaxDepth][v]
  <1>1. /\ \A v : xpc_copy(v) = Copy[MaxDepth][v]
        /\ \A v : xpc_hash(v) = Hash[MaxDepth][v]
        /\ \A v : append_xpc(v) = Appended[MaxDepth][v]
    BY DEF xpc_copy, Copy, xpc_hash, Hash, append_xpc, Appended
  <1>2. /\ \A w : Wellformed(w) = Sound[MaxDepth][w]
        /\ \A w : deserialise_object(w) = Parsed[MaxDepth][w]
    BY DEF Wellformed, Sound, deserialise_object, Parsed
  <1>3. /\ \A v : Parts(v) = PartsOf[MaxDepth][v]
        /\ \A v : Visible(v) = Shown[MaxDepth][v]
        /\ \A v : Degraded(v) = Degrade[MaxDepth][v]
        /\ \A v : Emptied(v) = Empty[MaxDepth][v]
    BY DEF Parts, PartsOf, Visible, Shown, Degraded, Degrade, Emptied, Empty
  <1>4. \A v \in Values[MaxDepth] : Received(v) = Recv[MaxDepth][v]
    BY <1>1, <1>2, DepthAssumption DEF Received, Recv
  <1> QED
    BY <1>1, <1>2, <1>3, <1>4

\* A message whose type tables agree (SignaturesAgree) arrives as it was sent, in the
\* same order and under the same keys, but for two losses: a date arrives as an int64,
\* a null or a double as false (append_xpc, deserialise_object).
THEOREM RoundTripCorrect == Spec => []RoundTrip
  <1>1. TypeOK => RoundTrip
    <2> SUFFICES ASSUME x \in Values[MaxDepth] PROVE RoundTrip
      BY DEF TypeOK
    <2>1. MaxDepth \in Nat
      BY DepthAssumption
    <2>2. Has({"data"}) <=> Holds(MaxDepth, x, {"data"})
      BY AtMaxDepth DEF Has, Holds
    <2>3. SignaturesAgree
      <3>1. Sound[MaxDepth][Appended[MaxDepth][x]] <=> ~Holds(MaxDepth, x, {"data"})
        BY <2>1, Sent
      <3>2. Wellformed(append_xpc(x)) = Sound[MaxDepth][Appended[MaxDepth][x]]
        BY AtMaxDepth
      <3> QED
        BY <2>2, <3>1, <3>2, Zenon DEF SignaturesAgree
    <2>4. ~Has({"data"}) => Visible(Received(x)) = Visible(Degraded(x))
      <3>1. ~Has({"data"}) =>
               Shown[MaxDepth][Recv[MaxDepth][x]] = Shown[MaxDepth][Degrade[MaxDepth][x]]
        BY <2>1, <2>2, ReceivedLooks
      <3> QED
        BY <3>1, AtMaxDepth
    <2> QED
      BY <2>3, <2>4 DEF RoundTrip
  <1> QED
    BY <1>1, TypeCorrect, PTL

-----------------------------------------------------------------------------
(* Hashes *)

LEMMA HashIs ==
    ASSUME NEW n \in Nat, NEW v \in Values[n + 1]
    PROVE  /\ v.type \in {"int64", "date"} => Hash[n + 1][v] = Bits(Word(v.u))
           /\ v.type = "fd" => Hash[n + 1][v] = {}
  <1>1. Hash[n + 1][v] = hash_with(v, Hash[n])
    BY HashAt
  <1> QED
    BY <1>1 DEF hash_with

\* What an element of a dictionary adds to its hash.
PairHash(k, h) == Xor(xpc_data_hash(k), h)

LEMMA ArrayHashIs ==
    ASSUME NEW n \in Nat, NEW v \in Values[n + 1], v.type = "array", NEW m, m = Len(v.list),
           NEW E, \A i \in 1 .. m : E[i] = Hash[n][v.list[i].val]
    PROVE  Hash[n + 1][v] = OddBits(E, m)
  <1>1. Hash[n + 1][v] = hash_with(v, Hash[n])
    BY HashAt
  <1>2. Len(v.list) \in Nat
    BY ValueFacts DEF ListIn
  <1>3. hash_with(v, Hash[n]) = XorAll(v.list, Hash[n])
    BY DEF hash_with, XorAll
  <1>4. XorAll(v.list, Hash[n]) = OddBits(E, Len(v.list))
    BY <1>2, XorAllIs
  <1> QED
    BY <1>1, <1>3, <1>4

LEMMA DictionaryHashIs ==
    ASSUME NEW n \in Nat, NEW v \in Values[n + 1], v.type = "dictionary",
           NEW m, m = Len(v.list),
           NEW E, \A i \in 1 .. m : E[i] = PairHash(v.list[i].key, Hash[n][v.list[i].val])
    PROVE  Hash[n + 1][v] = OddBits(E, m)
  <1>1. Hash[n + 1][v] = hash_with(v, Hash[n])
    BY HashAt
  <1>2. Len(v.list) \in Nat
    BY ValueFacts DEF ListIn
  <1>3. hash_with(v, Hash[n]) = XorAllKeyed(v.list, Hash[n])
    BY DEF hash_with, XorAllKeyed
  <1>4. \A i \in 1 .. Len(v.list) :
           E[i] = Xor(xpc_data_hash(v.list[i].key), Hash[n][v.list[i].val])
    BY DEF PairHash
  <1>5. XorAllKeyed(v.list, Hash[n]) = OddBits(E, Len(v.list))
    BY <1>2, <1>4, XorAllKeyedIs
  <1> QED
    BY <1>1, <1>3, <1>5

Unsteady == {"bool", "null", "double", "data"}

LEMMA ReceivedHash ==
    \A n \in Nat : \A v \in Values[n] :
       ~Holds(n, v, Unsteady) => ~Holds(n, v, {"data"}) /\ Hash[n][Recv[n][v]] = Hash[n][v]
  <1> DEFINE Same(n, v) == ~Holds(n, v, {"data"}) /\ Hash[n][Recv[n][v]] = Hash[n][v]
             T == {n \in Nat : \A v \in Values[n] : ~Holds(n, v, Unsteady) => Same(n, v)}
  <1>1. 0 \in T
    BY ValuesAt
  <1>2. ASSUME NEW n \in Nat,
               \A c \in Values[n] : ~Holds(n, c, Unsteady) => Same(n, c),
               NEW v \in Values[n + 1], ~Holds(n + 1, v, Unsteady)
        PROVE  Same(n + 1, v)
    <2> DEFINE m == Len(v.list)
    <2>1. v.type \in Types \ Unsteady
      BY <1>2, ValueFacts, HoldsAt
    <2>2. m \in Nat /\ \A i \in 1 .. m : v.list[i].val \in Values[n]
      BY ValueFacts DEF ListIn
    <2>3. \A i \in 1 .. m : ~Holds(n, v.list[i].val, Unsteady)
      BY <1>2, HoldsAt
    <2>4. \A i \in 1 .. m : /\ ~Holds(n, v.list[i].val, {"data"})
                            /\ Hash[n][Recv[n][v.list[i].val]] = Hash[n][v.list[i].val]
      BY <1>2, <2>2, <2>3
    <2>5. ~Holds(n + 1, v, {"data"})
      BY <2>1, <2>4, HoldsAt DEF Unsteady
    <2>6. Recv[n + 1][v] = Arrived(n, v) /\ Recv[n + 1][v] \in Values[n + 1]
      BY <2>5, ReceivedIs
    <2> HIDE DEF m
    <2>7. CASE v.type \in {"int64", "uint64", "string"}
      <3>1. Arrived(n, v) = v
        BY <2>7 DEF Arrived
      <3> QED
        BY <2>5, <2>6, <3>1
    <2>8. CASE v.type = "date"
      <3>1. PICK w \in Values[n + 1] : w = Recv[n + 1][v]
        BY <2>6
      <3>2. w.type = "int64" /\ w.u = v.u
        BY <2>6, <2>8, <3>1 DEF Arrived, xpc_int64_create, _xpc_prim_create
      <3>3. Hash[n + 1][w] = Bits(Word(v.u)) /\ Hash[n + 1][v] = Bits(Word(v.u))
        BY <2>8, <3>2, HashIs
      <3> QED
        BY <2>5, <3>1, <3>3
    <2>9. CASE v.type = "fd"
      <3>1. PICK w \in Values[n + 1] : w = Recv[n + 1][v]
        BY <2>6
      <3>2. w.type = "fd"
        BY <2>6, <2>9, <3>1 DEF Arrived, xpc_fd_create, _xpc_prim_create
      <3>3. Hash[n + 1][w] = {} /\ Hash[n + 1][v] = {}
        BY <2>9, <3>2, HashIs
      <3> QED
        BY <2>5, <3>1, <3>3
    <2>10. CASE v.type \in {"array", "dictionary"}
      <3> DEFINE R == Mapped(v.list, Recv[n], m)
      <3>1. PICK w \in Values[n + 1] : w = Recv[n + 1][v]
        BY <2>6
      <3>2. w.type = v.type /\ w.list = R
        BY <2>6, <2>10, <3>1 DEF Arrived, Arr, Dict, m
      <3>3. /\ Len(R) = m
            /\ \A i \in 1 .. m : /\ R[i].key = v.list[i].key
                                 /\ R[i].val = Recv[n][v.list[i].val]
        BY <2>2, MappedFacts
      <3> HIDE DEF R
      <3>4. CASE v.type = "array"
        <4>1. PICK E : E = [i \in 1 .. m |-> Hash[n][v.list[i].val]]
          OBVIOUS
        <4>2. \A i \in 1 .. m : E[i] = Hash[n][v.list[i].val] /\ E[i] = Hash[n][R[i].val]
          BY <2>4, <3>3, <4>1
        <4>3. Hash[n + 1][v] = OddBits(E, m)
          BY <3>4, <4>2, ArrayHashIs DEF m
        <4>4. Hash[n + 1][w] = OddBits(E, m)
          BY <3>2, <3>3, <3>4, <4>2, ArrayHashIs
        <4> QED
          BY <2>5, <3>1, <4>3, <4>4
      <3>5. CASE v.type = "dictionary"
        <4>1. PICK E : E = [i \in 1 .. m |-> PairHash(v.list[i].key, Hash[n][v.list[i].val])]
          OBVIOUS
        <4>2. \A i \in 1 .. m :
                 /\ E[i] = PairHash(v.list[i].key, Hash[n][v.list[i].val])
                 /\ E[i] = PairHash(R[i].key, Hash[n][R[i].val])
          BY <2>4, <3>3, <4>1
        <4>3. Hash[n + 1][v] = OddBits(E, m)
          <5>1. m = Len(v.list)
            BY DEF m
          <5> QED
            BY <3>5, <4>2, <5>1, DictionaryHashIs
        <4>4. Hash[n + 1][w] = OddBits(E, m)
          <5>1. /\ w \in Values[n + 1] /\ w.type = "dictionary" /\ m = Len(w.list)
                /\ \A i \in 1 .. m : E[i] = PairHash(w.list[i].key, Hash[n][w.list[i].val])
            BY <3>2, <3>3, <3>5, <4>2
          <5> QED
            BY <5>1, DictionaryHashIs
        <4> QED
          BY <2>5, <3>1, <4>3, <4>4
      <3> QED
        BY <2>10, <3>4, <3>5
    <2> QED
      BY <2>1, <2>7, <2>8, <2>9, <2>10 DEF Types, Unsteady
  <1>3. T \in SUBSET Nat
    OBVIOUS
  <1>4. ASSUME NEW n \in T PROVE n + 1 \in T
    <2>1. n \in Nat /\ \A c \in Values[n] : ~Holds(n, c, Unsteady) => Same(n, c)
      OBVIOUS
    <2> HIDE DEF Same
    <2> QED
      BY <1>2, <2>1
  <1>5. T = Nat
    <2> HIDE DEF T
    <2> QED
      BY <1>1, <1>3, <1>4, Nats!AllNat
  <1> QED
    BY <1>5

\* xpc_hash of a message is the same at both ends, provided nothing in it is a
\* bool, whose hash takes in what the stack held, or turns into one on the way.
THEOREM HashTravelsCorrect == Spec => []HashTravels
  <1>1. TypeOK => HashTravels
    <2> SUFFICES ASSUME x \in Values[MaxDepth], ~Has({"bool", "null", "double", "data"})
                 PROVE  xpc_hash(Received(x)) = xpc_hash(x)
      BY DEF TypeOK, HashTravels
    <2>1. ~Holds(MaxDepth, x, Unsteady)
      BY AtMaxDepth DEF Has, Holds, Unsteady
    <2>2. Hash[MaxDepth][Recv[MaxDepth][x]] = Hash[MaxDepth][x]
      BY <2>1, DepthAssumption, ReceivedHash
    <2> QED
      BY <2>2, AtMaxDepth
  <1> QED
    BY <1>1, TypeCorrect, PTL

Permutes(p, m) ==
    /\ p \in [1 .. m -> 1 .. m]
    /\ \A i, j \in 1 .. m : p[i] = p[j] => i = j
    /\ \A j \in 1 .. m : \E i \in 1 .. m : p[i] = j

Distinct(list, m) == \A i, j \in 1 .. m : list[i] = list[j] => i = j

\* The number of elements that have a bit does not depend on their order.
LEMMA OddBitsPermuted ==
    ASSUME NEW m \in Nat, NEW E, NEW F, NEW p, Permutes(p, m),
           \A i \in 1 .. m : F[i] = E[p[i]]
    PROVE  OddBits(F, m) = OddBits(E, m)
  <1>1. /\ p \in [1 .. m -> 1 .. m]
        /\ \A i, j \in 1 .. m : p[i] = p[j] => i = j
        /\ \A j \in 1 .. m : \E i \in 1 .. m : p[i] = j
    BY DEF Permutes
  <1>2. ASSUME NEW b PROVE b \in OddBits(F, m) <=> b \in OddBits(E, m)
    <2> DEFINE I == {i \in 1 .. m : b \in F[i]}
               J == {j \in 1 .. m : b \in E[j]}
               q == [i \in I |-> p[i]]
    <2>1. IsFiniteSet(I)
      <3>1. IsFiniteSet(1 .. m)
        BY FS_Interval
      <3> QED
        BY <3>1, FS_Subset
    <2>2. q \in [I -> J]
      BY <1>1
    <2>3. \A i, j \in I : q[i] = q[j] => i = j
      BY <1>1
    <2>4. \A j \in J : \E i \in I : q[i] = j
      BY <1>1
    <2>5. ASSUME NEW G, NEW K, K = {i \in 1 .. m : b \in G[i]}
          PROVE  b \in OddBits(G, m) <=> K # {} /\ Cardinality(K) % 2 = 1
      <3>1. b \in UNION {G[i] : i \in 1 .. m} <=> K # {}
        BY <2>5
      <3> QED
        BY <2>5, <3>1 DEF OddBits
    <2>6. b \in OddBits(F, m) <=> I # {} /\ Cardinality(I) % 2 = 1
      BY <2>5
    <2>7. b \in OddBits(E, m) <=> J # {} /\ Cardinality(J) % 2 = 1
      BY <2>5
    <2> HIDE DEF I, J, q
    <2>8. q \in Bijection(I, J)
      <3>1. DOMAIN q = I
        BY <2>2
      <3>2. q \in Injection(I, J)
        BY <2>2, <2>3, <3>1 DEF Injection, IsInjective
      <3>3. q \in Surjection(I, J)
        BY <2>2, <2>4 DEF Surjection
      <3> QED
        BY <3>2, <3>3 DEF Bijection
    <2>9. Cardinality(J) = Cardinality(I)
      BY <2>1, <2>8, FS_Bijection DEF ExistsBijection
    <2>10. I # {} <=> J # {}
      BY <2>2, <2>4
    <2> QED
      BY <2>9, <2>10, <2>6, <2>7
  <1> QED
    BY <1>2

\* A sequence of the same elements without repetition is a permutation.
LEMMA SequenceOfAll ==
    ASSUME NEW m \in Nat, NEW list, DOMAIN list = 1 .. m,
           Distinct(list, m), NEW q \in SetToSeqs(ToSet(list))
    PROVE  /\ q \in [1 .. m -> ToSet(list)] /\ Len(q) = m
           /\ \E p : Permutes(p, m) /\ \A i \in 1 .. m : q[i] = list[p[i]]
  <1> DEFINE S == ToSet(list)
             l == [i \in 1 .. m |-> list[i]]
  <1>1. S = {list[i] : i \in 1 .. m}
    BY DEF ToSet
  <1>2. Cardinality(S) = m
    <2>1. l \in [1 .. m -> S]
      BY <1>1
    <2>2. \A i, j \in 1 .. m : l[i] = l[j] => i = j
      BY DEF Distinct
    <2>3. \A e \in S : \E i \in 1 .. m : l[i] = e
      BY <1>1
    <2>4. DOMAIN l = 1 .. m
      OBVIOUS
    <2> HIDE DEF l, S
    <2>5. l \in Bijection(1 .. m, S)
      BY <2>1, <2>2, <2>3, <2>4 DEF Bijection, Injection, IsInjective, Surjection
    <2> QED
      BY <2>5, FS_CountingElements DEF ExistsBijection
  <1>3. q \in [1 .. m -> S] /\ \A i, j \in 1 .. m : i # j => q[i] # q[j]
    BY <1>2 DEF SetToSeqs
  <1>4. Len(q) = m
    <2> HIDE DEF S
    <2> QED
      BY <1>3
  <1> DEFINE p == [i \in 1 .. m |-> CHOOSE j \in 1 .. m : list[j] = q[i]]
  <1>5. \A i \in 1 .. m : p[i] \in 1 .. m /\ q[i] = list[p[i]]
    <2> TAKE i \in 1 .. m
    <2>1. q[i] \in S
      BY <1>3
    <2>2. \E j \in 1 .. m : list[j] = q[i]
      BY <1>1, <2>1
    <2> QED
      BY <2>2
  <1>6. p \in [1 .. m -> 1 .. m]
    BY <1>5
  <1> HIDE DEF S, l, p
  <1>7. \A i, j \in 1 .. m : p[i] = p[j] => i = j
    BY <1>3, <1>5
  <1>8. \A j \in 1 .. m : \E i \in 1 .. m : p[i] = j
    <2>1. DOMAIN p = 1 .. m
      BY <1>6
    <2>2. p \in Injection(1 .. m, 1 .. m)
      BY <1>6, <1>7, <2>1 DEF Injection, IsInjective
    <2>3. IsFiniteSet(1 .. m)
      BY FS_Interval
    <2>4. p \in Surjection(1 .. m, 1 .. m)
      BY <2>2, <2>3, FS_Injection
    <2> QED
      BY <2>4 DEF Surjection
  <1>9. Permutes(p, m)
    BY <1>6, <1>7, <1>8 DEF Permutes
  <1> QED
    BY <1>3, <1>4, <1>5, <1>9 DEF S

\* xpc_hash of a dictionary does not depend on the order its keys were set in, as
\* xpc_dictionary_get_value does not.
THEOREM HashIgnoresOrderCorrect == Spec => []HashIgnoresOrder
  <1>1. TypeOK => HashIgnoresOrder
    <2> SUFFICES ASSUME x \in Values[MaxDepth],
                        NEW d \in Parts(x), d.type = "dictionary",
                        NEW q \in SetToSeqs(ToSet(d.list))
                 PROVE  xpc_hash([d EXCEPT !.list = q]) = xpc_hash(d)
      BY DEF TypeOK, HashIgnoresOrder
    <2>1. PICK n \in Nat : MaxDepth = n + 1
      <3>1. MaxDepth - 1 \in Nat /\ MaxDepth = (MaxDepth - 1) + 1
        BY DepthAssumption
      <3> QED
        BY <3>1
    <2>2. d \in Values[n + 1]
      BY <2>1, AtMaxDepth, PartsAreValues
    <2>3. d = Dict(d.list) /\ Named(d.list) /\ ListIn(d.list, Values[n])
      BY <2>2, ValueFacts
    <2>4. PICK list, m : list = d.list /\ m = Len(d.list)
      OBVIOUS
    <2>5. /\ m \in Nat /\ DOMAIN list = 1 .. m
          /\ Distinct(list, m)
          /\ q \in SetToSeqs(ToSet(list))
      BY <2>3, <2>4 DEF Named, ListIn, Distinct
    <2>6. /\ q \in [1 .. m -> ToSet(list)] /\ Len(q) = m
          /\ \E p : Permutes(p, m) /\ \A i \in 1 .. m : q[i] = list[p[i]]
      BY <2>5, SequenceOfAll
    <2>7. PICK p : Permutes(p, m) /\ \A i \in 1 .. m : q[i] = list[p[i]]
      BY <2>6
    <2>8. /\ \A i \in 1 .. m : p[i] \in 1 .. m
          /\ \A i, j \in 1 .. m : p[i] = p[j] => i = j
      BY <2>7 DEF Permutes
    <2>9. ListIn(q, Values[n]) /\ Named(q)
      <3>1. /\ \A i \in 1 .. m : /\ list[i] = [key |-> list[i].key, val |-> list[i].val]
                                 /\ list[i].val \in Values[n]
                                 /\ list[i].key \in Seq(Byte)
            /\ \A i, j \in 1 .. m : list[i].key = list[j].key => i = j
        BY <2>3, <2>4 DEF ListIn, Named
      <3>2. \A i \in 1 .. m : /\ q[i] = [key |-> q[i].key, val |-> q[i].val]
                              /\ q[i].val \in Values[n]
                              /\ q[i].key \in Seq(Byte)
        <4> TAKE i \in 1 .. m
        <4>1. PICK j \in 1 .. m : q[i] = list[j]
          BY <2>7, <2>8
        <4> QED
          BY <3>1, <4>1
      <3>3. \A i, j \in 1 .. m : q[i].key = q[j].key => i = j
        <4> SUFFICES ASSUME NEW i \in 1 .. m, NEW j \in 1 .. m, q[i].key = q[j].key
                     PROVE  i = j
          OBVIOUS
        <4>1. p[i] \in 1 .. m /\ p[j] \in 1 .. m /\ list[p[i]].key = list[p[j]].key
          BY <2>7, <2>8
        <4>2. p[i] = p[j]
          BY <3>1, <4>1
        <4> QED
          BY <2>8, <4>2
      <3>4. DOMAIN q = 1 .. m /\ q = [i \in 1 .. m |-> q[i]]
        BY <2>6
      <3> QED
        BY <2>5, <2>6, <3>2, <3>3, <3>4 DEF ListIn, Named
    <2>10. PICK e \in Values[n + 1] : e = Dict(q)
      BY <2>9, IsBox, IsValue
    <2>11. [d EXCEPT !.list = q] = e
      BY <2>3, <2>10 DEF Dict
    <2>12. e.type = "dictionary" /\ e.list = q
      BY <2>10 DEF Dict
    <2>13. PICK E : E = [i \in 1 .. m |-> PairHash(list[i].key, Hash[n][list[i].val])]
      OBVIOUS
    <2>14. PICK F : F = [i \in 1 .. m |-> PairHash(q[i].key, Hash[n][q[i].val])]
      OBVIOUS
    <2>15. Hash[n + 1][d] = OddBits(E, m)
      <3>1. /\ d \in Values[n + 1] /\ d.type = "dictionary" /\ m = Len(d.list)
            /\ \A i \in 1 .. m : E[i] = PairHash(d.list[i].key, Hash[n][d.list[i].val])
        BY <2>2, <2>4, <2>13
      <3> QED
        BY <3>1, DictionaryHashIs
    <2>16. Hash[n + 1][e] = OddBits(F, m)
      <3>1. /\ e \in Values[n + 1] /\ e.type = "dictionary" /\ m = Len(e.list)
            /\ \A i \in 1 .. m : F[i] = PairHash(e.list[i].key, Hash[n][e.list[i].val])
        BY <2>6, <2>12, <2>14
      <3> QED
        BY <3>1, DictionaryHashIs
    <2>17. \A i \in 1 .. m : F[i] = E[p[i]]
      BY <2>7, <2>8, <2>13, <2>14
    <2>18. OddBits(F, m) = OddBits(E, m)
      BY <2>5, <2>7, <2>17, OddBitsPermuted
    <2> QED
      BY <2>1, <2>11, <2>15, <2>16, <2>18, AtMaxDepth
  <1> QED
    BY <1>1, TypeCorrect, PTL


-----------------------------------------------------------------------------
(* Copies *)

\* A dictionary that keeps xpc_copy from returning.
Uncopied(p) ==
    p.type = "dictionary" /\ \E i \in DOMAIN p.list : p.list[i].val.type \in NoCopy

FatalIn(n, v) == \E p \in PartsOf[n][v] : Uncopied(p)

LEMMA FatalInIs ==
    ASSUME NEW n \in Nat, NEW v \in Values[n + 1]
    PROVE  FatalIn(n + 1, v)
              <=> Uncopied(v) \/ \E i \in 1 .. Len(v.list) : FatalIn(n, v.list[i].val)
  <1>1. PartsOf[n + 1][v] = {v} \cup UNION {PartsOf[n][v.list[i].val] : i \in DOMAIN v.list}
    BY PartsOfAt DEF parts_with
  <1>2. DOMAIN v.list = 1 .. Len(v.list)
    BY ValueFacts DEF ListIn
  <1> QED
    BY <1>1, <1>2 DEF FatalIn

LEMMA NoCopyFacts ==
    ASSUME NEW n \in Nat, NEW v \in Values[n], v.type \in NoCopy
    PROVE  ~FatalIn(n, v)
  <1>1. PICK k \in Nat : n = k + 1
    BY NotNull
  <1>2. v.type \notin {"array", "dictionary"}
    BY DEF NoCopy
  <1>3. Len(v.list) = 0
    BY <1>1, <1>2, ValueFacts, PrimFacts, EmptySeq
  <1>4. ~Uncopied(v)
    BY <1>2 DEF Uncopied
  <1>5. v \in Values[k + 1]
    BY <1>1
  <1>6. ~FatalIn(k + 1, v)
    <2>1. FatalIn(k + 1, v)
             <=> Uncopied(v) \/ \E i \in 1 .. Len(v.list) : FatalIn(k, v.list[i].val)
      BY <1>5, FatalInIs
    <2>2. \A i \in 1 .. Len(v.list) : FALSE
      BY <1>3
    <2> QED
      BY <1>4, <2>1, <2>2
  <1> QED
    BY <1>1, <1>6

LEMMA EmptyIs ==
    ASSUME NEW n \in Nat, NEW v \in Values[n + 1]
    PROVE  /\ v.type = "array" => Empty[n + 1][v] = Arr(<<>>)
           /\ v.type = "dictionary" =>
                Empty[n + 1][v] = Dict(Mapped(v.list, Empty[n], Len(v.list)))
           /\ v.type \notin {"array", "dictionary"} => Empty[n + 1][v] = v
           /\ Empty[n + 1][v].type = v.type
  <1>1. Empty[n + 1][v] = emptied_with(v, Empty[n])
    BY EmptyAt
  <1>2. OnValues(v.list, Empty[n]) = Mapped(v.list, Empty[n], Len(v.list))
    BY ValueFacts, OnValuesIs
  <1>3. CASE v.type = "array"
    <2>1. v = Arr(v.list)
      BY <1>3, ValueFacts
    <2>2. \A l : [v EXCEPT !.list = l] = Arr(l)
      BY <2>1 DEF Arr
    <2>3. Empty[n + 1][v] = Arr(<<>>)
      BY <1>1, <1>3, <2>2 DEF emptied_with
    <2>4. Arr(<<>>).type = "array"
      BY DEF Arr
    <2> QED
      BY <1>3, <2>3, <2>4
  <1>4. CASE v.type = "dictionary"
    <2>1. v = Dict(v.list)
      BY <1>4, ValueFacts
    <2>2. \A l : [v EXCEPT !.list = l] = Dict(l)
      BY <2>1 DEF Dict
    <2>3. Empty[n + 1][v] = Dict(Mapped(v.list, Empty[n], Len(v.list)))
      BY <1>1, <1>2, <1>4, <2>2 DEF emptied_with
    <2>4. \A l : Dict(l).type = "dictionary"
      BY DEF Dict
    <2> QED
      BY <1>4, <2>3, <2>4
  <1>5. CASE v.type \notin {"array", "dictionary"}
    <2>1. v.list = <<>> /\ v = _xpc_prim_create(v.type, v.u)
      BY <1>5, ValueFacts, PrimFacts
    <2>2. [v EXCEPT !.list = <<>>] = v
      BY <2>1 DEF _xpc_prim_create
    <2>3. Empty[n + 1][v] = v
      BY <1>1, <1>5, <2>1, <2>2, MappedNone DEF emptied_with
    <2> QED
      BY <1>5, <2>3
  <1> QED
    BY <1>3, <1>4, <1>5

LEMMA CopyIs ==
    ASSUME NEW n \in Nat, NEW v \in Values[n + 1]
    PROVE  /\ v.type \in NoCopy => Copy[n + 1][v] = NULL
           /\ v.type = "array" => Copy[n + 1][v] = LoseAll(v.list, Copy[n])
           /\ v.type = "dictionary" => Copy[n + 1][v] = SetAll(v.list, Copy[n])
           /\ v.type \notin NoCopy \cup {"array", "dictionary"} => Copy[n + 1][v] = v
  <1>1. Copy[n + 1][v] = copy_with(v, Copy[n])
    BY CopyAt
  <1>2. v.type \in NoCopy => Copy[n + 1][v] = NULL
    BY <1>1 DEF copy_with, NoCopy, Copyable
  <1>3. v.type = "array" => Copy[n + 1][v] = LoseAll(v.list, Copy[n])
    BY <1>1 DEF copy_with, Copyable, LoseAll
  <1>4. v.type = "dictionary" => Copy[n + 1][v] = SetAll(v.list, Copy[n])
    BY <1>1 DEF copy_with, Copyable, SetAll, dict_copy_cb
  <1>5. ASSUME v.type \notin NoCopy \cup {"array", "dictionary"} PROVE Copy[n + 1][v] = v
    <2>1. v = _xpc_prim_create(v.type, v.u)
      BY <1>5, ValueFacts, PrimFacts
    <2>2. v.type \in Copyable
      BY <1>5, ValueFacts DEF Types, NoCopy, Copyable
    <2>3. copy_with(v, Copy[n]) = _xpc_prim_create(v.type, v.u)
      BY <1>5, <2>2 DEF copy_with, Copyable
    <2> QED
      BY <1>1, <2>1, <2>3
  <1> QED
    BY <1>2, <1>3, <1>4, <1>5

\* What xpc_copy makes of v.
CopyOf(n, v) ==
    IF v.type \in NoCopy THEN NULL ELSE IF FatalIn(n, v) THEN Crash ELSE Empty[n][v]

LEMMA CopyCorrect == \A n \in Nat : \A v \in Values[n] : Copy[n][v] = CopyOf(n, v)
  <1> DEFINE T == {n \in Nat : \A v \in Values[n] : Copy[n][v] = CopyOf(n, v)}
  <1>1. 0 \in T
    BY ValuesAt
  <1>2. ASSUME NEW n \in Nat, \A c \in Values[n] : Copy[n][c] = CopyOf(n, c),
               NEW v \in Values[n + 1]
        PROVE  Copy[n + 1][v] = CopyOf(n + 1, v)
    <2>1. PICK list, m : list = v.list /\ m = Len(v.list)
      OBVIOUS
    <2>2. /\ m \in Nat
          /\ DOMAIN list = 1 .. m
          /\ \A i \in 1 .. m : list[i].val \in Values[n]
      BY <2>1, ValueFacts DEF ListIn
    <2>3. FatalIn(n + 1, v) <=> Uncopied(v) \/ \E i \in 1 .. m : FatalIn(n, list[i].val)
      BY <2>1, FatalInIs
    <2>4. ASSUME NEW i \in 1 .. m
          PROVE  /\ Copy[n][list[i].val] = NULL <=> list[i].val.type \in NoCopy
                 /\ Copy[n][list[i].val] = Crash <=> FatalIn(n, list[i].val)
                 /\ Copy[n][list[i].val] \notin {NULL, Crash} =>
                       Copy[n][list[i].val] = Empty[n][list[i].val]
      <3>1. PICK c \in Values[n] : c = list[i].val
        BY <2>2
      <3>2. PICK k \in Nat : n = k + 1
        BY NotNull
      <3>3. Empty[n][c].type = c.type /\ c.type \in Types
        BY <3>2, EmptyIs, ValueFacts
      <3>4. Empty[n][c] \notin {NULL, Crash} /\ NULL # Crash
        BY <3>3 DEF NULL, Crash, Types
      <3>5. c.type \in NoCopy => ~FatalIn(n, c)
        BY NoCopyFacts
      <3>6. Copy[n][c] = CopyOf(n, c)
        BY <1>2
      <3> QED
        BY <3>1, <3>4, <3>5, <3>6 DEF CopyOf
    <2>5. CASE v.type \in NoCopy
      BY <2>5, CopyIs DEF CopyOf
    <2>6. CASE v.type = "array"
      <3>1. Copy[n + 1][v] = Lost(list, Copy[n], m)
        BY <2>1, <2>2, <2>6, CopyIs, LoseAllIs
      <3>2. ~Uncopied(v) /\ v.type \notin NoCopy
        BY <2>6 DEF Uncopied, NoCopy
      <3>3. FatalIn(n + 1, v) <=> \E i \in 1 .. m : Copy[n][list[i].val] = Crash
        BY <2>3, <2>4, <3>2
      <3>4. Empty[n + 1][v] = Arr(<<>>)
        BY <2>6, EmptyIs
      <3> QED
        BY <3>1, <3>2, <3>3, <3>4 DEF CopyOf, Lost
    <2>7. CASE v.type = "dictionary"
      <3>1. \A i, j \in 1 .. m : list[i].key = list[j].key => i = j
        BY <2>1, <2>7, ValueFacts DEF Named
      <3>2. Copy[n + 1][v] = SetSome(list, Copy[n], m)
        <4>1. Len(list) = m /\ Copy[n + 1][v] = SetAll(list, Copy[n])
          BY <2>1, <2>7, CopyIs
        <4>2. /\ Len(list) \in Nat
              /\ \A i, j \in 1 .. Len(list) : list[i].key = list[j].key => i = j
          BY <2>2, <3>1, <4>1
        <4> QED
          BY <4>1, <4>2, SetAllIs
      <3>3. v.type \notin NoCopy
        BY <2>7 DEF NoCopy
      <3>4. Uncopied(v) <=> \E i \in 1 .. m : list[i].val.type \in NoCopy
        BY <2>1, <2>2, <2>7 DEF Uncopied
      <3>5. FatalIn(n + 1, v) <=> Fatal(list, Copy[n], m)
        BY <2>3, <2>4, <3>4 DEF Fatal
      <3>6. Empty[n + 1][v] = Dict(Mapped(list, Empty[n], m))
        BY <2>1, <2>7, EmptyIs
      <3>7. ASSUME ~Fatal(list, Copy[n], m)
            PROVE  Mapped(list, Copy[n], m) = Mapped(list, Empty[n], m)
        <4>1. \A i \in 1 .. m : Copy[n][list[i].val] = Empty[n][list[i].val]
          BY <2>4, <3>7 DEF Fatal
        <4> QED
          BY <4>1 DEF Mapped
      <3> QED
        BY <3>2, <3>3, <3>5, <3>6, <3>7 DEF CopyOf, SetSome
    <2>8. CASE v.type \notin NoCopy \cup {"array", "dictionary"}
      <3>1. Len(v.list) = 0
        BY <2>8, ValueFacts, PrimFacts, EmptySeq
      <3>2. ~Uncopied(v)
        BY <2>8 DEF Uncopied
      <3>3. ~FatalIn(n + 1, v)
        <4>1. FatalIn(n + 1, v)
                 <=> Uncopied(v) \/ \E i \in 1 .. Len(v.list) : FatalIn(n, v.list[i].val)
          BY FatalInIs
        <4>2. \A i \in 1 .. Len(v.list) : FALSE
          BY <3>1
        <4> QED
          BY <3>2, <4>1, <4>2
      <3>4. Copy[n + 1][v] = v /\ Empty[n + 1][v] = v /\ v.type \notin NoCopy
        BY <2>8, CopyIs, EmptyIs
      <3> QED
        BY <3>3, <3>4 DEF CopyOf
    <2> QED
      BY <2>5, <2>6, <2>7, <2>8
  <1>3. T \in SUBSET Nat
    OBVIOUS
  <1>4. ASSUME NEW n \in T PROVE n + 1 \in T
    <2>1. n \in Nat /\ \A c \in Values[n] : Copy[n][c] = CopyOf(n, c)
      OBVIOUS
    <2> QED
      BY <1>2, <2>1
  <1>5. T = Nat
    <2> HIDE DEF T
    <2> QED
      BY <1>1, <1>3, <1>4, Nats!AllNat
  <1> QED
    BY <1>5

\* A copy is equal to the original, bits of the union and hash included, except
\* that every array in it is empty.  There is none (a NULL) of a null, a double or
\* a descriptor, and a dictionary with one of those among its values, however
\* deep, takes xpc_copy down.
THEOREM CopyIsFaithfulCorrect == Spec => []CopyIsFaithful
  <1>1. TypeOK => CopyIsFaithful
    <2> SUFFICES ASSUME x \in Values[MaxDepth] PROVE CopyIsFaithful
      BY DEF TypeOK
    <2>1. Copy[MaxDepth][x] = CopyOf(MaxDepth, x)
      BY DepthAssumption, CopyCorrect
    <2> DEFINE fatal == \E p \in Parts(x) : Uncopied(p)
    <2>2. fatal <=> FatalIn(MaxDepth, x)
      BY AtMaxDepth DEF FatalIn
    <2>3. xpc_copy(x) = IF x.type \in NoCopy THEN NULL ELSE IF fatal THEN Crash ELSE Emptied(x)
      BY <2>1, <2>2, AtMaxDepth DEF CopyOf
    <2> QED
      BY <2>3 DEF CopyIsFaithful, Uncopied
  <1> QED
    BY <1>1, TypeCorrect, PTL

-----------------------------------------------------------------------------
(* The getters at both ends *)

LEMMA GetIs ==
    ASSUME NEW v, v # NULL, NEW type
    PROVE  /\ v.type # type => get_value(type, v) = Default(type)
           /\ v.type = type /\ type \in {"bool", "fd"} => get_value(type, v) = <<v.u[1]>>
           /\ v.type = type /\ type \notin {"bool", "fd"} => get_value(type, v) = v.u
  BY DEF get_value

LEMMA ArrivedType ==
    ASSUME NEW n \in Nat, NEW v \in Values[n + 1]
    PROVE  Arrived(n, v).type = CASE v.type = "date" -> "int64"
                                  [] v.type \in {"null", "double"} -> "bool"
                                  [] OTHER -> v.type
  <1>1. v.type \in Types
    BY ValueFacts
  <1>2. /\ \A type, u : _xpc_prim_create(type, u).type = type
        /\ \A l : Arr(l).type = "array" /\ Dict(l).type = "dictionary"
    BY DEF _xpc_prim_create, Arr, Dict
  <1>3. /\ \A u : xpc_int64_create(u).type = "int64"
        /\ \A b : xpc_bool_create(b).type = "bool" /\ xpc_fd_create(b).type = "fd"
    BY <1>2 DEF xpc_int64_create, xpc_bool_create, xpc_fd_create
  <1> QED
    BY <1>1, <1>2, <1>3 DEF Arrived, Types

\* What a getter answers for an object, at either end.
LEMMA GetTravels ==
    ASSUME NEW n \in Nat, NEW c \in Values[n], ~Holds(n, c, {"data"})
    PROVE  /\ \A type \in {"bool", "int64", "uint64", "string", "data"} :
                 \/ get_value(type, Recv[n][c]) = get_value(type, c)
                 \/ type = "int64" /\ c.type = "date"
           /\ get_value("double", c) # Crashed
           /\ get_value("double", Recv[n][c]) # Crashed
  <1>1. PICK k \in Nat : n = k + 1
    BY NotNull
  <1>2. c \in Values[k + 1] /\ ~Holds(k + 1, c, {"data"})
    BY <1>1
  <1>3. PICK r \in Values[n] : r = Recv[n][c]
    BY ReceivedIs
  <1>4. r = Arrived(k, c)
    <2>1. Recv[k + 1][c] = Arrived(k, c)
      BY <1>1, <1>2, ReceivedIs
    <2> QED
      BY <1>1, <1>3, <2>1
  <1>5. r # NULL /\ c # NULL /\ c.type \in Types
    BY NotNull
  <1>6. c.type # "data"
    BY <1>1, <1>2, HoldsAt
  <1>7. r.type = CASE c.type = "date" -> "int64"
                   [] c.type \in {"null", "double"} -> "bool"
                   [] OTHER -> c.type
    BY <1>1, <1>2, <1>4, ArrivedType
  <1>8. ASSUME NEW type \in {"bool", "int64", "uint64", "string", "data"},
               ~(type = "int64" /\ c.type = "date")
        PROVE  get_value(type, r) = get_value(type, c)
    <2>1. CASE c.type \in {"int64", "uint64", "string"}
      <3>1. r = c
        BY <1>4, <2>1 DEF Arrived
      <3> QED
        BY <3>1
    <2>2. CASE c.type = "bool" /\ type = "bool"
      <3>1. r = _xpc_prim_create("bool", <<c.u[1], Junk>>)
        BY <1>4, <2>2 DEF Arrived, xpc_bool_create
      <3>2. r.u[1] = c.u[1] /\ r.type = "bool"
        BY <3>1 DEF _xpc_prim_create
      <3> QED
        BY <1>5, <2>2, <3>2, GetIs
    <2>3. CASE c.type \in {"null", "double"} /\ type = "bool"
      <3>1. r = _xpc_prim_create("bool", <<0, Junk>>)
        BY <1>4, <2>3 DEF Arrived, xpc_bool_create
      <3>2. r.u[1] = 0 /\ r.type = "bool"
        BY <3>1 DEF _xpc_prim_create
      <3>3. get_value(type, r) = <<0>>
        BY <1>5, <2>3, <3>2, GetIs
      <3>4. get_value(type, c) = Default("bool")
        BY <1>5, <2>3, GetIs
      <3> QED
        BY <3>3, <3>4 DEF Default
    <2>4. CASE c.type # type /\ r.type # type
      BY <1>5, <2>4, GetIs
    <2> QED
      BY <1>5, <1>6, <1>7, <1>8, <2>1, <2>2, <2>3, <2>4 DEF Types
  <1>9. get_value("double", c) # Crashed
    <2>1. CASE c.type = "double"
      <3>1. c.u \in Half \X Half
        BY <1>1, <1>2, <2>1, ValueFacts, PrimFacts
      <3>2. get_value("double", c) = c.u
        BY <1>5, <2>1, GetIs
      <3> QED
        BY <3>1, <3>2 DEF Crashed
    <2>2. CASE c.type # "double"
      <3>1. get_value("double", c) = <<0, 0>>
        BY <1>5, <2>2, GetIs DEF Default
      <3> QED
        BY <3>1 DEF Crashed
    <2> QED
      BY <2>1, <2>2
  <1>10. get_value("double", r) # Crashed
    <2>1. r.type # "double"
      BY <1>5, <1>7
    <2>2. get_value("double", r) = <<0, 0>>
      BY <1>5, <2>1, GetIs DEF Default
    <2> QED
      BY <2>2 DEF Crashed
  <1> QED
    BY <1>3, <1>8, <1>9, <1>10

\* The typed getters answer the same at both ends of a connection: what a value
\* turns into on the way (false, for a null or a double) is also what they answer
\* for a value that is not theirs.  Only a date, which arrives as an int64,
\* differs.  And the one getter that crashes for an element that is not there
\* does so at both ends or at neither.
THEOREM GettersTravelCorrect == Spec => []GettersTravel
  <1>1. TypeOK => GettersTravel
    <2> SUFFICES ASSUME x \in Values[MaxDepth], ~Has({"data"}) PROVE GettersTravel
      BY DEF TypeOK, GettersTravel
    <2>1. PICK n \in Nat : MaxDepth = n + 1
      <3>1. MaxDepth - 1 \in Nat /\ MaxDepth = (MaxDepth - 1) + 1
        BY DepthAssumption
      <3> QED
        BY <3>1
    <2>2. PICK y : y = Received(x)
      OBVIOUS
    <2>3. x \in Values[n + 1] /\ ~Holds(n + 1, x, {"data"})
      BY <2>1, AtMaxDepth DEF Has, Holds
    <2>4. y = Arrived(n, x)
      BY <2>1, <2>2, <2>3, AtMaxDepth, ReceivedIs
    <2>5. PICK list, m : list = x.list /\ m = Len(x.list)
      OBVIOUS
    <2>6. /\ m \in Nat /\ DOMAIN list = 1 .. m
          /\ \A i \in 1 .. m : /\ list[i].val \in Values[n]
                               /\ ~Holds(n, list[i].val, {"data"})
      BY <2>3, <2>5, ValueFacts, HoldsAt DEF ListIn
    <2>7. PICK R : R = Mapped(list, Recv[n], m)
      OBVIOUS
    <2>8. /\ Len(R) = m /\ DOMAIN R = 1 .. m
          /\ \A i \in 1 .. m : R[i].key = list[i].key /\ R[i].val = Recv[n][list[i].val]
      BY <2>6, <2>7, MappedFacts
    <2>9. x.type \in {"array", "dictionary"} => y.list = R
      BY <2>4, <2>5, <2>7 DEF Arrived, Arr, Dict
    <2>10. ASSUME NEW i \in 1 .. m
           PROVE  /\ \A type \in {"bool", "int64", "uint64", "string", "data"} :
                        \/ get_value(type, R[i].val) = get_value(type, list[i].val)
                        \/ type = "int64" /\ list[i].val.type = "date"
                  /\ get_value("double", list[i].val) # Crashed
                  /\ get_value("double", R[i].val) # Crashed
      BY <2>6, <2>8, GetTravels
    <2>11. ASSUME x.type = "dictionary", NEW k,
                  NEW type \in {"bool", "int64", "uint64", "string"}
           PROVE  \/ dictionary_get(type, y, k) = dictionary_get(type, x, k)
                  \/ type = "int64" /\ xpc_dictionary_get_value(x, k).type = "date"
      <3>1. y.list = R /\ x.list = list
        BY <2>5, <2>9, <2>11
      <3>2. PICK hits : hits = {i \in 1 .. m : list[i].key = k}
        OBVIOUS
      <3>3. /\ hits = {i \in DOMAIN x.list : x.list[i].key = k}
            /\ hits = {i \in DOMAIN y.list : y.list[i].key = k}
        BY <2>6, <2>8, <3>1, <3>2
      <3>4. CASE hits = {}
        <4>1. xpc_dictionary_get_value(x, k) = NULL /\ xpc_dictionary_get_value(y, k) = NULL
          BY <3>3, <3>4 DEF xpc_dictionary_get_value
        <4> QED
          BY <4>1 DEF dictionary_get
      <3>5. CASE hits # {}
        <4>1. PICK i \in hits : TRUE
          BY <3>5
        <4>2. i \in 1 .. m /\ hits = {i}
          <5>1. Named(x.list)
            BY <2>3, <2>11, ValueFacts
          <5>2. \A h, j \in 1 .. m : list[h].key = list[j].key => h = j
            BY <2>5, <5>1 DEF Named
          <5>3. i \in 1 .. m /\ \A j \in hits : j \in 1 .. m /\ list[j].key = list[i].key
            BY <3>2, <4>1
          <5>4. \A j \in hits : j = i
            BY <5>2, <5>3
          <5> QED
            BY <4>1, <5>3, <5>4
        <4>3. (CHOOSE h \in hits : \A j \in hits : h <= j) = i
          BY <4>2
        <4>4. /\ xpc_dictionary_get_value(x, k) = list[i].val
              /\ xpc_dictionary_get_value(y, k) = R[i].val
          BY <3>1, <3>3, <3>5, <4>3 DEF xpc_dictionary_get_value
        <4> QED
          BY <2>10, <4>2, <4>4 DEF dictionary_get
      <3> QED
        BY <3>4, <3>5
    <2>12. ASSUME x.type = "array", NEW index \in 0 .. MaxParts
           PROVE  /\ \A type \in {"bool", "int64", "uint64", "string", "data"} :
                        \/ array_get(type, y, index) = array_get(type, x, index)
                        \/ type = "int64" /\ xpc_array_get_value(x, index).type = "date"
                  /\ array_get("double", y, index) = Crashed
                       <=> array_get("double", x, index) = Crashed
      <3>1. y.list = R /\ x.list = list /\ Len(y.list) = m /\ Len(x.list) = m
        BY <2>5, <2>8, <2>9, <2>12
      <3>2. CASE index > 0 \/ index >= m
        <4>1. xpc_array_get_value(x, index) = NULL /\ xpc_array_get_value(y, index) = NULL
          BY <3>1, <3>2 DEF xpc_array_get_value
        <4> QED
          BY <4>1 DEF array_get
      <3>3. CASE ~(index > 0 \/ index >= m)
        <4>1. index = 0 /\ 1 \in 1 .. m
          BY <2>6, <2>12, <3>3, CallerAssumption
        <4>2. /\ xpc_array_get_value(x, index) = list[1].val
              /\ xpc_array_get_value(y, index) = R[1].val
          BY <3>1, <3>3, <4>1 DEF xpc_array_get_value
        <4> QED
          BY <2>10, <4>1, <4>2 DEF array_get
      <3> QED
        BY <3>2, <3>3
    <2> QED
      BY <2>2, <2>11, <2>12 DEF GettersTravel
  <1> QED
    BY <1>1, TypeCorrect, PTL

-----------------------------------------------------------------------------
(* Where the parts of a concatenation are *)

\* F is E[1] \o ... \o E[m]: E[i] begins behind place off[i - 1].
Layout(E, m, off, F) ==
    /\ off \in [0 .. m -> Nat] /\ off[0] = 0
    /\ \A i \in 1 .. m : off[i] = off[i - 1] + Len(E[i])
    /\ Len(F) = off[m]
    /\ \A i \in 1 .. m : \A h \in 1 .. Len(E[i]) : F[off[i - 1] + h] = E[i][h]
    /\ \A j \in 1 .. Len(F) : \E i \in 1 .. m : \E h \in 1 .. Len(E[i]) : j = off[i - 1] + h

LEMMA OffsetsGrow ==
    ASSUME NEW m \in Nat, NEW off \in [0 .. m -> Nat],
           \A i \in 1 .. m : off[i - 1] <= off[i]
    PROVE  \A i \in 0 .. m : off[0] <= off[i] /\ off[i] <= off[m]
  <1> DEFINE T == {k \in Nat : k <= m => off[0] <= off[k] /\ off[m - k] <= off[m]}
  <1>1. 0 \in T
    OBVIOUS
  <1>2. ASSUME NEW k \in T PROVE k + 1 \in T
    <2> SUFFICES ASSUME k + 1 <= m PROVE off[0] <= off[k + 1] /\ off[m - (k + 1)] <= off[m]
      OBVIOUS
    <2>1. off[0] <= off[k] /\ off[m - k] <= off[m]
      OBVIOUS
    <2>2. k + 1 \in 1 .. m /\ (k + 1) - 1 = k /\ m - k \in 1 .. m /\ (m - k) - 1 = m - (k + 1)
      OBVIOUS
    <2>3. off[k] <= off[k + 1] /\ off[m - (k + 1)] <= off[m - k]
      BY <2>2
    <2>4. /\ off[0] \in Nat /\ off[k] \in Nat /\ off[k + 1] \in Nat
          /\ off[m - k] \in Nat /\ off[m - (k + 1)] \in Nat /\ off[m] \in Nat
      OBVIOUS
    <2> HIDE DEF T
    <2> QED
      BY <2>1, <2>3, <2>4
  <1>3. T \in SUBSET Nat
    OBVIOUS
  <1>4. T = Nat
    <2> HIDE DEF T
    <2> QED
      BY <1>1, <1>2, <1>3, Nats!AllNat
  <1>5. ASSUME NEW i \in 0 .. m PROVE off[0] <= off[i] /\ off[i] <= off[m]
    <2>1. i \in Nat /\ m - i \in Nat /\ m - (m - i) = i /\ i <= m /\ m - i <= m
      OBVIOUS
    <2>2. i \in T /\ m - i \in T
      <3> HIDE DEF T
      <3> QED
        BY <1>4, <2>1
    <2> QED
      BY <2>1, <2>2
  <1> QED
    BY <1>5

\* One part more.
LEMMA LayoutGrows ==
    ASSUME NEW S, NEW k \in Nat, NEW E, \A i \in 1 .. k + 1 : E[i] \in Seq(S),
           NEW off, NEW F \in Seq(S), Layout(E, k, off, F)
    PROVE  /\ F \o E[k + 1] \in Seq(S)
           /\ \E next : Layout(E, k + 1, next, F \o E[k + 1])
  <1>1. PICK s \in Seq(S) : s = E[k + 1]
    OBVIOUS
  <1>2. /\ off \in [0 .. k -> Nat] /\ off[0] = 0
        /\ \A i \in 1 .. k : off[i] = off[i - 1] + Len(E[i])
        /\ Len(F) = off[k]
        /\ \A i \in 1 .. k : \A h \in 1 .. Len(E[i]) : F[off[i - 1] + h] = E[i][h]
        /\ \A j \in 1 .. Len(F) :
              \E i \in 1 .. k : \E h \in 1 .. Len(E[i]) : j = off[i - 1] + h
    BY DEF Layout
  <1>3. /\ F \o s \in Seq(S)
        /\ Len(F \o s) = Len(F) + Len(s)
        /\ \A i \in 1 .. Len(F) + Len(s) : (F \o s)[i] = IF i <= Len(F) THEN F[i]
                                                         ELSE s[i - Len(F)]
        /\ Len(F) \in Nat /\ Len(s) \in Nat
    BY ConcatProperties, LenProperties
  <1>4. \A i \in 1 .. k + 1 : Len(E[i]) \in Nat
    BY LenProperties
  <1> DEFINE next == [i \in 0 .. k + 1 |-> IF i = k + 1 THEN off[k] + Len(s) ELSE off[i]]
  <1>5. /\ next \in [0 .. k + 1 -> Nat] /\ next[0] = 0
        /\ next[k + 1] = off[k] + Len(s)
        /\ \A i \in 0 .. k : next[i] = off[i]
    BY <1>1, <1>2, <1>3
  <1>6. PICK G \in Seq(S) : G = F \o s
    BY <1>3
  <1> HIDE DEF next
  <1>7. \A i \in 1 .. k + 1 : next[i] = next[i - 1] + Len(E[i])
    <2> TAKE i \in 1 .. k + 1
    <2>1. CASE i = k + 1
      <3>1. next[i - 1] = off[k]
        BY <1>5, <2>1
      <3> QED
        BY <1>1, <1>5, <2>1, <3>1
    <2>2. CASE i \in 1 .. k
      <3>1. i - 1 \in 0 .. k /\ i \in 0 .. k
        BY <2>2
      <3> QED
        BY <1>2, <1>5, <2>2, <3>1
    <2> QED
      BY <2>1, <2>2
  <1>8. ASSUME NEW i \in 1 .. k + 1, NEW h \in 1 .. Len(E[i]) PROVE G[next[i - 1] + h] = E[i][h]
    <2>1. CASE i = k + 1
      <3>1. next[i - 1] = Len(F) /\ h \in 1 .. Len(s)
        BY <1>1, <1>2, <1>5, <2>1
      <3>2. Len(F) + h \in 1 .. Len(F) + Len(s) /\ ~(Len(F) + h <= Len(F)) /\ (Len(F) + h) - Len(F) = h
        BY <1>3, <3>1
      <3> QED
        BY <1>1, <1>3, <1>6, <2>1, <3>1, <3>2
    <2>2. CASE i \in 1 .. k
      <3>1. i - 1 \in 0 .. k /\ i \in 0 .. k
        BY <2>2
      <3>2. F[off[i - 1] + h] = E[i][h] /\ next[i - 1] = off[i - 1] /\ off[i] = off[i - 1] + Len(E[i])
        BY <1>2, <1>5, <2>2, <3>1
      <3>3. \A g \in 1 .. k : off[g - 1] <= off[g]
        <4> TAKE g \in 1 .. k
        <4>1. g - 1 \in 0 .. k /\ g \in 0 .. k /\ Len(E[g]) \in Nat
          BY <1>4
        <4> QED
          BY <1>2, <4>1
      <3>4. off[i] <= off[k]
        BY <1>2, <3>1, <3>3, OffsetsGrow
      <3>5. off[i - 1] \in Nat /\ Len(E[i]) \in Nat
        BY <1>2, <1>4, <3>1
      <3>6. off[i - 1] + h \in 1 .. Len(F)
        <4>1. off[i - 1] + h <= off[i] /\ off[i - 1] + h >= 1
          <5>1. h \in Nat /\ 1 <= h /\ h <= Len(E[i])
            BY <3>5
          <5> QED
            BY <3>2, <3>5, <5>1
        <4>2. off[i] \in Nat /\ off[k] \in Nat /\ Len(F) = off[k]
          BY <1>2, <3>1
        <4>3. off[i - 1] + h \in Nat
          BY <3>5
        <4> QED
          BY <3>4, <4>1, <4>2, <4>3
      <3> QED
        BY <1>3, <1>6, <3>2, <3>6
    <2> QED
      BY <2>1, <2>2
  <1>9. ASSUME NEW j \in 1 .. Len(G)
        PROVE  \E i \in 1 .. k + 1 : \E h \in 1 .. Len(E[i]) : j = next[i - 1] + h
    <2>1. CASE j \in 1 .. Len(F)
      <3>1. PICK i \in 1 .. k : \E h \in 1 .. Len(E[i]) : j = off[i - 1] + h
        BY <1>2, <2>1
      <3>2. i \in 1 .. k + 1 /\ i - 1 \in 0 .. k
        BY <3>1
      <3>3. next[i - 1] = off[i - 1]
        BY <1>5, <3>2
      <3> QED
        BY <3>1, <3>2, <3>3
    <2>2. CASE j > Len(F)
      <3>1. PICK h \in 1 .. Len(s) : j = Len(F) + h
        <4>1. j - Len(F) \in 1 .. Len(s) /\ j = Len(F) + (j - Len(F))
          BY <1>3, <1>6, <2>2
        <4> QED
          BY <4>1
      <3>2. PICK i \in 1 .. k + 1 : i = k + 1
        OBVIOUS
      <3>3. i - 1 = k /\ k \in 0 .. k
        BY <3>2
      <3>4. next[i - 1] = Len(F) /\ E[i] = s
        BY <1>1, <1>2, <1>5, <3>2, <3>3
      <3>5. h \in 1 .. Len(E[i]) /\ j = next[i - 1] + h
        BY <3>1, <3>4
      <3> QED
        BY <3>2, <3>5
    <2>3. j \in 1 .. Len(F) \/ j > Len(F)
      <3>1. Len(F) \in Nat /\ Len(G) \in Nat /\ j \in 1 .. Len(G)
        BY <1>3, <1>6, <1>9, LenProperties
      <3> QED
        BY <3>1
    <2> QED
      BY <2>1, <2>2, <2>3
  <1>10. Layout(E, k + 1, next, G)
    <2>1. Len(G) = next[k + 1]
      BY <1>2, <1>3, <1>5, <1>6
    <2> QED
      BY <1>5, <1>7, <1>8, <1>9, <2>1 DEF Layout
  <1> QED
    BY <1>1, <1>3, <1>6, <1>10

\* The recursion of FlattenSeq, up to k.
FlatBody(E, g, i) == IF i = 1 THEN E[i] ELSE g[i - 1] \o E[i]
Flat(E, g, k) == g = [i \in 1 .. k |-> FlatBody(E, g, i)]

LEMMA FlatExists == \A E : \A k \in Nat : \E g : Flat(E, g, k)
  <1> SUFFICES ASSUME NEW E PROVE \A k \in Nat : \E g : Flat(E, g, k)
    OBVIOUS
  <1> DEFINE T == {k \in Nat : \E g : Flat(E, g, k)}
  <1>1. 0 \in T
    <2>1. Flat(E, <<>>, 0)
      BY DEF Flat
    <2> QED
      BY <2>1
  <1>2. ASSUME NEW k \in Nat, NEW g, Flat(E, g, k) PROVE \E h : Flat(E, h, k + 1)
    <2> DEFINE h == [i \in 1 .. k + 1 |-> IF i = k + 1 THEN FlatBody(E, g, i) ELSE g[i]]
    <2>1. /\ h[k + 1] = FlatBody(E, g, k + 1)
          /\ \A i \in 1 .. k : h[i] = g[i]
      BY <1>2
    <2>2. h = [i \in 1 .. k + 1 |-> h[i]]
      OBVIOUS
    <2>3. \A i \in 1 .. k : g[i] = FlatBody(E, g, i)
      BY <1>2 DEF Flat
    <2> HIDE DEF h
    <2>4. ASSUME NEW i \in 1 .. k + 1 PROVE h[i] = FlatBody(E, h, i)
      <3>1. i = 1 \/ i - 1 \in 1 .. k
        BY <1>2
      <3>2. FlatBody(E, h, i) = FlatBody(E, g, i)
        BY <2>1, <3>1 DEF FlatBody
      <3>3. i \in 1 .. k \/ i = k + 1
        BY <1>2
      <3> QED
        BY <2>1, <2>3, <3>2, <3>3
    <2>5. Flat(E, h, k + 1)
      BY <2>2, <2>4 DEF Flat
    <2> QED
      BY <2>5
  <1>3. ASSUME NEW k \in T PROVE k + 1 \in T
    <2>1. k \in Nat /\ \E g : Flat(E, g, k)
      OBVIOUS
    <2>2. \E h : Flat(E, h, k + 1)
      BY <1>2, <2>1
    <2> QED
      BY <2>1, <2>2
  <1>4. T \in SUBSET Nat
    OBVIOUS
  <1>5. T = Nat
    <2> HIDE DEF T
    <2> QED
      BY <1>1, <1>3, <1>4, Nats!AllNat
  <1> QED
    BY <1>5

\* F is a sequence, laid out as said.
LaidOut(S, E, k, F) == F \in Seq(S) /\ \E off : Layout(E, k, off, F)

LEMMA FlatLaidOut ==
    ASSUME NEW S, NEW m \in Nat, NEW E, E \in [1 .. m -> Seq(S)], NEW g, Flat(E, g, m)
    PROVE  \A k \in 1 .. m : LaidOut(S, E, k, g[k])
  <1> DEFINE T == {k \in Nat : k + 1 <= m => LaidOut(S, E, k + 1, g[k + 1])}
  <1>1. \A k \in 1 .. m : g[k] = FlatBody(E, g, k)
    BY DEF Flat
  <1>2. ASSUME NEW k \in Nat, k + 1 <= m, NEW F, LaidOut(S, E, k, F)
        PROVE  LaidOut(S, E, k + 1, F \o E[k + 1])
    <2>1. \A i \in 1 .. k + 1 : E[i] \in Seq(S)
      BY <1>2
    <2>2. PICK off : F \in Seq(S) /\ Layout(E, k, off, F)
      BY <1>2 DEF LaidOut
    <2> QED
      BY <2>1, <2>2, LayoutGrows DEF LaidOut
  <1>3. LaidOut(S, E, 0, <<>>)
    <2>1. <<>> \in Seq(S) /\ Len(<<>>) = 0
      BY EmptySeq
    <2>2. Layout(E, 0, [i \in 0 .. 0 |-> 0], <<>>)
      BY <2>1 DEF Layout
    <2> QED
      BY <2>1, <2>2 DEF LaidOut
  <1>4. ASSUME 1 <= m PROVE LaidOut(S, E, 1, g[1])
    <2>1. E[1] \in Seq(S) /\ g[1] = E[1]
      BY <1>1, <1>4 DEF FlatBody
    <2>2. <<>> \o E[1] = E[1]
      BY <2>1, ConcatEmptySeq
    <2>3. PICK F : F = <<>>
      OBVIOUS
    <2>4. PICK k \in Nat : k = 0
      OBVIOUS
    <2>5. LaidOut(S, E, k, F) /\ k + 1 <= m
      BY <1>3, <1>4, <2>3, <2>4
    <2>6. LaidOut(S, E, k + 1, F \o E[k + 1])
      BY <1>2, <2>4, <2>5
    <2> QED
      BY <2>1, <2>2, <2>3, <2>4, <2>6
  <1>5. 0 \in T
    BY <1>4
  <1>6. ASSUME NEW k \in T PROVE k + 1 \in T
    <2> SUFFICES ASSUME (k + 1) + 1 <= m PROVE LaidOut(S, E, (k + 1) + 1, g[(k + 1) + 1])
      OBVIOUS
    <2>1. k + 1 \in Nat /\ LaidOut(S, E, k + 1, g[k + 1])
      OBVIOUS
    <2>2. (k + 1) + 1 \in 1 .. m /\ (k + 1) + 1 # 1 /\ ((k + 1) + 1) - 1 = k + 1
      OBVIOUS
    <2>3. g[(k + 1) + 1] = g[k + 1] \o E[(k + 1) + 1]
      BY <1>1, <2>2 DEF FlatBody
    <2>4. LaidOut(S, E, (k + 1) + 1, g[k + 1] \o E[(k + 1) + 1])
      BY <1>2, <2>1
    <2> QED
      BY <2>3, <2>4
  <1>7. T \in SUBSET Nat
    OBVIOUS
  <1>8. T = Nat
    <2> HIDE DEF T
    <2> QED
      BY <1>5, <1>6, <1>7, Nats!AllNat
  <1>9. ASSUME NEW k \in 1 .. m PROVE LaidOut(S, E, k, g[k])
    <2>1. k - 1 \in Nat /\ (k - 1) + 1 = k
      OBVIOUS
    <2>2. k - 1 \in T
      BY <1>8, <2>1
    <2> QED
      BY <2>1, <2>2
  <1> QED
    BY <1>9

LEMMA FlattenIs ==
    ASSUME NEW S, NEW m \in Nat, NEW E, E \in [1 .. m -> Seq(S)]
    PROVE  LaidOut(S, E, m, FlattenSeq(E))
  <1> DEFINE f == CHOOSE g : g = [i \in 1 .. m |-> IF i = 1 THEN E[i] ELSE g[i - 1] \o E[i]]
  <1>1. Len(E) = m
    <2>1. E \in Seq(Seq(S))
      BY IsSeq
    <2> QED
      BY <2>1, LenProperties
  <1>2. FlattenSeq(E) = IF m = 0 THEN E ELSE f[m]
    BY <1>1 DEF FlattenSeq
  <1>3. Flat(E, f, m)
    <2>1. f = CHOOSE g : Flat(E, g, m)
      BY DEF Flat, FlatBody
    <2> HIDE DEF f
    <2> QED
      BY <2>1, FlatExists
  <1> HIDE DEF f
  <1>4. CASE m = 0
    <2>1. FlattenSeq(E) = <<>>
      BY <1>2, <1>4
    <2>2. <<>> \in Seq(S) /\ Len(<<>>) = 0
      BY EmptySeq
    <2>3. Layout(E, 0, [i \in 0 .. 0 |-> 0], <<>>)
      BY <2>2 DEF Layout
    <2> QED
      BY <1>4, <2>1, <2>2, <2>3 DEF LaidOut
  <1>5. CASE m # 0
    <2>1. m \in 1 .. m
      BY <1>5
    <2> QED
      BY <1>2, <1>3, <1>5, <2>1, FlatLaidOut
  <1> QED
    BY <1>4, <1>5

-----------------------------------------------------------------------------
(* The lines of a description *)

Describe == AtDepth(Values, describe_with)
DescribeStep(n, f) == [v \in Values[n] |-> describe_with(v, f)]
DescribeRec == INSTANCE NatFacts WITH Base <- <<>>, Step <- DescribeStep

LEMMA DescribeAt ==
    \A n \in Nat : \A v \in Values[n + 1] : Describe[n + 1][v] = describe_with(v, Describe[n])
  <1>1. Describe = DescribeRec!Rec
    BY DEF Describe, AtDepth, DescribeRec!Rec, DescribeStep
  <1>2. \A n \in Nat : Describe[n] = IF n = 0 THEN <<>> ELSE DescribeStep(n, Describe[n - 1])
    BY <1>1, DescribeRec!Unfold
  <1>3. \A n \in Nat : Describe[n + 1] = DescribeStep(n + 1, Describe[n])
    BY <1>2
  <1> QED
    BY <1>3 DEF DescribeStep

Line(pad, label, type, text) == [pad |-> pad, label |-> label, type |-> type, text |-> text]
Lines == [pad : Nat, label : Seq(Int), type : Types, text : Seq(Int)]

\* The first line of a value by itself, and as element i of a container.
TopLine(v) == Line(0, <<>>, v.type, Text(v))
EntryLine(e, i, level) == Line(Pad(level), Label(e, i), e.val.type, Text(e.val))

\* The lines of element i: those of its value, one level below, but for the first.
Entry(n, v, level, i) ==
    LET below == Describe[n][v.list[i].val][LevelBelow(level)]
    IN  <<[below[1] EXCEPT !.pad = Pad(level), !.label = Label(v.list[i], i)]>> \o Tail(below)

Entries(n, v, level) == [i \in 1 .. Len(v.list) |-> Entry(n, v, level, i)]

LEMMA DescribeIs ==
    \A n \in Nat : \A v \in Values[n + 1] : \A level \in Nat :
       Describe[n + 1][v][level] = <<TopLine(v)>> \o FlattenSeq(Entries(n, v, level))
  <1> SUFFICES ASSUME NEW n \in Nat, NEW v \in Values[n + 1], NEW level \in Nat
               PROVE  Describe[n + 1][v][level]
                         = <<TopLine(v)>> \o FlattenSeq(Entries(n, v, level))
    OBVIOUS
  <1>1. DOMAIN v.list = 1 .. Len(v.list)
    BY ValueFacts DEF ListIn
  <1>2. Describe[n + 1][v] = describe_with(v, Describe[n])
    BY DescribeAt
  <1>3. describe_with(v, Describe[n])[level]
           = <<TopLine(v)>> \o FlattenSeq([i \in DOMAIN v.list |-> Entry(n, v, level, i)])
    BY DEF describe_with, TopLine, Line, Entry
  <1> QED
    BY <1>1, <1>2, <1>3 DEF Entries

LEMMA PadFacts ==
    \A level \in Nat : /\ Pad(level) \in Nat /\ 0 < Pad(level)
                       /\ LevelBelow(level) \in Nat
                       /\ Pad(level) < Pad(LevelBelow(level))
  BY DEF Pad, LevelBelow

LEMMA BytesAreInts == Seq(Byte) \subseteq Seq(Int)
  <1>1. ASSUME NEW s \in Seq(Byte) PROVE s \in Seq(Int)
    <2>1. Len(s) \in Nat /\ s \in [1 .. Len(s) -> Byte]
      BY LenProperties
    <2>2. Byte \subseteq Int
      BY DEF Byte
    <2>3. s \in [1 .. Len(s) -> Int]
      BY <2>1, <2>2
    <2> QED
      BY <2>1, <2>3, IsSeq
  <1> QED
    BY <1>1

LEMMA TextIs == \A n \in Nat : \A v \in Values[n + 1] : Text(v) \in Seq(Int)
  <1> SUFFICES ASSUME NEW n \in Nat, NEW v \in Values[n + 1] PROVE Text(v) \in Seq(Int)
    OBVIOUS
  <1>1. v.type \in Types /\ (v.type \notin {"array", "dictionary"} => v \in Prims)
    BY ValueFacts
  <1>2. \A a, b \in Int : <<a>> \in Seq(Int) /\ <<a, b>> \in Seq(Int)
    OBVIOUS
  <1>3. CASE v.type = "bool"
    <2>1. v.u \in (0 .. 1) \X Half
      BY <1>1, <1>3, PrimFacts
    <2>2. v.u[1] \in Int
      BY <2>1
    <2> QED
      BY <1>2, <1>3, <2>2 DEF Text
  <1>4. CASE v.type = "fd"
    <2>1. v.u \in Half \X Half
      BY <1>1, <1>4, PrimFacts
    <2>2. v.u[1] \in Int
      BY <2>1 DEF Half
    <2> QED
      BY <1>2, <1>4, <2>2 DEF Text
  <1>5. CASE v.type \in {"int64", "uint64", "date"}
    <2>1. v.u \in Half \X Half
      BY <1>1, <1>5, PrimFacts
    <2>2. v.u[1] \in Int /\ v.u[2] \in Int /\ v.u = <<v.u[1], v.u[2]>>
      BY <2>1 DEF Half
    <2>3. v.u \in Seq(Int)
      BY <1>2, <2>2
    <2> QED
      BY <1>5, <2>3 DEF Text
  <1>6. CASE v.type = "string"
    BY <1>1, <1>6, PrimFacts, BytesAreInts DEF Text
  <1>7. CASE v.type \in {"null", "double", "data", "array", "dictionary"}
    <2>1. CASE v.type = "data"
      BY <1>1, <2>1, PrimFacts, BytesAreInts DEF Text
    <2>2. CASE v.type # "data"
      BY <1>7, <2>2, EmptySeq DEF Text
    <2> QED
      BY <2>1, <2>2
  <1> QED
    BY <1>1, <1>3, <1>4, <1>5, <1>6, <1>7 DEF Types

LEMMA LabelIs ==
    \A n \in Nat : \A v \in Values[n + 1] : \A i \in 1 .. Len(v.list) :
       Label(v.list[i], i) \in Seq(Int)
  <1> SUFFICES ASSUME NEW n \in Nat, NEW v \in Values[n + 1], NEW i \in 1 .. Len(v.list)
               PROVE  Label(v.list[i], i) \in Seq(Int)
    OBVIOUS
  <1>1. /\ ListIn(v.list, Values[n])
        /\ v.type = "array" => Unnamed(v.list)
        /\ v.type = "dictionary" => Named(v.list)
        /\ v.type \notin {"array", "dictionary"} => v \in Prims
    BY ValueFacts
  <1>2. v.list[i].key = NoName \/ v.list[i].key \in Seq(Int)
    <2>1. CASE v.type = "array"
      BY <1>1, <2>1 DEF Unnamed
    <2>2. CASE v.type = "dictionary"
      BY <1>1, <2>2, BytesAreInts DEF Named
    <2>3. CASE v.type \notin {"array", "dictionary"}
      <3>1. v.list = <<>>
        BY <1>1, <2>3, PrimFacts
      <3> QED
        BY <3>1
    <2> QED
      BY <2>1, <2>2, <2>3
  <1>3. i - 1 \in Int /\ Quote \in Int
    BY DEF Quote
  <1>4. \A a \in Int : <<a>> \in Seq(Int)
    OBVIOUS
  <1>5. \A a \in Int : \A s \in Seq(Int) : <<a>> \o s \in Seq(Int)
    BY <1>4, ConcatProperties
  <1> QED
    BY <1>2, <1>3, <1>4, <1>5 DEF Label

\* The lines of a value described at a level: the first is its own, the others are
\* padded for that level at least.
Lined(b, v, level) ==
    /\ b \in Seq(Lines)
    /\ Len(b) \in Nat /\ 1 <= Len(b)
    /\ b[1] = TopLine(v)
    /\ \A h \in 2 .. Len(b) : b[h].pad \in Nat /\ Pad(level) <= b[h].pad

\* The values nested at most n deep are lined so.
AllLined(n, level) == \A v \in Values[n] : Lined(Describe[n][v][level], v, level)

LEMMA TopLineIs == \A n \in Nat : \A v \in Values[n + 1] : TopLine(v) \in Lines
  <1> SUFFICES ASSUME NEW n \in Nat, NEW v \in Values[n + 1] PROVE TopLine(v) \in Lines
    OBVIOUS
  <1>1. v.type \in Types /\ Text(v) \in Seq(Int) /\ <<>> \in Seq(Int)
    BY ValueFacts, TextIs, EmptySeq
  <1> QED
    BY <1>1 DEF TopLine, Line, Lines

LEMMA OneElement ==
    ASSUME NEW S, NEW a \in S
    PROVE  <<a>> \in Seq(S) /\ Len(<<a>>) = 1 /\ <<a>>[1] = a
  OBVIOUS

Relined(line, pad, label) == [line EXCEPT !.pad = pad, !.label = label]

LEMMA OtherPad ==
    ASSUME NEW pad, NEW label, NEW type, NEW text, NEW p, NEW l,
           NEW r, r = Line(pad, label, type, text)
    PROVE  Relined(r, p, l) = Line(p, l, type, text)
  <1>1. r = [pad |-> pad, label |-> label, type |-> type, text |-> text]
    BY DEF Line
  <1>2. PICK s : s = [r EXCEPT !.pad = p, !.label = l]
    OBVIOUS
  <1>3. s.pad = p /\ s.label = l /\ s.type = type /\ s.text = text
    BY <1>1, <1>2
  <1>4. DOMAIN s = {"pad", "label", "type", "text"} /\ s = [f \in DOMAIN s |-> s[f]]
    BY <1>1, <1>2
  <1>5. s = [pad |-> p, label |-> l, type |-> type, text |-> text]
    BY <1>3, <1>4
  <1> QED
    BY <1>2, <1>5 DEF Line, Relined

\* A sequence with another first element.
LEMMA OtherFirst ==
    ASSUME NEW S, NEW s \in Seq(S), 1 <= Len(s), NEW a \in S
    PROVE  /\ <<a>> \o Tail(s) \in Seq(S)
           /\ Len(<<a>> \o Tail(s)) = Len(s)
           /\ (<<a>> \o Tail(s))[1] = a
           /\ \A h \in 2 .. Len(s) : (<<a>> \o Tail(s))[h] = s[h]
  <1>1. Len(s) \in Nat /\ s # <<>>
    BY LenProperties
  <1>2. /\ Tail(s) \in Seq(S)
        /\ Len(Tail(s)) = Len(s) - 1
        /\ \A i \in 1 .. Len(s) - 1 : Tail(s)[i] = s[i + 1]
    BY <1>1, HeadTailProperties
  <1>3. PICK r \in Seq(S) : r = Tail(s)
    BY <1>2
  <1>4. PICK f \in Seq(S) : f = <<a>>
    BY OneElement
  <1>5. f \in Seq(S) /\ Len(f) = 1 /\ f[1] = a
    BY <1>4, OneElement
  <1>6. /\ f \o r \in Seq(S)
        /\ Len(f \o r) = Len(f) + Len(r)
        /\ \A i \in 1 .. Len(f) + Len(r) :
              (f \o r)[i] = IF i <= Len(f) THEN f[i] ELSE r[i - Len(f)]
    BY <1>3, <1>5, ConcatProperties
  <1>7. \A h \in 2 .. Len(s) : (f \o r)[h] = s[h]
    <2> TAKE h \in 2 .. Len(s)
    <2>1. /\ h - 1 \in 1 .. Len(s) - 1 /\ h \in 1 .. Len(f) + Len(r)
          /\ ~(h <= Len(f)) /\ h - Len(f) = h - 1 /\ (h - 1) + 1 = h
      BY <1>1, <1>2, <1>3, <1>5
    <2>2. (f \o r)[h] = r[h - 1]
      BY <1>6, <2>1
    <2> QED
      BY <1>2, <1>3, <2>1, <2>2
  <1>8. (f \o r)[1] = a /\ Len(f \o r) = Len(s)
    BY <1>1, <1>2, <1>3, <1>5, <1>6
  <1> QED
    BY <1>3, <1>4, <1>6, <1>7, <1>8

\* Entry i has the lines of its value, one level below, but for the first.
EntryOf(n, v, level, i) ==
    LET below == Describe[n][v.list[i].val][LevelBelow(level)]
    IN  /\ Entry(n, v, level, i) \in Seq(Lines)
        /\ Len(Entry(n, v, level, i)) = Len(below)
        /\ Entry(n, v, level, i)[1] = EntryLine(v.list[i], i, level)
        /\ \A h \in 2 .. Len(below) : Entry(n, v, level, i)[h] = below[h]

LEMMA EntryIs ==
    ASSUME NEW n \in Nat, NEW v \in Values[n + 1], NEW level \in Nat,
           NEW i \in 1 .. Len(v.list), AllLined(n, LevelBelow(level))
    PROVE  EntryOf(n, v, level, i)
  <1> DEFINE below == Describe[n][v.list[i].val][LevelBelow(level)]
             e == v.list[i]
  <1>1. e.val \in Values[n] /\ e.val \in Values[n + 1]
    BY ValueFacts, ValuesGrow DEF ListIn
  <1>2. below \in Seq(Lines) /\ 1 <= Len(below) /\ below[1] = TopLine(e.val)
    BY <1>1 DEF AllLined, Lined
  <1>3. [below[1] EXCEPT !.pad = Pad(level), !.label = Label(e, i)] = EntryLine(e, i, level)
    <2>1. PICK r : r = below[1]
      OBVIOUS
    <2>2. r = Line(0, <<>>, e.val.type, Text(e.val))
      BY <1>2, <2>1 DEF TopLine
    <2>3. Relined(r, Pad(level), Label(e, i))
             = Line(Pad(level), Label(e, i), e.val.type, Text(e.val))
      <3> HIDE DEF e
      <3> QED
        BY <2>2, OtherPad
    <2> QED
      BY <2>1, <2>3 DEF EntryLine, Relined
  <1>4. EntryLine(e, i, level) \in Lines
    <2>1. /\ Pad(level) \in Nat /\ Label(e, i) \in Seq(Int)
          /\ e.val.type \in Types /\ Text(e.val) \in Seq(Int)
      BY <1>1, PadFacts, LabelIs, ValueFacts, TextIs
    <2> HIDE DEF e
    <2> QED
      BY <2>1 DEF EntryLine, Line, Lines
  <1>5. Entry(n, v, level, i) = <<EntryLine(e, i, level)>> \o Tail(below)
    BY <1>3 DEF Entry
  <1> HIDE DEF e, below
  <1>6. PICK a \in Lines : a = EntryLine(e, i, level)
    BY <1>4
  <1>7. below \in Seq(Lines) /\ 1 <= Len(below) /\ a \in Lines
    BY <1>2, <1>6
  <1>8. /\ <<a>> \o Tail(below) \in Seq(Lines)
        /\ Len(<<a>> \o Tail(below)) = Len(below)
        /\ (<<a>> \o Tail(below))[1] = a
        /\ \A h \in 2 .. Len(below) : (<<a>> \o Tail(below))[h] = below[h]
    BY <1>7, OtherFirst
  <1>9. Entry(n, v, level, i) = <<a>> \o Tail(below)
    BY <1>5, <1>6
  <1> QED
    BY <1>6, <1>8, <1>9 DEF EntryOf, e, below

\* Where the lines of the elements of v are among the lines b of v.
Nested(n, v, level, b, off) ==
    /\ Len(b) = 1 + off[Len(v.list)]
    /\ off \in [0 .. Len(v.list) -> Nat]
    /\ \A i \in 1 .. Len(v.list) :
          LET below == Describe[n][v.list[i].val][LevelBelow(level)]
          IN  /\ b[1 + off[i - 1] + 1] = EntryLine(v.list[i], i, level)
              /\ \A h \in 2 .. Len(below) : b[1 + off[i - 1] + h] = below[h]
              /\ \A h \in 1 .. Len(below) : 1 + off[i - 1] + h \in 2 .. Len(b)
    /\ \A j \in 2 .. Len(b) :
          \E i \in 1 .. Len(v.list) :
             \E h \in 1 .. Len(Describe[n][v.list[i].val][LevelBelow(level)]) :
                j = 1 + off[i - 1] + h

LEMMA Within ==
    \A p, q, z, h \in Nat : p + q <= z /\ 1 <= h /\ h <= q => p + h \in 1 .. z
  OBVIOUS

LEMMA DescribeNested ==
    ASSUME NEW n \in Nat, NEW v \in Values[n + 1], NEW level \in Nat,
           AllLined(n, LevelBelow(level)),
           NEW b, b = Describe[n + 1][v][level]
    PROVE  /\ b \in Seq(Lines) /\ b[1] = TopLine(v)
           /\ \E off : Nested(n, v, level, b, off)
  <1> DEFINE m == Len(v.list)
             E == Entries(n, v, level)
             F == FlattenSeq(E)
             Below(i) == Describe[n][v.list[i].val][LevelBelow(level)]
  <1>1. m \in Nat /\ \A i \in 1 .. m : v.list[i].val \in Values[n]
    BY ValueFacts DEF ListIn
  <1>2. \A i \in 1 .. m : Lined(Below(i), v.list[i].val, LevelBelow(level))
    BY <1>1 DEF AllLined
  <1>3. \A i \in 1 .. m : /\ E[i] \in Seq(Lines)
                          /\ Len(E[i]) = Len(Below(i))
                          /\ E[i][1] = EntryLine(v.list[i], i, level)
                          /\ \A h \in 2 .. Len(Below(i)) : E[i][h] = Below(i)[h]
    <2> TAKE i \in 1 .. m
    <2>1. EntryOf(n, v, level, i)
      BY EntryIs
    <2>2. E[i] = Entry(n, v, level, i)
      BY DEF E, Entries
    <2> HIDE DEF E
    <2> QED
      BY <2>1, <2>2 DEF EntryOf
  <1>4. E \in [1 .. m -> Seq(Lines)]
    BY <1>3 DEF Entries
  <1>5. b = <<TopLine(v)>> \o F
    BY DescribeIs
  <1> HIDE DEF E, F
  <1>6. LaidOut(Lines, E, m, F)
    BY <1>1, <1>4, FlattenIs DEF F
  <1>7. PICK off : F \in Seq(Lines) /\ Layout(E, m, off, F)
    BY <1>6 DEF LaidOut
  <1>8. /\ b \in Seq(Lines) /\ b[1] = TopLine(v)
        /\ Len(b) = 1 + Len(F) /\ Len(F) \in Nat
        /\ \A j \in 1 .. Len(F) : b[1 + j] = F[j]
    <2>1. PICK top \in Lines : top = TopLine(v)
      BY TopLineIs
    <2>2. PICK f \in Seq(Lines) : f = <<top>>
      BY OneElement
    <2>3. /\ f \in Seq(Lines) /\ Len(f) = 1 /\ f[1] = top
          /\ F \in Seq(Lines) /\ Len(F) \in Nat
      BY <1>7, <2>2, OneElement, LenProperties
    <2>4. /\ f \o F \in Seq(Lines) /\ Len(f \o F) = Len(f) + Len(F)
          /\ \A i \in 1 .. Len(f) + Len(F) :
                (f \o F)[i] = IF i <= Len(f) THEN f[i] ELSE F[i - Len(f)]
      BY <2>3, ConcatProperties
    <2>5. ASSUME NEW j \in 1 .. Len(F) PROVE (f \o F)[1 + j] = F[j]
      <3>1. /\ 1 + j \in 1 .. Len(f) + Len(F) /\ ~(1 + j <= Len(f))
            /\ (1 + j) - Len(f) = j
        BY <2>3
      <3> QED
        BY <2>4, <3>1
    <2>6. (f \o F)[1] = top
      BY <2>3, <2>4
    <2> QED
      BY <1>5, <2>1, <2>2, <2>3, <2>4, <2>5, <2>6
  <1>9. /\ off \in [0 .. m -> Nat] /\ Len(F) = off[m]
        /\ \A i \in 1 .. m : \A h \in 1 .. Len(E[i]) :
              F[off[i - 1] + h] = E[i][h] /\ off[i - 1] + h \in 1 .. Len(F)
        /\ \A j \in 1 .. Len(F) : \E i \in 1 .. m : \E h \in 1 .. Len(E[i]) : j = off[i - 1] + h
    <2>1. /\ off \in [0 .. m -> Nat] /\ Len(F) = off[m] /\ off[0] = 0
          /\ \A i \in 1 .. m : off[i] = off[i - 1] + Len(E[i])
      BY <1>7 DEF Layout
    <2>2. ASSUME NEW i \in 1 .. m, NEW h \in 1 .. Len(E[i])
          PROVE  off[i - 1] + h \in 1 .. Len(F)
      <3>1. \A g \in 1 .. m : Len(E[g]) \in Nat
        BY <1>3, LenProperties
      <3>2. \A g \in 1 .. m : off[g - 1] <= off[g]
        <4> TAKE g \in 1 .. m
        <4>1. g - 1 \in 0 .. m /\ g \in 0 .. m /\ Len(E[g]) \in Nat
          BY <1>1, <3>1
        <4>2. off[g - 1] \in Nat /\ off[g] = off[g - 1] + Len(E[g])
          BY <2>1, <4>1
        <4> QED
          BY <4>1, <4>2
      <3>3. i \in 0 .. m /\ i - 1 \in 0 .. m
        BY <1>1
      <3>4. off[i] <= off[m]
        BY <1>1, <2>1, <3>2, <3>3, OffsetsGrow
      <3>5. /\ off[i] \in Nat /\ off[i - 1] \in Nat /\ off[m] \in Nat /\ Len(E[i]) \in Nat
            /\ off[i] = off[i - 1] + Len(E[i])
            /\ h \in Nat /\ 1 <= h /\ h <= Len(E[i])
        <4>1. /\ off[i] \in Nat /\ off[i - 1] \in Nat /\ off[m] \in Nat
              /\ off[i] = off[i - 1] + Len(E[i])
          <5>1. m \in 0 .. m
            BY <1>1
          <5> QED
            BY <2>1, <3>3, <5>1
        <4>2. Len(E[i]) \in Nat
          BY <3>1
        <4> QED
          BY <4>1, <4>2
      <3>6. off[i - 1] + Len(E[i]) <= off[m]
        BY <3>4, <3>5
      <3> QED
        BY <2>1, <3>5, <3>6, Within
    <2> QED
      BY <1>7, <2>1, <2>2 DEF Layout
  <1>10. ASSUME NEW i \in 1 .. m
         PROVE  /\ b[1 + off[i - 1] + 1] = EntryLine(v.list[i], i, level)
                /\ \A h \in 2 .. Len(Below(i)) : b[1 + off[i - 1] + h] = Below(i)[h]
                /\ \A h \in 1 .. Len(Below(i)) : 1 + off[i - 1] + h \in 2 .. Len(b)
    <2>1. Len(E[i]) = Len(Below(i)) /\ Len(E[i]) \in Nat /\ 1 <= Len(E[i])
      BY <1>2, <1>3 DEF Lined
    <2>2. off[i - 1] \in Nat
      <3>1. i - 1 \in 0 .. m
        BY <1>1
      <3> QED
        BY <1>9, <3>1
    <2>3. \A h \in 1 .. Len(E[i]) : /\ b[1 + off[i - 1] + h] = E[i][h]
                                   /\ 1 + off[i - 1] + h \in 2 .. Len(b)
      <3> TAKE h \in 1 .. Len(E[i])
      <3>1. 1 + off[i - 1] + h = 1 + (off[i - 1] + h)
        BY <2>1, <2>2
      <3>2. F[off[i - 1] + h] = E[i][h] /\ off[i - 1] + h \in 1 .. Len(F)
        BY <1>9
      <3>3. b[1 + off[i - 1] + h] = E[i][h]
        BY <1>8, <3>1, <3>2
      <3>4. 1 + (off[i - 1] + h) \in 2 .. Len(b)
        <4>1. PICK j \in 1 .. Len(F) : j = off[i - 1] + h
          BY <3>2
        <4>2. Len(b) = 1 + Len(F) /\ Len(F) \in Nat
          BY <1>8
        <4>3. 1 + j \in 2 .. Len(b)
          BY <4>1, <4>2
        <4> QED
          BY <4>1, <4>3
      <3> QED
        BY <3>1, <3>3, <3>4
    <2>4. 1 \in 1 .. Len(E[i]) /\ \A h \in 2 .. Len(Below(i)) : h \in 1 .. Len(E[i])
      BY <2>1
    <2> HIDE DEF Below
    <2> QED
      BY <1>3, <2>1, <2>3, <2>4
  <1>11. ASSUME NEW j \in 2 .. Len(b)
         PROVE  \E i \in 1 .. m : \E h \in 1 .. Len(Below(i)) : j = 1 + off[i - 1] + h
    <2>1. j - 1 \in 1 .. Len(F) /\ j = 1 + (j - 1)
      BY <1>8
    <2>2. PICK i \in 1 .. m : \E h \in 1 .. Len(E[i]) : j - 1 = off[i - 1] + h
      BY <1>9, <2>1
    <2>3. PICK h \in 1 .. Len(E[i]) : j - 1 = off[i - 1] + h
      BY <2>2
    <2>4. h \in 1 .. Len(Below(i)) /\ off[i - 1] \in Nat /\ h \in Int
      <3>1. i \in 1 .. m /\ i - 1 \in 0 .. m
        BY <1>1, <2>2
      <3>2. off[i - 1] \in Nat
        BY <1>9, <3>1
      <3>3. Len(E[i]) = Len(Below(i))
        BY <1>3, <3>1
      <3>4. h \in 1 .. Len(E[i])
        BY <2>3
      <3> HIDE DEF Below
      <3> QED
        BY <3>2, <3>3, <3>4
    <2>5. j = 1 + off[i - 1] + h
      <3>1. PICK o \in Nat : o = off[i - 1]
        BY <2>4
      <3>2. j \in Int /\ h \in Int /\ j - 1 = o + h
        BY <2>3, <2>4, <3>1
      <3>3. j = 1 + o + h
        BY <3>2
      <3> QED
        BY <3>1, <3>3
    <2> QED
      BY <2>2, <2>4, <2>5
  <1>12. Nested(n, v, level, b, off)
    BY <1>8, <1>9, <1>10, <1>11 DEF Nested
  <1> QED
    BY <1>8, <1>12

LEMMA DescribeLined == \A n \in Nat : \A level \in Nat : AllLined(n, level)
  <1> DEFINE T == {n \in Nat : \A level \in Nat : AllLined(n, level)}
  <1>1. 0 \in T
    BY ValuesAt DEF AllLined
  <1>2. ASSUME NEW n \in Nat, NEW v \in Values[n + 1], NEW level \in Nat,
               AllLined(n, LevelBelow(level)), NEW b, b = Describe[n + 1][v][level]
        PROVE  Lined(b, v, level)
    <2> DEFINE Below(i) == Describe[n][v.list[i].val][LevelBelow(level)]
    <2>1. b \in Seq(Lines) /\ b[1] = TopLine(v) /\ \E off : Nested(n, v, level, b, off)
      BY <1>2, DescribeNested
    <2>2. PICK off : Nested(n, v, level, b, off)
      BY <2>1
    <2>3. /\ Pad(level) \in Nat /\ Pad(LevelBelow(level)) \in Nat
          /\ Pad(level) < Pad(LevelBelow(level))
      BY PadFacts
    <2>4. Len(b) \in Nat /\ 1 <= Len(b)
      <3>1. Len(v.list) \in Nat /\ Len(b) = 1 + off[Len(v.list)]
            /\ off \in [0 .. Len(v.list) -> Nat]
        BY <2>2, ValueFacts DEF ListIn, Nested
      <3>2. off[Len(v.list)] \in Nat
        BY <3>1
      <3> QED
        BY <3>1, <3>2
    <2>5. ASSUME NEW j \in 2 .. Len(b) PROVE b[j].pad \in Nat /\ Pad(level) <= b[j].pad
      <3>1. PICK i \in 1 .. Len(v.list) : \E h \in 1 .. Len(Below(i)) : j = 1 + off[i - 1] + h
        BY <2>2 DEF Nested
      <3>2. PICK h \in 1 .. Len(Below(i)) : j = 1 + off[i - 1] + h
        BY <3>1
      <3>3. i \in 1 .. Len(v.list) /\ v.list[i].val \in Values[n]
        BY <3>1, ValueFacts DEF ListIn
      <3>4. Lined(Below(i), v.list[i].val, LevelBelow(level))
        BY <1>2, <3>3 DEF AllLined
      <3>5. h = 1 \/ h \in 2 .. Len(Below(i))
        <4>1. Len(Below(i)) \in Nat /\ h \in 1 .. Len(Below(i))
          BY <3>2, <3>4 DEF Lined
        <4> HIDE DEF Below
        <4> QED
          BY <4>1
      <3>6. CASE h = 1
        <4>1. b[j] = EntryLine(v.list[i], i, level)
          BY <2>2, <3>2, <3>3, <3>6 DEF Nested
        <4>2. b[j].pad = Pad(level)
          BY <4>1 DEF EntryLine, Line
        <4> QED
          BY <2>3, <4>2
      <3>7. CASE h \in 2 .. Len(Below(i))
        <4>1. b[j] = Below(i)[h]
          BY <2>2, <3>2, <3>3, <3>7 DEF Nested
        <4>2. b[j].pad \in Nat /\ Pad(LevelBelow(level)) <= b[j].pad
          BY <3>4, <3>7, <4>1 DEF Lined
        <4> QED
          BY <2>3, <4>2
      <3> QED
        BY <3>5, <3>6, <3>7
    <2> QED
      BY <2>1, <2>4, <2>5 DEF Lined
  <1>3. ASSUME NEW n \in T PROVE n + 1 \in T
    <2>1. n \in Nat /\ n + 1 \in Nat
      OBVIOUS
    <2>2. \A level \in Nat : AllLined(n, level)
      OBVIOUS
    <2>3. ASSUME NEW v \in Values[n + 1], NEW level \in Nat
          PROVE  Lined(Describe[n + 1][v][level], v, level)
      <3>1. PICK b : b = Describe[n + 1][v][level]
        OBVIOUS
      <3>2. LevelBelow(level) \in Nat
        BY PadFacts
      <3>3. AllLined(n, LevelBelow(level))
        BY <2>2, <3>2
      <3>4. Lined(b, v, level)
        BY <1>2, <2>1, <3>1, <3>3
      <3> QED
        BY <3>1, <3>4
    <2> QED
      BY <2>1, <2>3 DEF AllLined
  <1>4. T \in SUBSET Nat
    OBVIOUS
  <1>5. T = Nat
    <2> HIDE DEF T
    <2> QED
      BY <1>1, <1>3, <1>4, Nats!AllNat
  <1> QED
    BY <1>5

-----------------------------------------------------------------------------
(* The paths read off the lines *)

Above(lines, k) == {i \in 1 .. k - 1 : lines[i].pad < lines[k].pad}
Owner(lines, k) ==
    CHOOSE i \in Above(lines, k) : \A h \in Above(lines, k) : h <= i

\* The recursion of PathOf, up to j.
PathBody(lines, path, k) ==
    IF Above(lines, k) = {} THEN <<>>
    ELSE Append(path[Owner(lines, k)], lines[k].label)
IsPath(lines, path, j) == path = [k \in 1 .. j |-> PathBody(lines, path, k)]

LEMMA OwnerIs ==
    ASSUME NEW lines, NEW k \in Nat, Above(lines, k) # {}
    PROVE  /\ Owner(lines, k) \in Above(lines, k)
           /\ \A h \in Above(lines, k) : h <= Owner(lines, k)
  <1> DEFINE T == {n \in Nat : k - n \in Above(lines, k)}
  <1>1. \A i \in Above(lines, k) : i \in 1 .. k - 1
    BY DEF Above
  <1>2. T # {}
    <2>1. PICK i \in Above(lines, k) : TRUE
      OBVIOUS
    <2>2. k - i \in Nat /\ k - (k - i) = i
      BY <1>1, <2>1
    <2> QED
      BY <2>1, <2>2
  <1>3. PICK n \in T : \A m \in T : n <= m
    <2>1. T \in SUBSET Nat
      OBVIOUS
    <2> HIDE DEF T
    <2> QED
      BY <1>2, <2>1, Nats!LeastNat
  <1>4. \A h \in Above(lines, k) : h <= k - n
    <2> TAKE h \in Above(lines, k)
    <2>1. h \in 1 .. k - 1 /\ k - h \in Nat /\ k - (k - h) = h
      BY <1>1
    <2>2. k - h \in T
      BY <2>1
    <2>3. n <= k - h /\ n \in Nat
      BY <1>3, <2>2
    <2> QED
      BY <2>1, <2>3
  <1>5. k - n \in Above(lines, k)
    BY <1>3
  <1> QED
    BY <1>4, <1>5 DEF Owner

LEMMA OwnerBefore ==
    \A lines : \A k \in Nat : Above(lines, k) # {} => Owner(lines, k) \in 1 .. k - 1
  BY OwnerIs DEF Above

LEMMA PathExists == \A lines : \A j \in Nat : \E path : IsPath(lines, path, j)
  <1> SUFFICES ASSUME NEW lines PROVE \A j \in Nat : \E path : IsPath(lines, path, j)
    OBVIOUS
  <1> DEFINE T == {j \in Nat : \E path : IsPath(lines, path, j)}
  <1>1. 0 \in T
    <2>1. IsPath(lines, <<>>, 0)
      BY DEF IsPath
    <2> QED
      BY <2>1
  <1>2. ASSUME NEW j \in Nat, NEW g, IsPath(lines, g, j) PROVE \E h : IsPath(lines, h, j + 1)
    <2> DEFINE h == [i \in 1 .. j + 1 |-> IF i = j + 1 THEN PathBody(lines, g, i) ELSE g[i]]
    <2>1. /\ h[j + 1] = PathBody(lines, g, j + 1)
          /\ \A i \in 1 .. j : h[i] = g[i]
      BY <1>2
    <2>2. h = [i \in 1 .. j + 1 |-> h[i]]
      OBVIOUS
    <2>3. \A i \in 1 .. j : g[i] = PathBody(lines, g, i)
      BY <1>2 DEF IsPath
    <2> HIDE DEF h
    <2>4. ASSUME NEW i \in 1 .. j + 1 PROVE h[i] = PathBody(lines, h, i)
      <3>1. Above(lines, i) = {} \/ Owner(lines, i) \in 1 .. j
        <4>1. i \in Nat
          OBVIOUS
        <4>2. Above(lines, i) = {} \/ Owner(lines, i) \in 1 .. i - 1
          BY <4>1, OwnerBefore
        <4> QED
          BY <4>2
      <3>2. PathBody(lines, h, i) = PathBody(lines, g, i)
        BY <2>1, <3>1 DEF PathBody
      <3>3. i \in 1 .. j \/ i = j + 1
        BY <1>2
      <3> QED
        BY <2>1, <2>3, <3>2, <3>3
    <2>5. IsPath(lines, h, j + 1)
      BY <2>2, <2>4 DEF IsPath
    <2> QED
      BY <2>5
  <1>3. ASSUME NEW j \in T PROVE j + 1 \in T
    <2>1. j \in Nat /\ \E g : IsPath(lines, g, j)
      OBVIOUS
    <2>2. \E h : IsPath(lines, h, j + 1)
      BY <1>2, <2>1
    <2> QED
      BY <2>1, <2>2
  <1>4. T \in SUBSET Nat
    OBVIOUS
  <1>5. T = Nat
    <2> HIDE DEF T
    <2> QED
      BY <1>1, <1>3, <1>4, Nats!AllNat
  <1> QED
    BY <1>5

\* Two of them agree where both are defined.
LEMMA PathSame ==
    ASSUME NEW lines, NEW a \in Nat, NEW b \in Nat, NEW f, NEW g,
           IsPath(lines, f, a), IsPath(lines, g, b)
    PROVE  \A i \in 1 .. a : i <= b => f[i] = g[i]
  <1> DEFINE T == {k \in Nat : \A i \in 1 .. k : i <= a /\ i <= b => f[i] = g[i]}
  <1>1. 0 \in T
    OBVIOUS
  <1>2. ASSUME NEW k \in T PROVE k + 1 \in T
    <2>1. k \in Nat /\ k + 1 \in Nat /\ \A i \in 1 .. k : i <= a /\ i <= b => f[i] = g[i]
      OBVIOUS
    <2>2. ASSUME k + 1 <= a, k + 1 <= b PROVE f[k + 1] = g[k + 1]
      <3>1. k + 1 \in 1 .. a /\ k + 1 \in 1 .. b
        BY <2>1, <2>2
      <3>2. f[k + 1] = PathBody(lines, f, k + 1) /\ g[k + 1] = PathBody(lines, g, k + 1)
        BY <3>1 DEF IsPath
      <3>3. Above(lines, k + 1) = {} \/ Owner(lines, k + 1) \in 1 .. k
        BY <2>1, OwnerBefore
      <3>4. Above(lines, k + 1) = {} \/ f[Owner(lines, k + 1)] = g[Owner(lines, k + 1)]
        BY <2>1, <2>2, <3>3
      <3> QED
        BY <3>2, <3>4 DEF PathBody
    <2>3. ASSUME NEW i \in 1 .. k + 1, i <= a, i <= b PROVE f[i] = g[i]
      <3>1. i \in 1 .. k \/ i = k + 1
        BY <2>1
      <3> QED
        BY <2>1, <2>2, <2>3, <3>1
    <2> QED
      BY <2>1, <2>3
  <1>3. T \in SUBSET Nat
    OBVIOUS
  <1>4. T = Nat
    <2> HIDE DEF T
    <2> QED
      BY <1>1, <1>2, <1>3, Nats!AllNat
  <1> QED
    BY <1>4

LEMMA PathIs ==
    ASSUME NEW lines, NEW j \in Nat, 1 <= j
    PROVE  PathOf(lines, j) = IF Above(lines, j) = {} THEN <<>>
                              ELSE Append(PathOf(lines, Owner(lines, j)), lines[j].label)
  <1> DEFINE P(k) == CHOOSE path : IsPath(lines, path, k)
  <1>1. \A k \in Nat : IsPath(lines, P(k), k)
    BY PathExists
  <1>2. \A k : PathOf(lines, k) = P(k)[k]
    BY DEF PathOf, IsPath, PathBody, Above, Owner
  <1> HIDE DEF P
  <1>3. P(j)[j] = PathBody(lines, P(j), j)
    <2>1. j \in 1 .. j
      OBVIOUS
    <2> QED
      BY <1>1, <2>1 DEF IsPath
  <1>4. CASE Above(lines, j) = {}
    BY <1>2, <1>3, <1>4 DEF PathBody
  <1>5. CASE Above(lines, j) # {}
    <2>1. PICK i : i = Owner(lines, j)
      OBVIOUS
    <2>2. i \in 1 .. j - 1
      BY <1>5, <2>1, OwnerBefore
    <2>3. i \in Nat /\ i \in 1 .. i /\ i <= j
      BY <2>2
    <2>4. IsPath(lines, P(i), i) /\ IsPath(lines, P(j), j)
      BY <1>1, <2>3
    <2>5. P(i)[i] = P(j)[i]
      BY <2>3, <2>4, PathSame
    <2> QED
      BY <1>2, <1>3, <1>5, <2>1, <2>5 DEF PathBody
  <1> QED
    BY <1>4, <1>5

\* A line padded more than line o + 1, with none in between that is padded less.
LEMMA PathOwned ==
    ASSUME NEW lines, NEW o \in Nat, NEW k \in Nat, o + 1 < k,
           lines[o + 1].pad < lines[k].pad,
           \A h \in o + 2 .. k - 1 : ~(lines[h].pad < lines[k].pad)
    PROVE  PathOf(lines, k) = Append(PathOf(lines, o + 1), lines[k].label)
  <1>1. o + 1 \in Above(lines, k)
    BY DEF Above
  <1>2. \A h \in Above(lines, k) : h <= o + 1
    BY DEF Above
  <1>3. Owner(lines, k) = o + 1
    <2>1. Owner(lines, k) \in Above(lines, k) /\ \A h \in Above(lines, k) : h <= Owner(lines, k)
      BY <1>1, OwnerIs
    <2>2. Owner(lines, k) <= o + 1 /\ o + 1 <= Owner(lines, k)
      BY <1>1, <1>2, <2>1
    <2>3. Owner(lines, k) \in Int
      BY <2>1 DEF Above
    <2> QED
      BY <2>2, <2>3
  <1> QED
    BY <1>1, <1>3, PathIs

\* The lines b of v, described at a level, are those of a text behind line o, but for
\* the padding and the label of the first.
Placed(lines, o, b, v, level) ==
    /\ lines[o + 1].type = v.type /\ lines[o + 1].text = Text(v)
    /\ lines[o + 1].pad \in Nat /\ lines[o + 1].pad < Pad(level)
    /\ \A h \in 2 .. Len(b) : lines[o + h] = b[h]

\* Then so are those of its element i behind line next, and its path ends in its label.
ElementAt(n, v, level, lines, o, i, next) ==
    /\ Placed(lines, next, Describe[n][v.list[i].val][LevelBelow(level)],
              v.list[i].val, LevelBelow(level))
    /\ PathOf(lines, next + 1) = Append(PathOf(lines, o + 1), Label(v.list[i], i))

LEMMA ElementPlaced ==
    ASSUME NEW n \in Nat, NEW v \in Values[n + 1], NEW level \in Nat, NEW b, NEW off,
           Nested(n, v, level, b, off), Lined(b, v, level),
           NEW lines, NEW o \in Nat, Placed(lines, o, b, v, level),
           NEW i \in 1 .. Len(v.list), NEW next, next = o + 1 + off[i - 1]
    PROVE  next \in Nat /\ ElementAt(n, v, level, lines, o, i, next)
  <1> DEFINE e == v.list[i]
             below == Describe[n][e.val][LevelBelow(level)]
  <1>1. Len(v.list) \in Nat /\ i - 1 \in 0 .. Len(v.list) /\ e.val \in Values[n]
    <2>1. ListIn(v.list, Values[n])
      BY ValueFacts
    <2>2. Len(v.list) \in Nat /\ e.val \in Values[n]
      BY <2>1 DEF ListIn
    <2>3. i - 1 \in 0 .. Len(v.list)
      BY <2>2
    <2> QED
      BY <2>2, <2>3
  <1>2. PICK p \in Nat : p = off[i - 1]
    BY <1>1 DEF Nested
  <1>3. Len(below) \in Nat /\ 1 <= Len(below)
    <2>1. LevelBelow(level) \in Nat
      BY PadFacts
    <2> QED
      BY <1>1, <2>1, DescribeLined DEF AllLined, Lined
  <1>4. /\ b[1 + p + 1] = EntryLine(e, i, level)
        /\ \A h \in 2 .. Len(below) : b[1 + p + h] = below[h]
        /\ \A h \in 1 .. Len(below) : 1 + p + h \in 2 .. Len(b)
    BY <1>2 DEF Nested
  <1>5. /\ lines[o + 1].pad \in Nat /\ lines[o + 1].pad < Pad(level)
        /\ \A h \in 2 .. Len(b) : lines[o + h] = b[h]
    BY DEF Placed
  <1>6. \A h \in 2 .. Len(b) : b[h].pad \in Nat /\ Pad(level) <= b[h].pad
    BY DEF Lined
  <1>7. /\ Pad(level) \in Nat /\ Pad(LevelBelow(level)) \in Nat
        /\ Pad(level) < Pad(LevelBelow(level))
    BY PadFacts
  <1>8. next \in Nat /\ next = o + 1 + p
    BY <1>2
  <1> HIDE DEF e, below
  <1>9. ASSUME NEW h \in 1 .. Len(below) PROVE lines[next + h] = b[1 + p + h]
    <2>1. 1 + p + h \in 2 .. Len(b)
      BY <1>4
    <2>2. next + h = o + (1 + p + h)
      <3>1. p \in Nat /\ h \in Int
        BY <1>2, <1>3
      <3> QED
        BY <1>8, <3>1
    <2> QED
      BY <1>5, <2>1, <2>2
  <1>10. lines[next + 1] = EntryLine(e, i, level)
    BY <1>3, <1>4, <1>9
  <1>11. /\ lines[next + 1].pad = Pad(level) /\ lines[next + 1].label = Label(e, i)
         /\ lines[next + 1].type = e.val.type /\ lines[next + 1].text = Text(e.val)
    BY <1>10 DEF EntryLine, Line
  <1>12. \A h \in 2 .. Len(below) : lines[next + h] = below[h]
    BY <1>3, <1>4, <1>9
  <1>13. Placed(lines, next, below, e.val, LevelBelow(level))
    BY <1>7, <1>11, <1>12 DEF Placed
  <1>14. PathOf(lines, next + 1) = Append(PathOf(lines, o + 1), Label(e, i))
    <2>1. PICK k \in Nat : k = next + 1
      BY <1>8
    <2>2. o + 1 < k /\ lines[o + 1].pad < lines[k].pad /\ lines[k].label = Label(e, i)
      <3>1. o + 1 < k
        BY <1>2, <1>8, <2>1
      <3>2. lines[k].pad = Pad(level) /\ lines[k].label = Label(e, i)
        BY <1>11, <2>1
      <3> QED
        BY <1>5, <3>1, <3>2
    <2>3. ASSUME NEW h \in o + 2 .. k - 1 PROVE ~(lines[h].pad < lines[k].pad)
      <3>1. 1 + p + 1 \in 2 .. Len(b)
        BY <1>3, <1>4
      <3>2. Len(b) \in Nat
        BY DEF Lined
      <3>3. h - o \in 2 .. Len(b) /\ h = o + (h - o)
        <4>1. k = o + 1 + p + 1 /\ p \in Nat /\ h \in Int
          BY <1>2, <1>8, <2>1
        <4>2. 1 + p + 1 <= Len(b)
          BY <3>1, <3>2, <4>1
        <4> QED
          BY <3>2, <4>1, <4>2
      <3>4. lines[h] = b[h - o]
        BY <1>5, <3>3
      <3>5. lines[h].pad \in Nat /\ Pad(level) <= lines[h].pad
        BY <1>6, <3>3, <3>4
      <3> QED
        BY <1>7, <1>11, <2>1, <3>5
    <2>4. PathOf(lines, k) = Append(PathOf(lines, o + 1), lines[k].label)
      BY <2>2, <2>3, PathOwned
    <2> QED
      BY <2>1, <2>2, <2>4
  <1> QED
    BY <1>8, <1>13, <1>14 DEF ElementAt, e, below

-----------------------------------------------------------------------------
(* The outline *)

OutlineOf == AtDepth(Values, outline_with)
OutlineStep(n, f) == [v \in Values[n] |-> outline_with(v, f)]
OutlineRec == INSTANCE NatFacts WITH Base <- <<>>, Step <- OutlineStep

LEMMA OutlineAt ==
    \A n \in Nat : \A v \in Values[n + 1] :
       OutlineOf[n + 1][v] = outline_with(v, OutlineOf[n])
  <1>1. OutlineOf = OutlineRec!Rec
    BY DEF OutlineOf, AtDepth, OutlineRec!Rec, OutlineStep
  <1>2. \A n \in Nat : OutlineOf[n] = IF n = 0 THEN <<>> ELSE OutlineStep(n, OutlineOf[n - 1])
    BY <1>1, OutlineRec!Unfold
  <1>3. \A n \in Nat : OutlineOf[n + 1] = OutlineStep(n + 1, OutlineOf[n])
    BY <1>2
  <1> QED
    BY <1>3 DEF OutlineStep

\* What there is to find in v, the way to which is path.
Found(n, v, path) ==
    {<<path, v.type, Text(v)>>} \cup
       UNION {OutlineOf[n][v.list[i].val][Append(path, Label(v.list[i], i))] :
                 i \in 1 .. Len(v.list)}

LEMMA OutlineIs ==
    ASSUME NEW n \in Nat, NEW v \in Values[n + 1], NEW path \in Seq(Seq(Int))
    PROVE  OutlineOf[n + 1][v][path] = Found(n, v, path)
  <1>1. DOMAIN v.list = 1 .. Len(v.list)
    BY ValueFacts DEF ListIn
  <1>2. OutlineOf[n + 1][v] = outline_with(v, OutlineOf[n])
    BY OutlineAt
  <1>3. outline_with(v, OutlineOf[n])[path]
           = {<<path, v.type, Text(v)>>} \cup
               UNION {OutlineOf[n][v.list[i].val][Append(path, Label(v.list[i], i))] :
                         i \in DOMAIN v.list}
    BY DEF outline_with
  <1> QED
    BY <1>1, <1>2, <1>3 DEF Found

\* What m lines behind line o tell.
ReadOff(lines, o, m) ==
    {<<PathOf(lines, o + h), lines[o + h].type, lines[o + h].text>> : h \in 1 .. m}

\* The lines of a value tell its outline, wherever they are.
ReadWell(n, v, level, lines, o) ==
    LET b == Describe[n][v][level]
    IN  Placed(lines, o, b, v, level) /\ PathOf(lines, o + 1) \in Seq(Seq(Int))
          => ReadOff(lines, o, Len(b)) = OutlineOf[n][v][PathOf(lines, o + 1)]

AllReadWell(n) ==
    \A v \in Values[n] : \A level \in Nat : \A lines : \A o \in Nat :
       ReadWell(n, v, level, lines, o)

LEMMA ReadStep ==
    ASSUME NEW n \in Nat, AllReadWell(n), NEW v \in Values[n + 1], NEW level \in Nat,
           NEW lines, NEW o \in Nat
    PROVE  ReadWell(n + 1, v, level, lines, o)
  <1>1. PICK b, path : b = Describe[n + 1][v][level] /\ path = PathOf(lines, o + 1)
    OBVIOUS
  <1> DEFINE Below(i) == Describe[n][v.list[i].val][LevelBelow(level)]
             Part(i) == OutlineOf[n][v.list[i].val][Append(path, Label(v.list[i], i))]
  <1> SUFFICES ASSUME Placed(lines, o, b, v, level), path \in Seq(Seq(Int))
               PROVE  ReadOff(lines, o, Len(b)) = OutlineOf[n + 1][v][path]
    BY <1>1 DEF ReadWell
  <1>2. OutlineOf[n + 1][v][path]
           = {<<path, v.type, Text(v)>>} \cup UNION {Part(i) : i \in 1 .. Len(v.list)}
    <2>1. OutlineOf[n + 1][v][path] = Found(n, v, path)
      BY OutlineIs
    <2>2. Found(n, v, path)
             = {<<path, v.type, Text(v)>>} \cup UNION {Part(i) : i \in 1 .. Len(v.list)}
      BY DEF Found
    <2> QED
      BY <2>1, <2>2
  <1>3. LevelBelow(level) \in Nat /\ n + 1 \in Nat
    BY PadFacts
  <1>4. Lined(b, v, level)
    BY <1>1, <1>3, DescribeLined DEF AllLined
  <1>5. PICK off : Nested(n, v, level, b, off)
    <2>1. AllLined(n, LevelBelow(level))
      BY <1>3, DescribeLined
    <2> QED
      BY <1>1, <2>1, DescribeNested
  <1>6. ASSUME NEW i \in 1 .. Len(v.list)
        PROVE  /\ off[i - 1] \in Nat
               /\ Part(i) = ReadOff(lines, o + 1 + off[i - 1], Len(Below(i)))
    <2>1. PICK next : next = o + 1 + off[i - 1]
      OBVIOUS
    <2>2. next \in Nat /\ ElementAt(n, v, level, lines, o, i, next)
      BY <1>4, <1>5, <2>1, ElementPlaced
    <2>3. v.list[i].val \in Values[n] /\ Len(v.list) \in Nat
      BY ValueFacts DEF ListIn
    <2>4. Append(path, Label(v.list[i], i)) \in Seq(Seq(Int))
      BY LabelIs, AppendProperties
    <2>5. ReadWell(n, v.list[i].val, LevelBelow(level), lines, next)
      BY <1>3, <2>2, <2>3 DEF AllReadWell
    <2>6. Part(i) = ReadOff(lines, next, Len(Below(i)))
      BY <1>1, <2>2, <2>4, <2>5 DEF ElementAt, ReadWell
    <2>7. off[i - 1] \in Nat
      <3>1. i - 1 \in 0 .. Len(v.list)
        BY <2>3
      <3> QED
        BY <1>5, <3>1 DEF Nested
    <2> QED
      BY <2>1, <2>6, <2>7
  <1>7. Len(b) \in Nat /\ 1 <= Len(b)
    BY <1>4 DEF Lined
  <1>8. lines[o + 1].type = v.type /\ lines[o + 1].text = Text(v)
    BY DEF Placed
  <1> HIDE DEF Below, Part
  <1>9. <<path, v.type, Text(v)>> \in ReadOff(lines, o, Len(b))
    <2>1. 1 \in 1 .. Len(b)
      BY <1>7
    <2> QED
      BY <1>1, <1>8, <2>1 DEF ReadOff
  <1>10. ASSUME NEW i \in 1 .. Len(v.list), NEW r \in Part(i)
         PROVE  r \in ReadOff(lines, o, Len(b))
    <2>1. r \in ReadOff(lines, o + 1 + off[i - 1], Len(Below(i)))
      BY <1>6
    <2>2. PICK h \in 1 .. Len(Below(i)) :
             r = <<PathOf(lines, o + 1 + off[i - 1] + h), lines[o + 1 + off[i - 1] + h].type,
                   lines[o + 1 + off[i - 1] + h].text>>
      BY <2>1 DEF ReadOff
    <2>3. 1 + off[i - 1] + h \in 2 .. Len(b)
      BY <1>5, <2>2 DEF Nested, Below
    <2>4. PICK j \in 1 .. Len(b) : j = 1 + off[i - 1] + h
      BY <1>7, <2>3
    <2>5. o + 1 + off[i - 1] + h = o + j
      <3>1. PICK p \in Nat : p = off[i - 1]
        BY <1>6
      <3>2. h \in Int /\ j = 1 + p + h
        BY <2>2, <2>4, <3>1
      <3>3. o + 1 + p + h = o + j
        BY <3>2
      <3> QED
        BY <3>1, <3>3
    <2> QED
      BY <2>2, <2>4, <2>5 DEF ReadOff
  <1>11. ASSUME NEW r \in ReadOff(lines, o, Len(b))
         PROVE  r = <<path, v.type, Text(v)>> \/ \E i \in 1 .. Len(v.list) : r \in Part(i)
    <2>1. PICK j \in 1 .. Len(b) :
             r = <<PathOf(lines, o + j), lines[o + j].type, lines[o + j].text>>
      BY DEF ReadOff
    <2>2. CASE j = 1
      BY <1>1, <1>8, <2>1, <2>2
    <2>3. CASE j \in 2 .. Len(b)
      <3>1. PICK i \in 1 .. Len(v.list) : \E h \in 1 .. Len(Below(i)) : j = 1 + off[i - 1] + h
        BY <1>5, <2>3 DEF Nested, Below
      <3>2. PICK h \in 1 .. Len(Below(i)) : j = 1 + off[i - 1] + h
        BY <3>1
      <3>3. o + 1 + off[i - 1] + h = o + j
        <4>1. PICK p \in Nat : p = off[i - 1]
          BY <1>6, <3>1
        <4>2. h \in Int /\ j = 1 + p + h
          BY <3>2, <4>1
        <4>3. o + 1 + p + h = o + j
          BY <4>2
        <4> QED
          BY <4>1, <4>3
      <3>4. r \in ReadOff(lines, o + 1 + off[i - 1], Len(Below(i)))
        BY <2>1, <3>2, <3>3 DEF ReadOff
      <3> QED
        BY <1>6, <3>1, <3>4
    <2>4. j = 1 \/ j \in 2 .. Len(b)
      BY <1>7, <2>1
    <2> QED
      BY <2>2, <2>3, <2>4
  <1> QED
    BY <1>2, <1>9, <1>10, <1>11

LEMMA ReadIs == \A n \in Nat : AllReadWell(n)
  <1> DEFINE T == {n \in Nat : AllReadWell(n)}
  <1>1. 0 \in T
    BY ValuesAt DEF AllReadWell
  <1>2. ASSUME NEW n \in T PROVE n + 1 \in T
    <2>1. n \in Nat /\ n + 1 \in Nat /\ AllReadWell(n)
      OBVIOUS
    <2>2. AllReadWell(n + 1)
      BY <2>1, ReadStep DEF AllReadWell
    <2> QED
      BY <2>1, <2>2
  <1>3. T \in SUBSET Nat
    OBVIOUS
  <1>4. T = Nat
    <2> HIDE DEF T
    <2> QED
      BY <1>1, <1>2, <1>3, Nats!AllNat
  <1> QED
    BY <1>4

\* The path of an entry is a sequence of labels.
LEMMA PathTyped ==
    ASSUME NEW lines, NEW m \in Nat, \A j \in 1 .. m : lines[j].label \in Seq(Int)
    PROVE  \A j \in 1 .. m : PathOf(lines, j) \in Seq(Seq(Int))
  <1> DEFINE T == {k \in Nat : \A j \in 1 .. k : j <= m => PathOf(lines, j) \in Seq(Seq(Int))}
  <1>1. 0 \in T /\ T \in SUBSET Nat
    OBVIOUS
  <1>2. ASSUME NEW k \in T PROVE k + 1 \in T
    <2>1. ASSUME k + 1 <= m PROVE PathOf(lines, k + 1) \in Seq(Seq(Int))
      <3>1. k + 1 \in Nat /\ 1 <= k + 1 /\ k + 1 \in 1 .. m
        BY <2>1
      <3>2. PathOf(lines, k + 1) = IF Above(lines, k + 1) = {} THEN <<>>
               ELSE Append(PathOf(lines, Owner(lines, k + 1)), lines[k + 1].label)
        BY <3>1, PathIs
      <3>3. CASE Above(lines, k + 1) = {}
        BY <3>2, <3>3, EmptySeq
      <3>4. CASE Above(lines, k + 1) # {}
        <4>1. PICK i : i = Owner(lines, k + 1)
          OBVIOUS
        <4>2. i \in 1 .. (k + 1) - 1
          BY <3>1, <3>4, <4>1, OwnerBefore
        <4>3. i \in 1 .. k /\ i <= m
          BY <2>1, <4>2
        <4>4. PathOf(lines, i) \in Seq(Seq(Int)) /\ lines[k + 1].label \in Seq(Int)
          BY <3>1, <4>3
        <4>5. Append(PathOf(lines, i), lines[k + 1].label) \in Seq(Seq(Int))
          BY <4>4, AppendProperties
        <4> QED
          BY <3>2, <3>4, <4>1, <4>5
      <3> QED
        BY <3>3, <3>4
    <2>2. \A j \in 1 .. k + 1 : j \in 1 .. k \/ j = k + 1
      OBVIOUS
    <2>3. k + 1 \in Nat
      OBVIOUS
    <2> QED
      BY <2>1, <2>2, <2>3
  <1>3. T = Nat
    <2> HIDE DEF T
    <2> QED
      BY <1>1, <1>2, Nats!AllNat
  <1>4. ASSUME NEW j \in 1 .. m PROVE PathOf(lines, j) \in Seq(Seq(Int))
    <2>1. j \in T /\ j \in 1 .. j /\ j <= m
      <3> HIDE DEF T
      <3> QED
        BY <1>3
    <2> QED
      BY <2>1
  <1> QED
    BY <1>4

\* Entries without a newline are printed as they are.
LEMMA PrintedSame ==
    ASSUME NEW m \in Nat, NEW lines \in Seq(Lines), Len(lines) = m,
           \A j \in 1 .. m : ~Breaks(lines[j])
    PROVE  Printed(lines) = lines
  <1> DEFINE E == [j \in 1 .. m |-> <<lines[j]>>]
  <1>1. DOMAIN lines = 1 .. m /\ \A j \in 1 .. m : lines[j] \in Lines
    BY LenProperties
  <1>2. \A j \in 1 .. m : LinesOf(lines[j]) = <<lines[j]>>
    BY DEF LinesOf
  <1>3. Printed(lines) = FlattenSeq(E)
    BY <1>1, <1>2 DEF Printed
  <1>4. E \in [1 .. m -> Seq(Lines)]
    BY <1>1
  <1>5. \A j \in 1 .. m : Len(E[j]) = 1 /\ E[j][1] = lines[j]
    BY <1>1
  <1> HIDE DEF E
  <1>6. PICK F : F = FlattenSeq(E)
    OBVIOUS
  <1>7. PICK off : F \in Seq(Lines) /\ Layout(E, m, off, F)
    BY <1>4, <1>6, FlattenIs DEF LaidOut
  <1>8. /\ off \in [0 .. m -> Nat] /\ off[0] = 0
        /\ \A j \in 1 .. m : off[j] = off[j - 1] + 1
        /\ Len(F) = off[m]
        /\ \A j \in 1 .. m : F[off[j - 1] + 1] = lines[j]
    <2>1. /\ off \in [0 .. m -> Nat] /\ off[0] = 0
          /\ \A j \in 1 .. m : off[j] = off[j - 1] + Len(E[j])
          /\ Len(F) = off[m]
          /\ \A j \in 1 .. m : \A h \in 1 .. Len(E[j]) : F[off[j - 1] + h] = E[j][h]
      BY <1>7 DEF Layout
    <2>2. ASSUME NEW j \in 1 .. m
          PROVE  off[j] = off[j - 1] + 1 /\ F[off[j - 1] + 1] = lines[j]
      <3>1. Len(E[j]) = 1 /\ E[j][1] = lines[j] /\ 1 \in 1 .. 1
        BY <1>5
      <3>2. off[j] = off[j - 1] + Len(E[j])
        BY <2>1
      <3>3. F[off[j - 1] + 1] = E[j][1]
        BY <2>1, <3>1
      <3> QED
        BY <3>1, <3>2, <3>3
    <2> QED
      BY <2>1, <2>2
  <1>9. \A k \in 0 .. m : off[k] = k
    <2> DEFINE U == {k \in Nat : k <= m => off[k] = k}
    <2>1. 0 \in U /\ U \in SUBSET Nat
      BY <1>8
    <2>2. ASSUME NEW k \in U PROVE k + 1 \in U
      <3>1. ASSUME k + 1 <= m PROVE off[k + 1] = k + 1
        <4>1. k + 1 \in 1 .. m /\ (k + 1) - 1 = k /\ off[k] = k
          BY <3>1
        <4> QED
          BY <1>8, <4>1
      <3> QED
        BY <3>1
    <2>3. U = Nat
      <3> HIDE DEF U
      <3> QED
        BY <2>1, <2>2, Nats!AllNat
    <2>4. ASSUME NEW k \in 0 .. m PROVE off[k] = k
      <3>1. k \in U /\ k <= m
        <4> HIDE DEF U
        <4> QED
          BY <2>3
      <3> QED
        BY <3>1
    <2> QED
      BY <2>4
  <1>10. Len(F) = m
    BY <1>8, <1>9
  <1>11. ASSUME NEW j \in 1 .. m PROVE F[j] = lines[j]
    <2>1. j - 1 \in 0 .. m /\ (j - 1) + 1 = j
      OBVIOUS
    <2> QED
      BY <1>8, <1>9, <2>1
  <1> QED
    BY <1>3, <1>6, <1>7, <1>10, <1>11, SeqEqual

\* A description shows the whole structure, at every depth
\* (xpc_copy_description_level): all lines of the elements of a container are
\* padded more than its own, and none less than their first ones, so that the last
\* line padded less than the first line of an element is that of its container.
THEOREM DescriptionShowsStructureCorrect == Spec => []DescriptionShowsStructure
  <1>1. ASSUME TypeOK PROVE DescriptionShowsStructure
    <2>1. x \in Values[MaxDepth] /\ MaxDepth \in Nat /\ 0 \in Nat
      BY <1>1, DepthAssumption DEF TypeOK
    <2>2. PICK lines : lines = xpc_copy_description_level(x, 0)
      OBVIOUS
    <2>3. lines = Describe[MaxDepth][x][0]
      BY <2>2 DEF xpc_copy_description_level, Describe
    <2>4. Lined(lines, x, 0)
      BY <2>1, <2>3, DescribeLined DEF AllLined
    <2>5. /\ lines[1] = TopLine(x) /\ Len(lines) \in Nat /\ 1 <= Len(lines)
          /\ DOMAIN lines = 1 .. Len(lines)
      BY <2>4, LenProperties DEF Lined
    <2>6. /\ lines[1].pad = 0 /\ lines[1].type = x.type /\ lines[1].text = Text(x)
      BY <2>5 DEF TopLine, Line
    <2>7. 0 < Pad(0)
      BY PadFacts
    <2>8. PICK o \in Nat : o = 0
      OBVIOUS
    <2>9. Placed(lines, o, lines, x, 0)
      <3>1. o + 1 = 1 /\ \A h \in 2 .. Len(lines) : o + h = h
        BY <2>8
      <3> QED
        BY <2>6, <2>7, <3>1 DEF Placed
    <2>10. PathOf(lines, o + 1) = <<>>
      <3>1. Above(lines, 1) = {}
        BY DEF Above
      <3>2. PathOf(lines, 1) = <<>>
        BY <3>1, PathIs
      <3> QED
        BY <2>8, <3>2
    <2>11. <<>> \in Seq(Seq(Int))
      BY EmptySeq
    <2>12. ReadWell(MaxDepth, x, 0, lines, o)
      BY <2>1, <2>8, ReadIs DEF AllReadWell
    <2>13. ReadOff(lines, o, Len(lines)) = OutlineOf[MaxDepth][x][<<>>]
      BY <2>3, <2>9, <2>10, <2>11, <2>12 DEF ReadWell
    <2>14. ReadOff(lines, o, Len(lines))
              = {<<PathOf(lines, j), lines[j].type, lines[j].text>> : j \in DOMAIN lines}
      <3>1. \A h \in 1 .. Len(lines) : o + h = h
        BY <2>8
      <3> QED
        BY <2>5, <3>1 DEF ReadOff
    <2>15. Outline(x) = OutlineOf[MaxDepth][x][<<>>]
      BY DEF Outline, OutlineOf
    <2>16. Outline(x)
              = {<<PathOf(lines, j), lines[j].type, lines[j].text>> : j \in DOMAIN lines}
      BY <2>13, <2>14, <2>15
    <2>17. ASSUME Legible(Outline(x)), NEW j \in 1 .. Len(lines) PROVE ~Breaks(lines[j])
      <3>1. <<PathOf(lines, j), lines[j].type, lines[j].text>> \in Outline(x)
        BY <2>5, <2>16
      <3>2. /\ lines[j].type = "string" => Newline \notin Range(lines[j].text)
            /\ \A k \in DOMAIN PathOf(lines, j) :
                  ByKey(PathOf(lines, j)[k]) => Newline \notin Range(PathOf(lines, j)[k])
        BY <2>17, <3>1 DEF Legible
      <3>3. ByKey(lines[j].label) => Newline \notin Range(lines[j].label)
        <4>1. CASE j = 1
          BY <2>5, <4>1 DEF TopLine, Line, ByKey
        <4>2. CASE j # 1
          <5>1. 1 \in Above(lines, j)
            <6>1. j \in 2 .. Len(lines)
              BY <2>5, <4>2
            <6>2. lines[j].pad \in Nat /\ Pad(0) <= lines[j].pad /\ Pad(0) \in Nat
              BY <2>4, <6>1, PadFacts DEF Lined
            <6>3. 1 \in 1 .. j - 1 /\ lines[1].pad < lines[j].pad
              BY <2>6, <2>7, <6>1, <6>2
            <6> QED
              BY <6>3 DEF Above
          <5>2. PICK path \in Seq(Seq(Int)) : PathOf(lines, j) = Append(path, lines[j].label)
            <6>1. j \in Nat /\ 1 <= j
              BY <2>5
            <6>2. PICK i : i = Owner(lines, j)
              OBVIOUS
            <6>3. i \in 1 .. Len(lines)
              <7>1. i \in 1 .. j - 1
                BY <5>1, <6>1, <6>2, OwnerBefore
              <7> QED
                BY <2>5, <7>1
            <6>4. \A h \in 1 .. Len(lines) : lines[h].label \in Seq(Int)
              <7>1. lines \in Seq(Lines)
                BY <2>4 DEF Lined
              <7>2. \A h \in 1 .. Len(lines) : lines[h] \in Lines
                BY <7>1, LenProperties
              <7> QED
                BY <7>2 DEF Lines
            <6>5. PathOf(lines, i) \in Seq(Seq(Int))
              BY <2>5, <6>3, <6>4, PathTyped
            <6>6. PathOf(lines, j) = Append(PathOf(lines, i), lines[j].label)
              BY <5>1, <6>1, <6>2, PathIs
            <6> QED
              BY <6>5, <6>6
          <5>3. /\ Len(path) + 1 \in DOMAIN PathOf(lines, j)
                /\ PathOf(lines, j)[Len(path) + 1] = lines[j].label
            BY <5>2
          <5> QED
            BY <3>2, <5>3
        <4> QED
          BY <4>1, <4>2
      <3> QED
        BY <3>2, <3>3 DEF Breaks
    <2>18. ASSUME Legible(Outline(x)) PROVE xpc_copy_description(x) = lines
      <3>1. Printed(lines) = lines
        BY <2>4, <2>5, <2>17, <2>18, PrintedSame DEF Lined
      <3> QED
        BY <2>2, <3>1 DEF xpc_copy_description
    <2> QED
      BY <2>16, <2>18 DEF DescriptionShowsStructure
  <1> QED
    BY <1>1, TypeCorrect, PTL
=============================================================================
