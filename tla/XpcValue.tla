------------------------------ MODULE XpcValue ------------------------------
(***************************************************************************)
(* XPC objects as values: what xpc_copy, xpc_hash, the typed getters,      *)
(* xpc_copy_description and the D-Bus serialisation of libOpenXPC compute  *)
(* (xpc_type.c, xpc_array.c, xpc_dictionary.c, xpc_misc.c, xpc_dbus.c).    *)
(*                                                                         *)
(* A value has a type, the bytes of its union xo_u (or, for a string or    *)
(* data, what it points to) and, for a container, its pairs or elements    *)
(* in order.  NULL is the null pointer, Crash stands for a call that uses  *)
(* it.  A 64-bit word is two digits of HalfBits bits, low digit first: a   *)
(* bool or a descriptor fills the low one and leaves in the other what was *)
(* on the stack.  The functions that call themselves for the elements of a *)
(* container are defined for values nested at most n deep, for every n.    *)
(***************************************************************************)
EXTENDS Integers, Sequences, SequencesExt

CONSTANTS HalfBits,   \* bits in half a word
          Junk,       \* half a word: what the stack holds where a union is built
          MaxDepth    \* how deep values are nested

Half == 0 .. 2 ^ HalfBits - 1
Byte == 0 .. 255

ASSUME WordAssumption == HalfBits \in Nat \ {0} /\ Junk \in Half
ASSUME DepthAssumption == MaxDepth \in Nat \ {0}

NoName == <<-1>>
NULL == [type |-> "NULL", u |-> <<>>, list |-> <<>>]
Crash == [type |-> "crash", u |-> <<>>, list |-> <<>>]

-----------------------------------------------------------------------------
(* Values, and functions of them *)

Prims ==
    [type : {"null"}, u : {<<0, 0>>}, list : {<<>>}]
    \cup [type : {"bool"}, u : (0 .. 1) \X Half, list : {<<>>}]
    \cup [type : {"int64", "uint64", "double", "date", "fd"}, u : Half \X Half,
          list : {<<>>}]
    \cup [type : {"string", "data"}, u : Seq(Byte), list : {<<>>}]

\* The keys of a dictionary are distinct.
Boxes(S) ==
    [type : {"array"}, u : {<<>>}, list : Seq([key : {NoName}, val : S])]
    \cup {d \in [type : {"dictionary"}, u : {<<>>},
                 list : Seq([key : Seq(Byte), val : S])] :
             \A i, j \in DOMAIN d.list : d.list[i].key = d.list[j].key => i = j}

\* Values[n] has what is nested at most n deep.
Values[n \in Nat] == IF n = 0 THEN {} ELSE Prims \cup Boxes(Values[n - 1])

\* The function on Sets[n], for each n, whose body is Level; Level is given the
\* function itself, for its recursive calls.
AtDepth(Sets, Level(_, _)) ==
    LET f[n \in Nat] == IF n = 0 THEN <<>>
                        ELSE [v \in Sets[n] |-> Level(v, f[n - 1])]
    IN  f

\* Every object in v, v included.
parts_with(v, parts) == {v} \cup UNION {parts[v.list[i].val] : i \in DOMAIN v.list}
Parts(v) == AtDepth(Values, parts_with)[MaxDepth][v]

\* xpc_dictionary_apply_fun and xpc_array_apply_fun, when no applier stops them:
\* the applier is called for each element in order, with what it made of udata.
xpc_apply_fun(list, applier(_, _), udata) ==
    LET after[i \in 0 .. Len(list)] == IF i = 0 THEN udata
                                       ELSE applier(after[i - 1], list[i])
    IN  after[Len(list)]

-----------------------------------------------------------------------------
(* Creation *)

_xpc_prim_create(type, u) == [type |-> type, u |-> u, list |-> <<>>]

xpc_null_create == _xpc_prim_create("null", <<0, 0>>)
xpc_bool_create(b) == _xpc_prim_create("bool", <<b, Junk>>)
xpc_int64_create(u) == _xpc_prim_create("int64", u)
xpc_uint64_create(u) == _xpc_prim_create("uint64", u)
xpc_double_create(u) == _xpc_prim_create("double", u)
xpc_date_create(u) == _xpc_prim_create("date", u)
xpc_data_create(bytes) == _xpc_prim_create("data", bytes)
xpc_string_create(bytes) == _xpc_prim_create("string", bytes)
\* dup(fd): another number for the same file, which is what the model names.
xpc_fd_create(file) == _xpc_prim_create("fd", <<file, Junk>>)
xpc_dictionary_create == _xpc_prim_create("dictionary", <<>>)
xpc_array_create == _xpc_prim_create("array", <<>>)

\* A container that takes in v with a retain: fatal when v is NULL, or when the
\* call that was to make either of them did not return.
Retaining(d, v, result) == IF d = Crash \/ v \in {NULL, Crash} THEN Crash ELSE result

xpc_dictionary_set_value(d, k, v) ==
    LET hits == {i \in DOMAIN d.list : d.list[i].key = k}
        pair == [key |-> k, val |-> v]
    IN  IF hits = {}
        THEN Retaining(d, v, [d EXCEPT !.list = Append(@, pair)])
        ELSE [d EXCEPT !.list[CHOOSE i \in hits : \A j \in hits : i <= j] = pair]

xpc_array_append_value(a, v) ==
    Retaining(a, v, [a EXCEPT !.list = Append(@, [key |-> NoName, val |-> v])])

-----------------------------------------------------------------------------
(* xpc_copy *)

\* array_copy_cb sets element idx of an array whose xo_size is 0, which
\* xpc_array_set_value refuses; the copy of the element is lost.
array_copy_cb(a, c) == IF c = Crash THEN Crash ELSE a

dict_copy_cb(d, k, c) == xpc_dictionary_set_value(d, k, c)

\* Mutant: a string is not told apart from the types that have no copy.
Copyable_nostring == {"bool", "int64", "uint64", "date", "data"}

\* The types whose copy is made with the same content; endpoints, which only a
\* MACH build creates, are left out.
Copyable == {"bool", "int64", "uint64", "date", "string", "data"}

copy_with(v, copy) ==
    CASE v.type \in Copyable -> _xpc_prim_create(v.type, v.u)
      [] v.type = "dictionary" ->
            xpc_apply_fun(v.list, LAMBDA d, e : dict_copy_cb(d, e.key, copy[e.val]),
                          xpc_dictionary_create)
      [] v.type = "array" ->
            xpc_apply_fun(v.list, LAMBDA a, e : array_copy_cb(a, copy[e.val]),
                          xpc_array_create)
      [] OTHER -> NULL

xpc_copy(v) == AtDepth(Values, copy_with)[MaxDepth][v]

-----------------------------------------------------------------------------
(* xpc_hash.  A hash is the set of the bits that are one. *)

WordMod == 2 ^ (2 * HalfBits)
Word(u) == u[1] + 2 ^ HalfBits * u[2]

Bits(n) == {b \in 0 .. 2 * HalfBits - 1 : (n \div 2 ^ b) % 2 = 1}
Xor(g, h) == (g \ h) \cup (h \ g)

\* From the last byte to the first.
xpc_data_hash(bytes) ==
    Bits(FoldLeft(LAMBDA h, b : (h * 33 + b) % WordMod, 5381 % WordMod, Reverse(bytes)))

\* Mutant: the hash so far is rotated, as hashes of sequences are.
dict_hash_cb_rotated(h, k, vh) ==
    Xor(Xor({(b + 1) % (2 * HalfBits) : b \in h}, xpc_data_hash(k)), vh)

dict_hash_cb(h, k, vh) == Xor(Xor(h, xpc_data_hash(k)), vh)

array_hash_cb(h, vh) == Xor(h, vh)

hash_with(v, hash) ==
    CASE v.type \in {"bool", "int64", "uint64", "date"} -> Bits(Word(v.u))
      [] v.type \in {"string", "data"} -> xpc_data_hash(v.u)
      [] v.type = "dictionary" ->
            xpc_apply_fun(v.list, LAMBDA h, e : dict_hash_cb(h, e.key, hash[e.val]), {})
      [] v.type = "array" ->
            xpc_apply_fun(v.list, LAMBDA h, e : array_hash_cb(h, hash[e.val]), {})
      [] OTHER -> {}

xpc_hash(v) == AtDepth(Values, hash_with)[MaxDepth][v]

-----------------------------------------------------------------------------
(* Serialisation.  A D-Bus value is its signature, its content and, for an *)
(* array, its elements: variants that declare the signature of their body. *)

DictSig == "a{sv}"
ArraySig == "av"

xpc_dbus_type(v) ==
    CASE v.type = "bool" -> "b"
      [] v.type \in {"int64", "date"} -> "x"
      [] v.type = "uint64" -> "t"
      [] v.type = "string" -> "s"
      [] v.type = "data" -> "ay"
      [] v.type = "dictionary" -> DictSig
      [] v.type = "array" -> ArraySig
      [] v.type = "fd" -> "h"
      [] OTHER -> "b"

Basic(sig, val) == [sig |-> sig, val |-> val, elems |-> <<>>]
Array(sig, elems) == [sig |-> sig, val |-> <<>>, elems |-> elems]
Variant(k, sig, body) == [key |-> k, sig |-> sig, val |-> body]

\* libdbus appends bytes only inside a container opened as an array; append_xpc
\* opens none, and the call is refused.
Refused == Basic("refused", <<>>)

\* Mutant: there is no branch for a date, which goes out as false.
append_basic_nodate(v) ==
    CASE v.type = "bool" -> Basic("b", <<v.u[1]>>)
      [] v.type = "int64" -> Basic("x", v.u)
      [] v.type = "uint64" -> Basic("t", v.u)
      [] v.type = "string" -> Basic("s", v.u)
      [] v.type = "data" -> Refused
      [] v.type = "fd" -> Basic("h", <<v.u[1]>>)
      [] OTHER -> Basic("b", <<0>>)

\* The branches of append_xpc for what is not a container: bool and descriptor
\* are read at their own width, every other type goes out as false.
append_basic(v) ==
    CASE v.type = "bool" -> Basic("b", <<v.u[1]>>)
      [] v.type \in {"int64", "date"} -> Basic("x", v.u)
      [] v.type = "uint64" -> Basic("t", v.u)
      [] v.type = "string" -> Basic("s", v.u)
      [] v.type = "data" -> Refused
      [] v.type = "fd" -> Basic("h", <<v.u[1]>>)
      [] OTHER -> Basic("b", <<0>>)

append_with(v, append) ==
    LET elems == [i \in DOMAIN v.list |->
                    Variant(v.list[i].key, xpc_dbus_type(v.list[i].val),
                            append[v.list[i].val])]
    IN  CASE v.type = "dictionary" -> Array(DictSig, elems)
          [] v.type = "array" -> Array(ArraySig, elems)
          [] OTHER -> append_basic(v)

append_xpc(v) == AtDepth(Values, append_with)[MaxDepth][v]

Signatures == {"b", "x", "t", "s", "ay", DictSig, ArraySig, "h"}

\* D-Bus values nested at most n deep.
Wires[n \in Nat] ==
    IF n = 0 THEN {}
    ELSE [sig : Signatures \cup {"refused"}, val : Seq(Nat), elems : {<<>>}]
         \cup [sig : {DictSig, ArraySig}, val : {<<>>},
               elems : Seq([key : Seq(Int), sig : Signatures, val : Wires[n - 1]])]

\* What libdbus can send: each variant holds one value of the type it declares.
wellformed_with(w, wellformed) ==
    /\ w.sig # "refused"
    /\ \A i \in DOMAIN w.elems : /\ w.elems[i].sig = w.elems[i].val.sig
                                 /\ wellformed[w.elems[i].val]

Wellformed(w) == AtDepth(Wires, wellformed_with)[MaxDepth][w]

-----------------------------------------------------------------------------
(* Deserialisation *)

\* Mutant: an integer is read as if it were unsigned.
deserialise_basic_unsigned(w) ==
    CASE w.sig = "b" -> xpc_bool_create(w.val[1])
      [] w.sig \in {"x", "t"} -> xpc_uint64_create(w.val)
      [] w.sig = "s" -> xpc_string_create(w.val)
      [] w.sig = "h" -> xpc_fd_create(w.val[1])
      [] OTHER -> NULL

\* The cases of deserialise_object for what is not a container.  The one for an
\* array of bytes reads through a pointer that was never set; no message of
\* append_xpc gets that far.
deserialise_basic(w) ==
    CASE w.sig = "b" -> xpc_bool_create(w.val[1])
      [] w.sig = "x" -> xpc_int64_create(w.val)
      [] w.sig = "t" -> xpc_uint64_create(w.val)
      [] w.sig = "s" -> xpc_string_create(w.val)
      [] w.sig = "h" -> xpc_fd_create(w.val[1])
      [] OTHER -> NULL

\* deserialise_dict and deserialise_arr go over the elements as the appliers do.
deserialise_with(w, deserialise) ==
    CASE w.sig = DictSig ->
            xpc_apply_fun(w.elems, LAMBDA d, e : xpc_dictionary_set_value(d, e.key,
                                                    deserialise[e.val]),
                          xpc_dictionary_create)
      [] w.sig = ArraySig ->
            xpc_apply_fun(w.elems, LAMBDA a, e : xpc_array_append_value(a,
                                                    deserialise[e.val]),
                          xpc_array_create)
      [] OTHER -> deserialise_basic(w)

deserialise_object(w) == AtDepth(Wires, deserialise_with)[MaxDepth][w]

\* A message sent and received.
Received(v) == deserialise_object(append_xpc(v))

-----------------------------------------------------------------------------
(* The getters.  Each returns its own default for NULL and for an object   *)
(* of another type; xpc_double_get_value does not test for NULL.           *)

NoPointer == <<-1>>
Crashed == <<-2>>

Default(type) ==
    CASE type = "bool" -> <<0>>
      [] type \in {"int64", "uint64", "date", "double"} -> <<0, 0>>
      [] type \in {"string", "data"} -> NoPointer
      [] type = "fd" -> <<-1>>

\* Mutant: a bool is read at the width of the union.
get_value_wide(type, v) ==
    IF v = NULL THEN IF type = "double" THEN Crashed ELSE Default(type)
    ELSE IF v.type # type THEN Default(type)
    ELSE IF type = "bool" THEN <<IF Word(v.u) = 0 THEN 0 ELSE 1>>
    ELSE IF type = "fd" THEN <<v.u[1]>> ELSE v.u

\* xpc_bool_get_value, xpc_int64_get_value, ... by type.
get_value(type, v) ==
    IF v = NULL THEN IF type = "double" THEN Crashed ELSE Default(type)
    ELSE IF v.type # type THEN Default(type)
    ELSE IF type \in {"bool", "fd"} THEN <<v.u[1]>> ELSE v.u

xpc_dictionary_get_value(d, k) ==
    LET hits == {i \in DOMAIN d.list : d.list[i].key = k}
    IN  IF hits = {} THEN NULL
        ELSE d.list[CHOOSE i \in hits : \A j \in hits : i <= j].val

\* An index above xo_size, which is 0, is refused.
xpc_array_get_value(a, index) ==
    IF index > 0 \/ index >= Len(a.list) THEN NULL ELSE a.list[index + 1].val

\* xpc_dictionary_get_bool ... and xpc_array_get_bool ...
dictionary_get(type, d, k) == get_value(type, xpc_dictionary_get_value(d, k))
array_get(type, a, index) == get_value(type, xpc_array_get_value(a, index))

-----------------------------------------------------------------------------
(* xpc_copy_description: an entry for each object, with its padding, its   *)
(* label, the name of its type and its text.  An entry is a line unless    *)
(* the key or the string in it, which are printed as they are, has a       *)
(* newline: then it is several, of which the further ones are raw.         *)

\* A blank printed with "%*s" and a width of level * 4 takes one column at least.
Pad(level) == IF level = 0 THEN 1 ELSE 4 * level

Quote == -1

Label(e, i) == IF e.key = NoName THEN <<i - 1>> ELSE <<Quote>> \o e.key

\* Doubles and data are shown as an error.
Text(v) ==
    CASE v.type \in {"bool", "fd"} -> <<v.u[1]>>
      [] v.type \in {"string", "int64", "uint64", "date"} -> v.u
      [] OTHER -> <<>>

\* Mutant: the entries of a container are described at its own level.
LevelBelow_same(level) == level

LevelBelow(level) == level + 1

describe_with(v, describe) ==
    [level \in Nat |->
       LET entry(i) ==
              LET below == describe[v.list[i].val][LevelBelow(level)]
              IN  <<[below[1] EXCEPT !.pad = Pad(level), !.label = Label(v.list[i], i)]>>
                    \o Tail(below)
       IN  <<[pad |-> 0, label |-> <<>>, type |-> v.type, text |-> Text(v)]>>
             \o FlattenSeq([i \in DOMAIN v.list |-> entry(i)])]

xpc_copy_description_level(v, level) == AtDepth(Values, describe_with)[MaxDepth][v][level]

Newline == 10

\* The pieces of s between its newlines.
Pieces(s) ==
    LET ends == SetToSortSeq({i \in DOMAIN s : s[i] = Newline}, <)
        at == <<0>> \o ends \o <<Len(s) + 1>>
    IN  [k \in 1 .. Len(ends) + 1 |-> SubSeq(s, at[k] + 1, at[k + 1] - 1)]

\* The label is a key, and not an index.
ByKey(label) == label # <<>> /\ label[1] = Quote

Breaks(entry) ==
    \/ ByKey(entry.label) /\ Newline \in Range(entry.label)
    \/ entry.type = "string" /\ Newline \in Range(entry.text)

Raw(s) == [pad |-> 0, label |-> <<>>, type |-> "raw", text |-> s]

\* The lines of an entry: what is printed before the first newline, and raw lines.
\* The text begins on the line on which the key ends.
LinesOf(entry) ==
    LET key == IF ByKey(entry.label) THEN Pieces(entry.label) ELSE <<entry.label>>
        text == IF entry.type = "string" THEN Pieces(entry.text) ELSE <<entry.text>>
        more == [k \in 1 .. Len(text) - 1 |-> Raw(text[k + 1])]
    IN  IF ~Breaks(entry) THEN <<entry>>
        ELSE IF Len(key) = 1 THEN <<[entry EXCEPT !.text = text[1]]>> \o more
        ELSE <<[entry EXCEPT !.label = key[1], !.type = "raw", !.text = <<>>]>>
               \o [k \in 1 .. Len(key) - 1 |->
                     Raw(IF k + 1 = Len(key) THEN key[k + 1] \o text[1] ELSE key[k + 1])]
               \o more

Printed(entries) == FlattenSeq([j \in DOMAIN entries |-> LinesOf(entries[j])])

xpc_copy_description(v) == Printed(xpc_copy_description_level(v, 0))

=============================================================================
