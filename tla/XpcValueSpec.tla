---------------------------- MODULE XpcValueSpec ----------------------------
(***************************************************************************)
(* The functions of XpcValue against reference definitions, over every     *)
(* object that calls of the constructors can build.                        *)
(***************************************************************************)
EXTENDS XpcValue

CONSTANTS Names,     \* dictionary keys, as strings of bytes
          Given,     \* the values callers start from and put into containers
          MaxParts   \* bound on the objects in a value

ASSUME CallerAssumption == /\ Names \subseteq Seq(Byte)
                           /\ Given \subseteq Values[MaxDepth - 1]
                           /\ MaxParts \in Nat

VARIABLE x

\* The function f of the values in a list, under the same keys.
OnValues(list, f) ==
    [i \in DOMAIN list |-> [key |-> list[i].key, val |-> f[list[i].val]]]

count_with(v, count) == 1 + FoldLeft(LAMBDA n, e : n + count[e.val], 0, v.list)
Count(v) == AtDepth(Values, count_with)[MaxDepth][v]

Init == x \in Given

\* xpc_dictionary_set_value(x, k, v)
SetPair ==
    /\ x.type = "dictionary"
    /\ \E k \in Names, v \in Given : x' = xpc_dictionary_set_value(x, k, v)
    /\ Count(x') <= MaxParts

\* xpc_array_append_value(x, v)
AppendElement ==
    /\ x.type = "array"
    /\ \E v \in Given : x' = xpc_array_append_value(x, v)
    /\ Count(x') <= MaxParts

\* x becomes the first element of a new container.
Nest ==
    /\ x \in Values[MaxDepth - 1]
    /\ Count(x) < MaxParts
    /\ \/ \E k \in Names : x' = xpc_dictionary_set_value(xpc_dictionary_create, k, x)
       \/ x' = xpc_array_append_value(xpc_array_create, x)

Next == SetPair \/ AppendElement \/ Nest

Spec == Init /\ [][Next]_x

-----------------------------------------------------------------------------
(* Properties *)

Has(types) == \E p \in Parts(x) : p.type \in types

\* What a caller can tell of v: not what the stack left in a union.
visible_with(v, visible) ==
    [type |-> v.type,
     u    |-> IF v.type \in {"bool", "fd"} THEN <<v.u[1]>> ELSE v.u,
     list |-> OnValues(v.list, visible)]

Visible(v) == AtDepth(Values, visible_with)[MaxDepth][v]

\* v as the wire can carry it.
degraded_with(v, degraded) ==
    CASE v.type = "date" -> xpc_int64_create(v.u)
      [] v.type \in {"null", "double"} -> xpc_bool_create(0)
      [] OTHER -> [v EXCEPT !.list = OnValues(v.list, degraded)]

Degraded(v) == AtDepth(Values, degraded_with)[MaxDepth][v]

\* v without the elements of its arrays.
emptied_with(v, emptied) ==
    [v EXCEPT !.list = IF v.type = "array" THEN <<>> ELSE OnValues(v.list, emptied)]

Emptied(v) == AtDepth(Values, emptied_with)[MaxDepth][v]

\* The objects callers build are values, with distinct keys in every dictionary:
\* xpc_dictionary_set_value replaces the pair of a key that is there.
TypeOK == x \in Values[MaxDepth]

\* The type tables of xpc_dbus_type and append_xpc agree at every depth: each
\* variant is filled with a value of the type it was opened with, unless there is
\* data in the message, which append_xpc never gets into it.
SignaturesAgree == Wellformed(append_xpc(x)) <=> ~Has({"data"})

\* A message whose type tables agree (SignaturesAgree) arrives as it was sent, in the
\* same order and under the same keys, but for two losses: a date arrives as an int64,
\* a null or a double as false (append_xpc, deserialise_object).
RoundTrip ==
    /\ SignaturesAgree
    /\ ~Has({"data"}) => Visible(Received(x)) = Visible(Degraded(x))

\* xpc_hash of a message is the same at both ends, provided nothing in it is a
\* bool, whose hash takes in what the stack held, or turns into one on the way.
HashTravels ==
    ~Has({"bool", "null", "double", "data"}) => xpc_hash(Received(x)) = xpc_hash(x)

\* xpc_hash of a dictionary does not depend on the order its keys were set in, as
\* xpc_dictionary_get_value does not.
HashIgnoresOrder ==
    \A p \in Parts(x) : p.type = "dictionary" =>
       \A q \in SetToSeqs(ToSet(p.list)) :
          xpc_hash([p EXCEPT !.list = q]) = xpc_hash(p)

\* The types whose objects xpc_copy has no copy of.
NoCopy == {"null", "double", "fd"}

\* A copy is equal to the original, bits of the union and hash included, except
\* that every array in it is empty.  There is none (a NULL) of a null, a double or
\* a descriptor, and a dictionary with one of those among its values, however
\* deep, takes xpc_copy down.
CopyIsFaithful ==
    LET fatal == \E p \in Parts(x) : /\ p.type = "dictionary"
                                     /\ \E i \in DOMAIN p.list : p.list[i].val.type \in NoCopy
    IN  xpc_copy(x) = IF x.type \in NoCopy THEN NULL
                      ELSE IF fatal THEN Crash
                      ELSE Emptied(x)

\* The typed getters answer the same at both ends of a connection: what a value
\* turns into on the way (false, for a null or a double) is also what they answer
\* for a value that is not theirs.  Only a date, which arrives as an int64,
\* differs.  And the one getter that crashes for an element that is not there
\* does so at both ends or at neither.
GettersTravel ==
    LET y == Received(x)
    IN  ~Has({"data"}) =>
          /\ x.type = "dictionary" =>
               \A k \in Names, type \in {"bool", "int64", "uint64", "string"} :
                  \/ dictionary_get(type, y, k) = dictionary_get(type, x, k)
                  \/ type = "int64" /\ xpc_dictionary_get_value(x, k).type = "date"
          /\ x.type = "array" =>
               \A n \in 0 .. MaxParts :
                  /\ \A type \in {"bool", "int64", "uint64", "string", "data"} :
                       \/ array_get(type, y, n) = array_get(type, x, n)
                       \/ type = "int64" /\ xpc_array_get_value(x, n).type = "date"
                  /\ array_get("double", y, n) = Crashed
                       <=> array_get("double", x, n) = Crashed

\* The objects in v with the labels on the way to them: the way to v is path.
outline_with(v, outline) ==
    [path \in Seq(Seq(Int)) |->
       {<<path, v.type, Text(v)>>} \cup
          UNION {outline[v.list[i].val][Append(path, Label(v.list[i], i))] :
                    i \in DOMAIN v.list}]

Outline(v) == AtDepth(Values, outline_with)[MaxDepth][v][<<>>]

\* The same, read off the lines of a description: a line belongs to the last line
\* before it that is padded less.
PathOf(lines, j) ==
    LET path[k \in 1 .. j] ==
           LET above == {i \in 1 .. k - 1 : lines[i].pad < lines[k].pad}
           IN  IF above = {} THEN <<>>
               ELSE Append(path[CHOOSE i \in above : \A h \in above : h <= i],
                           lines[k].label)
    IN  path[j]

QuotationMark == 34

\* No string has a newline, and no key a newline or a quotation mark: both are
\* printed as they are, and either could look like a line or a label.
Legible(outline) ==
    \A r \in outline :
       /\ r[2] = "string" => Newline \notin Range(r[3])
       /\ \A k \in DOMAIN r[1] :
             ByKey(r[1][k]) => Range(r[1][k]) \cap {Newline, QuotationMark} = {}

\* A description shows the whole structure: from the padding of its lines one can
\* tell what is in what, at every depth, although the first level is padded by one
\* column only; unless a string or a key is printed that could be taken for more
\* than it is (xpc_copy_description_level).
DescriptionShowsStructure ==
    LET lines == xpc_copy_description(x)
    IN  Legible(Outline(x)) =>
          {<<PathOf(lines, j), lines[j].type, lines[j].text>> : j \in DOMAIN lines}
            = Outline(x)

=============================================================================
