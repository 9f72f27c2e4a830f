------------------------------ MODULE XpcObject ------------------------------
(***************************************************************************)
(* The object store of libOpenXPC: reference-counted xpc_objects, the      *)
(* dictionaries and arrays that link them, and the recursive destruction   *)
(* that follows the last xpc_release (xpc_misc.c, xpc_type.c, xpc_array.c, *)
(* xpc_dictionary.c).                                                      *)
(*                                                                         *)
(* Callers keep handles.  A handle is one pointer chain, path[h]: its      *)
(* first element is an object the handle owns a reference to, every        *)
(* further element was read out of the one before it with a get_value      *)
(* call, which does not retain.  Several handles, of one thread or of      *)
(* several, may hold the same object.                                      *)
(*                                                                         *)
(* What callers may do is limited to what the callers in the repository    *)
(* do (xpcctl/XPC.m, the deserialiser of xpc_dbus.c and the typed setters):*)
(* a value is put into one container only, by its only holder, under a key *)
(* that is new, and is given up in the process.  Practices names the ways  *)
(* a caller may go beyond that:                                            *)
(*    "retain_borrowed"  retain a value obtained from a container;         *)
(*    "overwrite"        set a key the dictionary already has, with a      *)
(*                       typed setter or from a message that repeats it;   *)
(*    "index"            set an array element at an ordinary index.        *)
(* Accesses to one container are serialised by its callers: the code has   *)
(* no lock, and only xo_refcnt is updated atomically.                      *)
(***************************************************************************)
EXTENDS Integers, Sequences, FiniteSets

CONSTANTS Objects,    \* addresses malloc can return for a struct xpc_object
          Handles,    \* the references callers own
          Keys,       \* dictionary keys
          NoKey,      \* stands in the key field of an array element
          Indices,    \* array indices callers pass, XPC_ARRAY_APPEND apart
          RefMod,     \* number of values of the uint32_t xo_refcnt
          Practices   \* what callers do beyond the repository's own callers

ASSUME HandlesAssumption == IsFiniteSet(Handles)

\* There are never as many references at once as xo_refcnt has values.
ASSUME RefModAssumption == RefMod \in Nat /\ RefMod > Cardinality(Handles) + 2

ASSUME NoKeyAssumption == NoKey \notin Keys

ASSUME IndicesAssumption == Indices \subseteq Nat

ASSUME PracticesAssumption ==
    Practices \subseteq {"retain_borrowed", "overwrite", "index"}

VARIABLES xtype,   \* xo_xpc_type; "free" while the address is not allocated
          refcnt,  \* xo_refcnt
          size,    \* xo_size; 1 for a primitive, whose real one nothing here reads
          list,    \* xo_u.dict / xo_u.array, first element first
          path,    \* the pointer chain of each handle
          stack    \* the xpc_object_destroy frames its last release started

vars == <<xtype, refcnt, size, list, path, stack>>

Containers == {"dict", "array"}
Types == {"prim"} \cup Containers
Entry == [key : Keys \cup {NoKey}, val : Objects]

TypeOK ==
    /\ xtype \in [Objects -> Types \cup {"free"}]
    /\ refcnt \in [Objects -> 0 .. RefMod - 1]
    /\ size \in [Objects -> Nat]
    /\ list \in [Objects -> Seq(Entry)]
    /\ path \in [Handles -> Seq(Objects)]
    /\ stack \in [Handles -> Seq(Objects)]

Init ==
    /\ xtype = [o \in Objects |-> "free"]
    /\ refcnt = [o \in Objects |-> 0]
    /\ size = [o \in Objects |-> 0]
    /\ list = [o \in Objects |-> <<>>]
    /\ path = [h \in Handles |-> <<>>]
    /\ stack = [h \in Handles |-> <<>>]

-----------------------------------------------------------------------------
(* Reading the state *)

Live(o) == xtype[o] # "free"

Top(s) == s[Len(s)]

\* Handle h is not inside xpc_release, and has no object / has one.
Idle(h) == stack[h] = <<>> /\ path[h] = <<>>
Busy(h) == stack[h] = <<>> /\ path[h] # <<>>

Holders(o) == {h \in Handles : path[h] # <<>> /\ path[h][1] = o}
Held(o) == \E h \in Handles : path[h] # <<>> /\ path[h][1] = o
Linked(o) == \E p \in Objects : \E i \in DOMAIN list[p] : list[p][i].val = o
OnStack(o) == \E h \in Handles : \E i \in DOMAIN stack[h] : stack[h][i] = o

\* The value held by g may be put into the container at the end of h's chain.
MayPut(h, g) ==
    /\ h # g
    /\ Busy(h) /\ Busy(g)
    /\ Len(path[g]) = 1
    /\ Holders(path[g][1]) = {g}
    /\ ~Linked(path[g][1])

-----------------------------------------------------------------------------
(* The reference count *)

\* xpc_retain's and xpc_release's atomic update of the uint32_t.
Incremented(n) == IF n = RefMod - 1 THEN 0 ELSE n + 1
Decremented(n) == IF n = 0 THEN RefMod - 1 ELSE n - 1

\* Mutant: the comparison is made with 1.
LastReference_early(n) == n <= 1

\* xpc_release returns early while the new count is positive.
LastReference(n) == n = 0

-----------------------------------------------------------------------------
(* Creation *)

\* _xpc_prim_create_flags: the fields of the fresh object o.
Created(o, t) ==
    /\ ~Live(o)
    /\ xtype' = [xtype EXCEPT ![o] = t]
    /\ list' = [list EXCEPT ![o] = <<>>]

\* xpc_null_create ... xpc_fd_create
xpc_prim_create(h, o) ==
    /\ Idle(h)
    /\ Created(o, "prim")
    /\ refcnt' = [refcnt EXCEPT ![o] = 1]
    /\ size' = [size EXCEPT ![o] = 1]
    /\ path' = [path EXCEPT ![h] = <<o>>]
    /\ UNCHANGED stack

\* xpc_dictionary_create(NULL, NULL, 0)
xpc_dictionary_create(h, o) ==
    /\ Idle(h)
    /\ Created(o, "dict")
    /\ refcnt' = [refcnt EXCEPT ![o] = 1]
    /\ size' = [size EXCEPT ![o] = 0]
    /\ path' = [path EXCEPT ![h] = <<o>>]
    /\ UNCHANGED stack

\* xpc_array_create(NULL, 0)
xpc_array_create(h, o) ==
    /\ Idle(h)
    /\ Created(o, "array")
    /\ refcnt' = [refcnt EXCEPT ![o] = 1]
    /\ size' = [size EXCEPT ![o] = 0]
    /\ path' = [path EXCEPT ![h] = <<o>>]
    /\ UNCHANGED stack

-----------------------------------------------------------------------------
(* Containers: what a call leaves in the container's fields, and whether   *)
(* it retains the value.                                                   *)

\* Mutant: xo_size is incremented before the search for the key.
xpc_dictionary_set_value_counted(d, k, v) ==
    LET hits == {i \in DOMAIN list[d] : list[d][i].key = k}
        pair == [key |-> k, val |-> v]
    IN  [list |-> IF hits = {} THEN Append(list[d], pair)
                  ELSE [i \in DOMAIN list[d] |-> IF i \in hits THEN pair
                                                 ELSE list[d][i]],
         size |-> size[d] + 1, retain |-> hits = {}]

xpc_dictionary_set_value(d, k, v) ==
    LET hits == {i \in DOMAIN list[d] : list[d][i].key = k}
        pair == [key |-> k, val |-> v]
    IN  IF hits = {}
        THEN [list |-> Append(list[d], pair), size |-> size[d] + 1,
              retain |-> TRUE]
        ELSE [list |-> [list[d] EXCEPT
                           ![CHOOSE i \in hits : \A j \in hits : i <= j] = pair],
              size |-> size[d], retain |-> FALSE]

xpc_array_append_value(a, v) ==
    [list |-> Append(list[a], [key |-> NoKey, val |-> v]), size |-> size[a],
     retain |-> TRUE]

NewKey(d, k) == \A i \in DOMAIN list[d] : list[d][i].key # k

MaySet(d, k) == NewKey(d, k) \/ "overwrite" \in Practices

\* r is what the call left in container d; the caller's reference to v, held
\* through g, is dropped with xpc_release afterwards iff release is TRUE, and
\* is forgotten otherwise.
PutValue(g, d, v, r, release) ==
    LET kept == IF r.retain THEN Incremented(refcnt[v]) ELSE refcnt[v]
        cnt  == IF release THEN Decremented(kept) ELSE kept
    IN  /\ list' = [list EXCEPT ![d] = r.list]
        /\ size' = [size EXCEPT ![d] = r.size]
        /\ refcnt' = [refcnt EXCEPT ![v] = cnt]
        /\ path' = [path EXCEPT ![g] = <<>>]
        /\ stack' = [stack EXCEPT ![g] = IF release /\ LastReference(cnt)
                                         THEN <<v>> ELSE <<>>]
        /\ UNCHANGED xtype

\* -[NSDictionary newXPCObject], one pair: set the value, release it.  The
\* keys of an NSDictionary are distinct.
newXPCObject_dict(h, g, k) ==
    LET d == Top(path[h])
        v == path[g][1]
    IN  /\ MayPut(h, g)
        /\ xtype[d] = "dict"
        /\ NewKey(d, k)
        /\ PutValue(g, d, v, xpc_dictionary_set_value(d, k, v), TRUE)

\* -[NSArray newXPCObject], one element: append the value, release it.
newXPCObject_array(h, g) ==
    LET a == Top(path[h])
        v == path[g][1]
    IN  /\ MayPut(h, g)
        /\ xtype[a] = "array"
        /\ PutValue(g, a, v, xpc_array_append_value(a, v), TRUE)

\* Mutant: the pair is released after it is set, also when it replaced one.
deserialise_dict_release(h, g, k) ==
    LET d == Top(path[h])
        v == path[g][1]
    IN  /\ MayPut(h, g)
        /\ xtype[d] = "dict"
        /\ MaySet(d, k)
        /\ PutValue(g, d, v, xpc_dictionary_set_value(d, k, v), TRUE)

\* deserialise_dict, one pair: the value is set and never released.
deserialise_dict(h, g, k) ==
    LET d == Top(path[h])
        v == path[g][1]
    IN  /\ MayPut(h, g)
        /\ xtype[d] = "dict"
        /\ MaySet(d, k)
        /\ PutValue(g, d, v, xpc_dictionary_set_value(d, k, v), FALSE)

\* deserialise_arr, one element: the value is appended and never released.
deserialise_arr(h, g) ==
    LET a == Top(path[h])
        v == path[g][1]
    IN  /\ MayPut(h, g)
        /\ xtype[a] = "array"
        /\ PutValue(g, a, v, xpc_array_append_value(a, v), FALSE)

\* xpc_dictionary_set_bool ... xpc_dictionary_set_string: create a value, set
\* it and keep no reference.
xpc_dictionary_set_typed(h, k, o) ==
    LET d == Top(path[h])
        r == xpc_dictionary_set_value(d, k, o)
    IN  /\ Busy(h)
        /\ xtype[d] = "dict"
        /\ MaySet(d, k)
        /\ ~Live(o)
        /\ xtype' = [xtype EXCEPT ![o] = "prim"]
        /\ list' = [list EXCEPT ![o] = <<>>, ![d] = r.list]
        /\ size' = [size EXCEPT ![o] = 1, ![d] = r.size]
        /\ refcnt' = [refcnt EXCEPT ![o] = IF r.retain THEN Incremented(1) ELSE 1]
        /\ UNCHANGED <<path, stack>>

\* xpc_array_set_bool ... xpc_array_set_fd with XPC_ARRAY_APPEND.
xpc_array_append_typed(h, o) ==
    LET a == Top(path[h])
        r == xpc_array_append_value(a, o)
    IN  /\ Busy(h)
        /\ xtype[a] = "array"
        /\ ~Live(o)
        /\ xtype' = [xtype EXCEPT ![o] = "prim"]
        /\ list' = [list EXCEPT ![o] = <<>>, ![a] = r.list]
        /\ size' = [size EXCEPT ![o] = 1, ![a] = r.size]
        /\ refcnt' = [refcnt EXCEPT ![o] = Incremented(1)]
        /\ UNCHANGED <<path, stack>>

\* xpc_array_set_value at an index below XPC_ARRAY_APPEND, counted from 0.  The
\* element there is freed by itself, without its children, and stays linked in
\* the array: TAILQ_INSERT_AFTER is called with the old element and the new one
\* exchanged, so that the old one is linked behind the new one and taken out
\* again, and the links of the array that lead to it stay.
xpc_array_set_value(a, i, v) ==
    IF i < size[a] /\ i < Len(list[a])
    THEN [list |-> list[a], retain |-> TRUE, freed |-> {list[a][i + 1].val}]
    ELSE [list |-> list[a], retain |-> FALSE, freed |-> {}]

\* xpc_array_set_bool ... xpc_array_set_fd at an ordinary index: create a
\* value, set it and keep no reference.
xpc_array_set_typed(h, i, o) ==
    LET a == Top(path[h])
        r == xpc_array_set_value(a, i, o)
    IN  /\ "index" \in Practices
        /\ Busy(h)
        /\ xtype[a] = "array"
        /\ ~Live(o)
        /\ xtype' = [x \in Objects |-> IF x = o THEN "prim"
                                       ELSE IF x \in r.freed THEN "free"
                                       ELSE xtype[x]]
        /\ list' = [list EXCEPT ![o] = <<>>, ![a] = r.list]
        /\ size' = [size EXCEPT ![o] = 1]
        /\ refcnt' = [refcnt EXCEPT ![o] = IF r.retain THEN Incremented(1) ELSE 1]
        /\ UNCHANGED <<path, stack>>

-----------------------------------------------------------------------------
(* Borrowing: neither call retains what it returns; NULL is no step. *)

xpc_dictionary_get_value(h, k) ==
    LET d == Top(path[h])
        hits == {i \in DOMAIN list[d] : list[d][i].key = k}
    IN  /\ Busy(h)
        /\ xtype[d] = "dict"
        /\ hits # {}
        /\ path' = [path EXCEPT ![h] =
              Append(@, list[d][CHOOSE i \in hits : \A j \in hits : i <= j].val)]
        /\ UNCHANGED <<xtype, refcnt, size, list, stack>>

\* Index i counts from 0; the bound test lets i = xo_size through.
xpc_array_get_value(h, i) ==
    LET a == Top(path[h])
    IN  /\ Busy(h)
        /\ xtype[a] = "array"
        /\ i <= size[a]
        /\ i < Len(list[a])
        /\ path' = [path EXCEPT ![h] = Append(@, list[a][i + 1].val)]
        /\ UNCHANGED <<xtype, refcnt, size, list, stack>>

-----------------------------------------------------------------------------
(* Retain, release, destroy *)

\* Mutant: the count is left alone.
xpc_retain_uncounted(h, g) ==
    /\ Busy(h) /\ Idle(g)
    /\ path' = [path EXCEPT ![g] = <<path[h][1]>>]
    /\ UNCHANGED <<xtype, refcnt, size, list, stack>>

\* Handle g gets a reference of its own to an object h can name.
xpc_retain(h, g) ==
    /\ Busy(h) /\ Idle(g)
    /\ \E o \in {path[h][1]} \cup
               (IF "retain_borrowed" \in Practices THEN {Top(path[h])} ELSE {}) :
          /\ refcnt' = [refcnt EXCEPT ![o] = Incremented(@)]
          /\ path' = [path EXCEPT ![g] = <<o>>]
    /\ UNCHANGED <<xtype, size, list, stack>>

\* The caller's pointers derived from the reference go with it.
xpc_release(h) ==
    LET o == path[h][1]
        cnt == Decremented(refcnt[o])
    IN  /\ Busy(h)
        /\ refcnt' = [refcnt EXCEPT ![o] = cnt]
        /\ path' = [path EXCEPT ![h] = <<>>]
        /\ stack' = [stack EXCEPT ![h] = IF LastReference(cnt) THEN <<o>> ELSE <<>>]
        /\ UNCHANGED <<xtype, size, list>>

\* Mutant: the child is released, and so outlives the container when its count
\* is 2.
destroy_child_release(h) ==
    LET o == Top(stack[h])
        c == list[o][1].val
    IN  /\ stack[h] # <<>>
        /\ list[o] # <<>>
        /\ list' = [list EXCEPT ![o] = Tail(@)]
        /\ refcnt' = [refcnt EXCEPT ![c] = Decremented(@)]
        /\ stack' = [stack EXCEPT ![h] = IF refcnt[c] = 1 THEN Append(@, c) ELSE @]
        /\ UNCHANGED <<xtype, size, path>>

\* Mutant: the element is destroyed and stays linked.
destroy_child_linked(h) ==
    LET o == Top(stack[h])
    IN  /\ stack[h] # <<>>
        /\ list[o] # <<>>
        /\ stack' = [stack EXCEPT ![h] = Append(@, list[o][1].val)]
        /\ UNCHANGED <<xtype, refcnt, size, list, path>>

\* One iteration of xpc_dictionary_destroy or xpc_array_destroy: the first
\* element is unlinked and destroyed, whatever its reference count is.
destroy_child(h) ==
    LET o == Top(stack[h])
    IN  /\ stack[h] # <<>>
        /\ list[o] # <<>>
        /\ list' = [list EXCEPT ![o] = Tail(@)]
        /\ stack' = [stack EXCEPT ![h] = Append(@, list[o][1].val)]
        /\ UNCHANGED <<xtype, refcnt, size, path>>

\* Mutant: a container is freed without a look at its elements.
free_object_shallow(h) ==
    LET o == Top(stack[h])
    IN  /\ stack[h] # <<>>
        /\ xtype' = [xtype EXCEPT ![o] = "free"]
        /\ refcnt' = [refcnt EXCEPT ![o] = 0]
        /\ size' = [size EXCEPT ![o] = 0]
        /\ list' = [list EXCEPT ![o] = <<>>]
        /\ stack' = [stack EXCEPT ![h] = SubSeq(@, 1, Len(@) - 1)]
        /\ UNCHANGED path

\* The end of xpc_object_destroy: free(xo).
free_object(h) ==
    LET o == Top(stack[h])
    IN  /\ stack[h] # <<>>
        /\ list[o] = <<>>
        /\ xtype' = [xtype EXCEPT ![o] = "free"]
        /\ refcnt' = [refcnt EXCEPT ![o] = 0]
        /\ size' = [size EXCEPT ![o] = 0]
        /\ stack' = [stack EXCEPT ![h] = SubSeq(@, 1, Len(@) - 1)]
        /\ UNCHANGED <<list, path>>

xpc_object_destroy(h) == destroy_child(h) \/ free_object(h)

-----------------------------------------------------------------------------

Create(h) ==
    \E o \in Objects : \/ xpc_prim_create(h, o)
                       \/ xpc_dictionary_create(h, o)
                       \/ xpc_array_create(h, o)

Put(h) ==
    \/ \E g \in Handles : newXPCObject_array(h, g) \/ deserialise_arr(h, g)
    \/ \E g \in Handles, k \in Keys :
          newXPCObject_dict(h, g, k) \/ deserialise_dict(h, g, k)
    \/ \E o \in Objects : xpc_array_append_typed(h, o)
    \/ \E o \in Objects, k \in Keys : xpc_dictionary_set_typed(h, k, o)
    \/ \E o \in Objects, i \in Indices :
          xpc_array_set_typed(h, i, o)

Get(h) ==
    \/ \E k \in Keys : xpc_dictionary_get_value(h, k)
    \/ \E i \in Indices : xpc_array_get_value(h, i)

Next ==
    \E h \in Handles : \/ Create(h)
                       \/ Put(h)
                       \/ Get(h)
                       \/ \E g \in Handles : xpc_retain(h, g)
                       \/ xpc_release(h)
                       \/ xpc_object_destroy(h)

Spec == Init /\ [][Next]_vars

\* xpc_object_destroy runs to its end without waiting for anything.
FairSpec == Spec /\ \A h \in Handles : WF_vars(xpc_object_destroy(h))

-----------------------------------------------------------------------------
(* The inductive invariant, in parts *)

\* Whatever is held, linked or being destroyed is allocated; an object that is
\* not allocated has nothing linked in it.
OwnedIsLive ==
    \A o \in Objects :
       /\ Held(o) \/ Linked(o) \/ OnStack(o) => Live(o)
       /\ ~Live(o) => list[o] = <<>>

\* An object has owners of one kind only: handles, a container, a destroyer.
OneKindOfOwner ==
    \A o \in Objects :
       /\ ~(Held(o) /\ Linked(o))
       /\ ~(Held(o) /\ OnStack(o))
       /\ ~(Linked(o) /\ OnStack(o))

\* It is linked in one place at most.
LinkedOnce ==
    \A p, q \in Objects : \A i \in DOMAIN list[p], j \in DOMAIN list[q] :
       list[p][i].val = list[q][j].val => p = q /\ i = j

\* It has one destruction frame at most.
DestroyedOnce ==
    \A h, g \in Handles : \A i \in DOMAIN stack[h], j \in DOMAIN stack[g] :
       stack[h][i] = stack[g][j] => h = g /\ i = j

\* An allocated object is held, linked or being destroyed.
LiveIsOwned ==
    \A o \in Objects : Live(o) => Held(o) \/ Linked(o) \/ OnStack(o)

\* A borrowed pointer is linked in the object it was read from.
BorrowedIsLinked ==
    \A h \in Handles : \A i \in 1 .. Len(path[h]) - 1 :
       \E j \in DOMAIN list[path[h][i]] : list[path[h][i]][j].val = path[h][i + 1]

\* A handle inside xpc_release has given its pointers up.
ReleasingHasNoPath == \A h \in Handles : stack[h] # <<>> => path[h] = <<>>

-----------------------------------------------------------------------------
(* Properties *)

\* No use after free: a pointer a caller still has, owned or borrowed from an
\* object it owns, is to an allocated object that no xpc_object_destroy of any
\* thread has reached (xpc_misc.c, xpc_release and xpc_object_destroy).
HandleSafe ==
    \A h \in Handles : \A i \in DOMAIN path[h] :
       Live(path[h][i]) /\ ~OnStack(path[h][i])

\* Every allocated object has owners of exactly one kind - handles, one link of
\* one container, one destruction frame - and an address that is not allocated
\* has none, so xpc_object_destroy frees each object once, although it ignores
\* the reference counts of the children.
SoleOwner ==
    /\ OwnedIsLive
    /\ OneKindOfOwner
    /\ LinkedOnce
    /\ DestroyedOnce
    /\ LiveIsOwned

\* xo_refcnt of an object that handles hold is exactly the number of handles,
\* whatever the interleaving of xpc_retain, xpc_release and the setters.
CountExact == \A o \in Objects : Held(o) => refcnt[o] = Cardinality(Holders(o))

\* xo_refcnt of an object in a container is 1 when its creator released it, 2
\* when it came from a typed setter or the deserialiser, which do not: never 0,
\* never more.
LinkedCount == \A o \in Objects : Linked(o) => refcnt[o] \in 1 .. 2

\* xo_size of a dictionary that callers can reach is the number of its pairs,
\* and its keys are distinct, so get_count, apply and get_value agree on it.
\* xo_size of an array stays 0, however much is appended: xpc_array_get_count
\* returns 0 and the replacing branch of xpc_array_set_value is never taken.
SizeField ==
    \A o \in Objects :
       /\ xtype[o] = "dict" /\ ~OnStack(o) =>
             /\ size[o] = Len(list[o])
             /\ \A i, j \in DOMAIN list[o] : list[o][i].key = list[o][j].key => i = j
       /\ xtype[o] = "array" => size[o] = 0
       /\ xtype[o] = "prim" => list[o] = <<>>

IInv ==
    /\ TypeOK
    /\ SoleOwner
    /\ BorrowedIsLinked
    /\ ReleasingHasNoPath
    /\ CountExact
    /\ LinkedCount
    /\ SizeField

\* S holds what is held or is being destroyed and, with a container, what is
\* linked in it.
Enclosed(S) ==
    /\ \A o \in Objects : Held(o) \/ OnStack(o) => o \in S
    /\ \A p \in S : \A i \in DOMAIN list[p] : list[p][i].val \in S

\* No leak and no cycle: every allocated object can be reached from a handle or
\* from a destruction in progress, so releasing the handles frees it.  An object
\* that cannot be reached is outside the set of those that can.
NoLeak ==
    \A S \in SUBSET Objects :
       Enclosed(S) => \A o \in Objects : Live(o) => o \in S

\* A count that reached 0 is never raised again: once xpc_release has decided to
\* destroy an object, no other thread's xpc_retain or setter revives it before
\* it is freed.
NoResurrection ==
    [][\A o \in Objects : Live(o) /\ refcnt[o] = 0 => refcnt'[o] = 0]_vars

\* When callers have dropped every handle for good, the destructions in progress
\* end and the heap is empty for good, whatever was linked in what.
HeapDrains ==
    (<>[](\A h \in Handles : path[h] = <<>>)) => <>[](\A o \in Objects : ~Live(o))

=============================================================================
