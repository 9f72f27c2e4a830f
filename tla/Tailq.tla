-------------------------------- MODULE Tailq --------------------------------
(***************************************************************************)
(* The tail queues of compat_queue.h, link by link.                        *)
(*                                                                         *)
(* A tail queue is a head with two fields and elements with two fields     *)
(* each.  tqh_first and every tqe_next hold an element; tqh_last and every *)
(* tqe_prev hold the address of such a field.  As a head has one field of  *)
(* that kind and an element has one, the address is written as its owner:  *)
(*    next[h] is h->tqh_first        next[e] is e->tqe_next                *)
(*    last[h] is h->tqh_last         prev[e] is e->tqe_prev                *)
(*    *p = e  is  next[p] = e.                                             *)
(*                                                                         *)
(* One caller at a time works on one queue, as the code has no lock;       *)
(* different queues are worked on in any order, and the two loops, the     *)
(* plain one and the one that empties a container, are taken apart into    *)
(* steps, so that the other queues change while a loop is under way.       *)
(* Callers insert an element that is in no queue and remove one that is in *)
(* the queue they name: on[e] is the queue e was put into.                 *)
(***************************************************************************)
EXTENDS Integers, Sequences, FiniteSets

CONSTANTS Heads,  \* containers: struct xpc_dict_head, struct xpc_array_head
          Elems,  \* struct xpc_dict_pair, struct xpc_object
          NULL

ASSUME DisjointAssumption ==
    /\ Heads \cap Elems = {}
    /\ NULL \notin Heads \cup Elems

ASSUME ElemsAssumption == IsFiniteSet(Elems)

VARIABLES next, last, prev,
          on,    \* the queue an element is in, as its callers know
          call,  \* the macro invoked last
          loop   \* the loop under way

vars == <<next, last, prev, on, call, loop>>

Places == Heads \cup Elems

NoLoop == [mode |-> "none", head |-> NULL, var |-> NULL, tmp |-> NULL,
           seen |-> <<>>]

TypeOK ==
    /\ next \in [Places -> Elems \cup {NULL}]
    /\ last \in [Heads -> Places]
    /\ prev \in [Elems -> Places]
    /\ on \in [Elems -> Heads \cup {NULL}]
    /\ loop \in [mode : {"none", "walk", "drain", "freed"},
                 head : Heads \cup {NULL}, var : Elems \cup {NULL},
                 tmp : Elems \cup {NULL}, seen : Seq(Elems)]

\* TAILQ_INIT, from _xpc_prim_create_flags; the links of an element are not
\* initialised before it is inserted.
Init ==
    /\ next \in [Places -> Elems \cup {NULL}]
    /\ \A h \in Heads : next[h] = NULL
    /\ last = [h \in Heads |-> h]
    /\ prev \in [Elems -> Places]
    /\ on = [e \in Elems |-> NULL]
    /\ call = <<"none">>
    /\ loop = NoLoop

Mine(h) == loop.head # h

-----------------------------------------------------------------------------
(* The links that surround an element *)

\* n->tqe_prev = p, or h->tqh_last = p when there is no n.
Back(h, n, p) ==
    IF n # NULL
    THEN prev' = [prev EXCEPT ![n] = p] /\ UNCHANGED last
    ELSE last' = [last EXCEPT ![h] = p] /\ UNCHANGED prev

\* The same, with e->tqe_prev = q afterwards.
BackAnd(h, n, p, e, q) ==
    IF n # NULL
    THEN prev' = [prev EXCEPT ![n] = p, ![e] = q] /\ UNCHANGED last
    ELSE prev' = [prev EXCEPT ![e] = q] /\ last' = [last EXCEPT ![h] = p]

-----------------------------------------------------------------------------
(* The macros *)

\* Mutant: the element is linked in at the other end.
TAILQ_INSERT_HEAD_tail(h, e) ==
    /\ Mine(h) /\ on[e] = NULL
    /\ next' = [next EXCEPT ![e] = NULL, ![last[h]] = e]
    /\ BackAnd(h, NULL, e, e, last[h])
    /\ on' = [on EXCEPT ![e] = h]
    /\ call' = <<"INSERT_HEAD", h, e>>
    /\ UNCHANGED loop

TAILQ_INSERT_HEAD(h, e) ==
    /\ Mine(h) /\ on[e] = NULL
    /\ next' = [next EXCEPT ![e] = next[h], ![h] = e]
    /\ BackAnd(h, next[h], e, e, h)
    /\ on' = [on EXCEPT ![e] = h]
    /\ call' = <<"INSERT_HEAD", h, e>>
    /\ UNCHANGED loop

\* Mutant: tqh_last is advanced before the element is stored through it.
TAILQ_INSERT_TAIL_late(h, e) ==
    /\ Mine(h) /\ on[e] = NULL
    /\ next' = [next EXCEPT ![e] = NULL]
    /\ prev' = [prev EXCEPT ![e] = last[h]]
    /\ last' = [last EXCEPT ![h] = e]
    /\ on' = [on EXCEPT ![e] = h]
    /\ call' = <<"INSERT_TAIL", h, e>>
    /\ UNCHANGED loop

TAILQ_INSERT_TAIL(h, e) ==
    /\ Mine(h) /\ on[e] = NULL
    /\ next' = [next EXCEPT ![e] = NULL, ![last[h]] = e]
    /\ prev' = [prev EXCEPT ![e] = last[h]]
    /\ last' = [last EXCEPT ![h] = e]
    /\ on' = [on EXCEPT ![e] = h]
    /\ call' = <<"INSERT_TAIL", h, e>>
    /\ UNCHANGED loop

TAILQ_INSERT_AFTER(h, listelm, e) ==
    /\ Mine(h) /\ on[listelm] = h /\ on[e] = NULL
    /\ next' = [next EXCEPT ![e] = next[listelm], ![listelm] = e]
    /\ BackAnd(h, next[listelm], e, e, listelm)
    /\ on' = [on EXCEPT ![e] = h]
    /\ call' = <<"INSERT_AFTER", h, listelm, e>>
    /\ UNCHANGED loop

TAILQ_INSERT_BEFORE(listelm, e) ==
    /\ on[listelm] # NULL /\ Mine(on[listelm]) /\ on[e] = NULL
    /\ prev' = [prev EXCEPT ![e] = prev[listelm], ![listelm] = e]
    /\ next' = [next EXCEPT ![e] = listelm, ![prev[listelm]] = e]
    /\ on' = [on EXCEPT ![e] = on[listelm]]
    /\ call' = <<"INSERT_BEFORE", listelm, e>>
    /\ UNCHANGED <<last, loop>>

\* TAILQ_REMOVE leaves the element's own links as they are.
Unlink(h, e) ==
    /\ Back(h, next[e], prev[e])
    /\ next' = [next EXCEPT ![prev[e]] = next[e]]
    /\ on' = [on EXCEPT ![e] = NULL]
    /\ call' = <<"REMOVE", h, e>>

TAILQ_REMOVE(h, e) ==
    /\ Mine(h) /\ on[e] = h
    /\ Unlink(h, e)
    /\ UNCHANGED loop

TAILQ_REPLACE(h, e, e2) ==
    /\ Mine(h) /\ on[e] = h /\ on[e2] = NULL
    /\ BackAnd(h, next[e], e2, e2, prev[e])
    /\ next' = [next EXCEPT ![e2] = next[e], ![prev[e]] = e2]
    /\ on' = [on EXCEPT ![e] = NULL, ![e2] = h]
    /\ call' = <<"REPLACE", h, e, e2>>
    /\ UNCHANGED loop

TAILQ_CONCAT(h, g) ==
    /\ h # g /\ Mine(h) /\ Mine(g)
    /\ IF next[g] # NULL
       THEN /\ next' = [next EXCEPT ![last[h]] = next[g], ![g] = NULL]
            /\ prev' = [prev EXCEPT ![next[g]] = last[h]]
            /\ last' = [last EXCEPT ![h] = last[g], ![g] = g]
       ELSE UNCHANGED <<next, prev, last>>
    /\ on' = [e \in Elems |-> IF on[e] = g THEN h ELSE on[e]]
    /\ call' = <<"CONCAT", h, g>>
    /\ UNCHANGED loop

-----------------------------------------------------------------------------
(* The loops *)

\* TAILQ_FOREACH, as in the searches, apply and the hash: the body reads.
TAILQ_FOREACH(h) ==
    /\ loop.mode = "none"
    /\ loop' = [mode |-> "walk", head |-> h, var |-> next[h], tmp |-> NULL,
                seen |-> <<>>]
    /\ UNCHANGED <<next, last, prev, on, call>>

foreach_next ==
    /\ loop.mode = "walk"
    /\ loop.var # NULL
    /\ loop' = [loop EXCEPT !.var = next[loop.var], !.seen = Append(@, loop.var)]
    /\ UNCHANGED <<next, last, prev, on, call>>

\* TAILQ_FOREACH_SAFE in xpc_dictionary_destroy and xpc_array_destroy: the body
\* removes the element and frees it, after which anyone may use its memory.
TAILQ_FOREACH_SAFE(h) ==
    /\ loop.mode = "none"
    /\ loop' = [mode |-> "drain", head |-> h, var |-> next[h], tmp |-> NULL,
                seen |-> <<>>]
    /\ UNCHANGED <<next, last, prev, on, call>>

drain_body ==
    /\ loop.mode = "drain"
    /\ loop.var # NULL
    /\ Unlink(loop.head, loop.var)
    /\ loop' = [loop EXCEPT !.mode = "freed", !.tmp = next[loop.var],
                            !.seen = Append(@, loop.var)]

\* Mutant: the increment of TAILQ_FOREACH, which reads the freed element.
drain_next_unsafe ==
    /\ loop.mode = "freed"
    /\ loop' = [loop EXCEPT !.mode = "drain", !.var = next[loop.var]]
    /\ UNCHANGED <<next, last, prev, on, call>>

drain_next ==
    /\ loop.mode = "freed"
    /\ loop' = [loop EXCEPT !.mode = "drain", !.var = loop.tmp]
    /\ UNCHANGED <<next, last, prev, on, call>>

\* The end of the loop, or a return out of a walk.
loop_end ==
    /\ loop.mode = "walk" \/ (loop.mode = "drain" /\ loop.var = NULL)
    /\ loop' = NoLoop
    /\ UNCHANGED <<next, last, prev, on, call>>

Next ==
    \/ \E h \in Heads, e \in Elems :
          TAILQ_INSERT_HEAD(h, e) \/ TAILQ_INSERT_TAIL(h, e) \/ TAILQ_REMOVE(h, e)
    \/ \E h \in Heads, d, e \in Elems :
          TAILQ_INSERT_AFTER(h, d, e) \/ TAILQ_REPLACE(h, d, e)
    \/ \E d, e \in Elems : TAILQ_INSERT_BEFORE(d, e)
    \/ \E h, g \in Heads : TAILQ_CONCAT(h, g)
    \/ \E h \in Heads : TAILQ_FOREACH(h) \/ TAILQ_FOREACH_SAFE(h)
    \/ foreach_next \/ drain_body \/ drain_next \/ loop_end

Spec == Init /\ [][Next]_vars

\* A loop waits for nothing.
Fairness == WF_vars(foreach_next) /\ WF_vars(drain_body \/ drain_next \/ loop_end)

FairSpec == Spec /\ Fairness

-----------------------------------------------------------------------------
(* The sequence that the links of a queue stand for *)

\* Sequences of distinct elements.
Orders ==
    {s \in UNION {[1 .. n -> Elems] : n \in 0 .. Cardinality(Elems)} :
        \A i, j \in DOMAIN s : s[i] = s[j] => i = j}

\* The place whose next field holds the element after the i-th of queue h.
Place(h, s, i) == IF i = 0 THEN h ELSE s[i]

\* The links of h run through s, forwards and backwards.
Represents(h, s) ==
    /\ \A i \in 0 .. Len(s) :
          next[Place(h, s, i)] = IF i = Len(s) THEN NULL ELSE s[i + 1]
    /\ \A i \in 1 .. Len(s) : prev[s[i]] = Place(h, s, i - 1)
    /\ last[h] = Place(h, s, Len(s))

Content(h) == CHOOSE s \in Orders : Represents(h, s)

\* Refinement: through Content, every macro and every loop does to the sequences
\* what ListSpec says of the macro called, and nothing to any other queue
\* (compat_queue.h, Tail queue functions).
Lists == INSTANCE ListSpec WITH lists <- [h \in Heads |-> Content(h)]
ImplementsLists == Lists!Spec

\* Every queue has well-formed links, forwards and backwards, of exactly the
\* elements its callers put in and did not take out, each once: after any
\* sequence of macros on any queues, with whatever the links of a fresh element
\* held, each link points where such a link may point (TypeOK) and the links lead
\* through these elements (compat_queue.h, Tail queue functions).
WellLinked ==
    /\ TypeOK
    /\ \A h \in Heads :
          \E s \in Orders : /\ Represents(h, s)
                            /\ {s[i] : i \in DOMAIN s} = {e \in Elems : on[e] = h}

\* A loop never loses its way: what it has seen, followed by what it has still
\* to see, is the whole queue it started with; the loop of a destructor has
\* taken out what it has seen, although the freed elements may be in another
\* queue before it goes on (xpc_misc.c, xpc_dictionary_destroy and
\* xpc_array_destroy).
LoopOnCourse ==
    LET c == Content(loop.head)
        k == Len(loop.seen)
    IN  /\ loop.mode = "walk" =>
              /\ k <= Len(c)
              /\ \A i \in 1 .. k : loop.seen[i] = c[i]
              /\ loop.var = IF k = Len(c) THEN NULL ELSE c[k + 1]
        /\ loop.mode = "drain" =>
              loop.var = IF c = <<>> THEN NULL ELSE c[1]
        /\ loop.mode = "freed" =>
              loop.tmp = IF c = <<>> THEN NULL ELSE c[1]

\* A destructor's loop ends, and leaves its queue empty (xpc_misc.c).
DrainEmpties ==
    \A h \in Heads :
       loop.head = h /\ loop.mode \in {"drain", "freed"} ~>
       loop.mode = "none" /\ next[h] = NULL /\ last[h] = h

-----------------------------------------------------------------------------
(* The invariant that makes the safety properties inductive *)

\* A loop that is under way has a queue.
OnQueue == loop.mode # "none" => loop.head \in Heads

IInv == WellLinked /\ LoopOnCourse /\ OnQueue

=============================================================================
