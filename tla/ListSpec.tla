------------------------------ MODULE ListSpec ------------------------------
(***************************************************************************)
(* What a tail queue promises: every head has a sequence of elements, an   *)
(* element is in one sequence at most, and each macro of compat_queue.h    *)
(* changes the sequences as its name says.  call is the interface: the     *)
(* macro invoked last, with its arguments.  Module XpcObject describes     *)
(* dictionaries and arrays with such sequences; module Tailq implements    *)
(* them with links.                                                        *)
(***************************************************************************)
EXTENDS Integers, Sequences, SequencesExt

CONSTANTS Heads, Elems

VARIABLES lists, call

vars == <<lists, call>>

OnList(e) == \E h \in Heads : \E i \in DOMAIN lists[h] : lists[h][i] = e

Init ==
    /\ lists = [h \in Heads |-> <<>>]
    /\ call = <<"none">>

InsertHead(h, e) ==
    /\ call' = <<"INSERT_HEAD", h, e>>
    /\ ~OnList(e)
    /\ lists' = [lists EXCEPT ![h] = <<e>> \o @]

InsertTail(h, e) ==
    /\ call' = <<"INSERT_TAIL", h, e>>
    /\ ~OnList(e)
    /\ lists' = [lists EXCEPT ![h] = Append(@, e)]

InsertAfter(h, d, e) ==
    /\ call' = <<"INSERT_AFTER", h, d, e>>
    /\ ~OnList(e)
    /\ \E i \in DOMAIN lists[h] :
          lists[h][i] = d /\ lists' = [lists EXCEPT ![h] = InsertAt(@, i + 1, e)]

InsertBefore(h, d, e) ==
    /\ call' = <<"INSERT_BEFORE", d, e>>
    /\ ~OnList(e)
    /\ \E i \in DOMAIN lists[h] :
          lists[h][i] = d /\ lists' = [lists EXCEPT ![h] = InsertAt(@, i, e)]

Delete(h, e) ==
    /\ call' = <<"REMOVE", h, e>>
    /\ \E i \in DOMAIN lists[h] :
          lists[h][i] = e /\ lists' = [lists EXCEPT ![h] = RemoveAt(@, i)]

Replace(h, d, e) ==
    /\ call' = <<"REPLACE", h, d, e>>
    /\ ~OnList(e)
    /\ \E i \in DOMAIN lists[h] :
          lists[h][i] = d /\ lists' = [lists EXCEPT ![h][i] = e]

Concat(h, g) ==
    /\ h # g
    /\ call' = <<"CONCAT", h, g>>
    /\ lists' = [lists EXCEPT ![h] = @ \o lists[g], ![g] = <<>>]

Next ==
    \E h \in Heads :
       \/ \E e \in Elems : InsertHead(h, e) \/ InsertTail(h, e) \/ Delete(h, e)
       \/ \E d, e \in Elems :
             InsertAfter(h, d, e) \/ InsertBefore(h, d, e) \/ Replace(h, d, e)
       \/ \E g \in Heads : Concat(h, g)

Spec == Init /\ [][Next]_vars

=============================================================================
