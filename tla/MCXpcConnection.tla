--------------------------- MODULE MCXpcConnection ---------------------------
(* Three processes of one thread, and two processes one of which has two. *)
EXTENDS XpcConnection, TLC

CONSTANTS p1, p2, p3, t1, t2, t3

OneEach == (t1 :> p1) @@ (t2 :> p2) @@ (t3 :> p3)
TwoAndOne == (t1 :> p1) @@ (t2 :> p1) @@ (t3 :> p2)

Symmetric == Permutations(Conns) \cup Permutations(Names)

=============================================================================
