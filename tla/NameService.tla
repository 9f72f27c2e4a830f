----------------------------- MODULE NameService -----------------------------
(***************************************************************************)
(* What listener connections promise the system: a service name has one    *)
(* listening process at most, it becomes listened to by one process at a   *)
(* time, and it changes hands only through a moment when nobody listens.   *)
(* Module XpcConnection implements this.                                   *)
(***************************************************************************)
CONSTANTS Names, Processes, Nobody

VARIABLE listener

Init == listener = [n \in Names |-> Nobody]

\* A process begins to listen to a name nobody listens to.
Listen(p, n) ==
    /\ listener[n] = Nobody
    /\ listener' = [listener EXCEPT ![n] = p]

\* A process stops listening to one name, or at its end to all of its names.
Leave(p, S) ==
    /\ \A n \in S : listener[n] = p
    /\ listener' = [n \in Names |-> IF n \in S THEN Nobody ELSE listener[n]]

Next ==
    \E p \in Processes : \/ \E n \in Names : Listen(p, n)
                         \/ \E S \in SUBSET Names : Leave(p, S)

Spec == Init /\ [][Next]_listener

=============================================================================
