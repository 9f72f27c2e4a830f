------------------------------- MODULE MCTailq -------------------------------
(* Tail queues of a few elements, for TLC. *)
EXTENDS Tailq

\* The links of fresh elements hold anything, but the same in all of them, and
\* one element stands for all.
SameJunk ==
    LET some == CHOOSE e \in Elems : TRUE
    IN  \A e \in Elems : next[e] \in {NULL, some} /\ prev[e] \in Heads \cup {some}
                         /\ next[e] = next[some] /\ prev[e] = prev[some]

MCInit == Init /\ SameJunk

MCSpec == MCInit /\ [][Next]_vars /\ Fairness

=============================================================================
