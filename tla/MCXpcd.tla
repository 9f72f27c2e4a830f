------------------------------- MODULE MCXpcd -------------------------------
(* Instances of Xpcd for TLC. *)
EXTENDS Xpcd

\* Standard descriptors only; further ones inside, at the edge of and above the
\* range that is cleared.
MCInheritedSets == {{0, 1, 2}, {0, 1, 2, 7, 1022, 1025}}

\* The first descriptor above that range.
MCInheritedHigh == {{0, 1, 2, 1023}}
=============================================================================
