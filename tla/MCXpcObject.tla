---------------------------- MODULE MCXpcObject ----------------------------
(* Instances of XpcObject for TLC. *)
EXTENDS XpcObject, TLC

\* Objects, handles and keys are interchangeable.
MCSymmetry == Permutations(Objects) \cup Permutations(Handles) \cup
              Permutations(Keys)
=============================================================================
