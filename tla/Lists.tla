-------------------------------- MODULE Lists --------------------------------
(***************************************************************************)
(* What Vec::retain and Iterator::filter leave of a list, and Vec::remove. *)
(* SelectSeq says what retain does by recursion; here it is said by        *)
(* places, so that it can be reasoned about.                               *)
(***************************************************************************)
EXTENDS Integers, Sequences, FiniteSets

\* The items of s at the places in kept, in their order: the k-th is the one
\* up to which there are k.
Picked(s, kept) ==
  [k \in 1..Cardinality(kept) |->
     s[CHOOSE i \in kept : Cardinality(kept \cap 1..i) = k]]

Retain(s, Test(_)) == Picked(s, {i \in DOMAIN s : Test(s[i])})

Without(s, i) == SubSeq(s, 1, i - 1) \o SubSeq(s, i + 1, Len(s))
=============================================================================
