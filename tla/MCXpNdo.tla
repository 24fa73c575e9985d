------------------------------ MODULE MCXpNdo -------------------------------
(* Instances of XpNdo for TLC. *)
EXTENDS XpNdo, TLC

Symmetry == Permutations(Devs)
=============================================================================
