----------------------------- MODULE MCXpDmaMem -----------------------------
(* Instances of XpDmaMem for TLC. *)
EXTENDS XpDmaMem, TLC

Symmetry == Permutations(Areas)
=============================================================================
