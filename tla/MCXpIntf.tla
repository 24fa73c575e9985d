------------------------------ MODULE MCXpIntf ------------------------------
(* Instance of XpIntf for TLC. *)
EXTENDS XpIntf, TLC

Symmetry == Permutations(Ids)
=============================================================================
