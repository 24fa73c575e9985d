--------------------------- MODULE MCXpNetdevLife ---------------------------
(* Instances of XpNetdevLife for TLC. *)
EXTENDS XpNetdevLife
=============================================================================
