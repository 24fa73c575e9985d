------------------------------ MODULE MCXpPci ------------------------------
(* Instances of XpPci for TLC. *)
EXTENDS XpPci
=============================================================================
