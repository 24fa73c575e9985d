---------------------------- MODULE MCXpNetlink -----------------------------
(* Instances of XpNetlink for TLC. *)
EXTENDS XpNetlink
=============================================================================
