------------------------------- MODULE MCXpIrq -------------------------------
(* Instances of XpIrq for TLC. *)
EXTENDS XpIrq
=============================================================================
