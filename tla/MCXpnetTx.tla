----------------------------- MODULE MCXpnetTx -----------------------------
(***************************************************************************)
(* Model-checking instances of XpnetTx.  The senders are interchangeable   *)
(* and so are the payloads: no action and no property names one of them.   *)
(***************************************************************************)
EXTENDS XpnetTx, TLC

Symmetry == Permutations(Senders) \cup Permutations(Payloads)

=============================================================================
