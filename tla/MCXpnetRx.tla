----------------------------- MODULE MCXpnetRx -----------------------------
(***************************************************************************)
(* Model-checking instances of XpnetRx.  Sequence numbers are counted      *)
(* modulo SeqMod > NumDesc + 1, more than a queue can have under way, so   *)
(* that the state space is finite without a bound on the packets.          *)
(***************************************************************************)
EXTENDS XpnetRx

=============================================================================
