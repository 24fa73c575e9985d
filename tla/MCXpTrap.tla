------------------------------ MODULE MCXpTrap ------------------------------
(* Instances of XpTrap for TLC. *)
EXTENDS XpTrap, TLC

CONSTANTS t1, t2, r1, r2, s1, a1, a2, a3

\* Each trap id has a reason code of its own.
OwnRc == t1 :> {r1} @@ t2 :> {r2}

\* A trap id may be registered with either reason code.
AnyRc == t1 :> {r1, r2} @@ t2 :> {r1, r2}

Memory == Permutations({a1, a2, a3})
=============================================================================
