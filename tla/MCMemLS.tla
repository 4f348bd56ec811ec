------------------------------ MODULE MCMemLS -------------------------------
(* A small instance of MemLS: locks on "/" and on /a/b, whose parent /a is *)
(* a node of the tree without a lock of its own.                           *)
EXTENDS MemLS, TLC

CONSTANTS x1, x2

TwoPaths == {<<>>, <<"a", "b">>}
AnyClaimant == Permutations(Claimants)
Lifetimes == {Infinite, 1}

(* The reply is only compared, transition by transition, with the one the  *)
(* lock table gives; no step depends on it.                                *)
WithoutReply == <<clock, byName, byToken, gen, byExpiry, released>>
=============================================================================
