----------------------------- MODULE MCBreaker -----------------------------
(* Two workers and one inspector, in a zone nobody has used yet.           *)
EXTENDS Breaker, TLC

CONSTANTS w1, w2

SameTag == [w \in Workers |-> 1]
Symmetric == Permutations({w1, w2})
=============================================================================
