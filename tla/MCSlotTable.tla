---------------------------- MODULE MCSlotTable ----------------------------
(* SlotTable on two slots, three requests and four generations, so that    *)
(* the generation counter wraps, the table fills up and slots change hands. *)
EXTENDS SlotTable, TLC

CONSTANTS c1, c2, c3

MCCtxs == {c1, c2, c3}

Symmetry == Permutations(MCCtxs)

=============================================================================
