--------------------------- MODULE MCDatasetSync ---------------------------
(***************************************************************************)
(* Addresses of two bits: a network of two addresses and two single ones.  *)
(***************************************************************************)
EXTENDS DatasetSync

Half == <<1, 0>>
Left == <<2, 1>>
MCKeys == {Half, Left}
MCOrder == <<Half, Left>>

Map(ks, e) == [k \in ks |-> e]

MCContents == <<Map({Half}, 0), Map({Left}, 0)>>
MCBanned == {Left}
=============================================================================
