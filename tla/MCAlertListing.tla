--------------------------- MODULE MCAlertListing ---------------------------
(* Instances of AlertListing for TLC.                                       *)
EXTENDS AlertListing, TLC

CONSTANTS c1, d1, d2, smoke

MCOwner == d1 :> c1 @@ d2 :> c1
MCILike == smoke :> {smoke}
MCSymmetry == Permutations(Devices)
=============================================================================
