--------------------------- MODULE MCRefreshTokens ---------------------------
(* Instances of RefreshTokens for TLC.                                       *)
EXTENDS RefreshTokens, TLC

MCSymmetry == Permutations(Requests)
=============================================================================
