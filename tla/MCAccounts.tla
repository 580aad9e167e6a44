------------------------------ MODULE MCAccounts ------------------------------
(* Instances of Accounts for TLC.                                            *)
EXTENDS Accounts, TLC

CONSTANTS lo, up

\* One address in lower case and in another spelling.
MCLower == lo :> lo @@ up :> lo
MCSymmetry == Permutations(Requests) \cup Permutations(Clients)
=============================================================================
