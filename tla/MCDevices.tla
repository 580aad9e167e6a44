------------------------------ MODULE MCDevices ------------------------------
(* Devices for TLC: names, clients and requests are interchangeable.       *)
EXTENDS Devices, TLC

MCSymmetry ==
    Permutations(Clients) \cup Permutations(Names) \cup Permutations(Requests)
=============================================================================
