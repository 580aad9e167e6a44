---------------------------- MODULE MCDeviceReads ----------------------------
(* DeviceReads for TLC: names, and keys never compared, are interchangeable. *)
EXTENDS DeviceReads, TLC

MCSymmetry == Permutations(Names) \cup Permutations(Keys)
=============================================================================
