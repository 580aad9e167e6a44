---------------------------- MODULE MCAlertStream ----------------------------
(* Instances of AlertStream for TLC.                                         *)
EXTENDS AlertStream, TLC

CONSTANTS s1, s2, c1, c2, d1, d2, d3, g1, g2

\* d1 and d2 belong to c1, d3 to c2.
MCOwner == d1 :> c1 @@ d2 :> c1 @@ d3 :> c2
\* A single client with a single device: every alert is for everybody.
MCSoleOwner == d1 :> c1
MCSymmetry == Permutations({s1, s2})
=============================================================================
