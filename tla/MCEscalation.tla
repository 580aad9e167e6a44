---------------------------- MODULE MCEscalation ----------------------------
(* Instances of Escalation for TLC.                                         *)
EXTENDS Escalation, TLC

CONSTANTS i1, i2, d1, d2, heat, auto

MCSymmetry == Permutations({i1, i2})
MCDeviceSymmetry == Permutations({d1, d2})
=============================================================================
