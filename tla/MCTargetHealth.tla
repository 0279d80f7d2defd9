---------------------------- MODULE MCTargetHealth ----------------------------
(* Instances of TargetHealth for TLC. *)
EXTENDS TargetHealth

CONSTANTS w1, w2, p1
=============================================================================
