------------------------------- MODULE MCVeIrq -------------------------------
(* Instances of VeIrq for TLC. *)
EXTENDS VeIrq, TLC

CONSTANTS t1, t2, t3
=============================================================================
