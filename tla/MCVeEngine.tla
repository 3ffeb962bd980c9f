----------------------------- MODULE MCVeEngine -----------------------------
(* Instances of VeEngine for TLC. *)
EXTENDS VeEngine, TLC

CONSTANTS t1, t2, t3
=============================================================================
