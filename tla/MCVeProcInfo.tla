---------------------------- MODULE MCVeProcInfo ----------------------------
(* Instance of VeProcInfo for TLC: two clients share channel 0.              *)
EXTENDS VeProcInfo

CONSTANTS c1, c2, c3

MCChannelOf == [c \in Clients |-> IF c = c3 THEN 1 ELSE 0]

MCProcSpec == ProcSpec /\ ProcFairness
=============================================================================
