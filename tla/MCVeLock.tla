------------------------------ MODULE MCVeLock ------------------------------
(* Instances of VeLock for TLC. *)
EXTENDS VeLock, TLC

CONSTANTS t1, t2, t3, fa, fb, vdec, reg00

\* t1 and t2 share file fa, t3 has its own.
SharedFileOf == t1 :> fa @@ t2 :> fa @@ t3 :> fb

\* Each thread has a file of its own.
OwnFileOf == t1 :> fa @@ t2 :> fb

\* The engine lock is taken before the register lock.
NestedRank == vdec :> 1 @@ reg00 :> 2

ValidTypes == {{vdec}, {reg00}}

\* A client that passes two bits at once, as if the type were a mask.
AllTypes == {{vdec}, {reg00}, {vdec, reg00}}
=============================================================================
