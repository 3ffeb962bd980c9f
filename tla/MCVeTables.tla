----------------------------- MODULE MCVeTables -----------------------------
(***************************************************************************)
(* Instances of VeDebugInfo, VeDmaBuf and VeLoad for TLC: the tables of     *)
(* cedar_ve.c that have an entry for a client and outlive it.  They share   *)
(* no variable of the driver, so a behaviour concerns one of them, chosen   *)
(* at the beginning: the numbers of states add up instead of multiplying.   *)
(***************************************************************************)
EXTENDS VeDebugInfo, VeDmaBuf, VeLoad, TLC

CONSTANTS t1, t2, t3, p1, p2, filp, x1, x2, h264

VARIABLE table   \* "debug", "dma" or "load"

MCFilpOf == [c \in Processes |-> filp]

MCPerformance == [m \in Decoders |-> <<[end |-> 4, freq |-> 200],
                                       [end |-> 7, freq |-> 900]>>]

MCClkRange == 50 .. 900

\* Clients {p1, p2} are the processes and the files, {x1, x2} the DMA buffers and
\* the channels of a file: one exchange for two tables is one permutation less.
MCSymmetry == Permutations({t1, t2, t3}) \cup Permutations({p1, p2})
                \cup Permutations({x1, x2})

TablesInit == /\ DebugInit /\ DmaInit /\ LoadInit
              /\ table \in {"debug", "dma", "load"}

Debugs == table = "debug" /\ DebugNext /\ UNCHANGED <<dmaVars, loadVars>>
Maps == table = "dma" /\ DmaNext /\ UNCHANGED <<debugVars, loadVars>>
Announces == table = "load" /\ LoadNext /\ UNCHANGED <<debugVars, dmaVars>>

TablesNext == (Debugs \/ Maps \/ Announces) /\ UNCHANGED table

TablesSpec == TablesInit /\ [][TablesNext]_<<debugVars, dmaVars, loadVars, table>>
=============================================================================
