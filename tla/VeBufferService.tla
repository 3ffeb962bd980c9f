-------------------------- MODULE VeBufferService --------------------------
(***************************************************************************)
(* What the mapping ioctls promise about DMA buffers, seen from outside: a  *)
(* mapping comes about at once or not at all, stays until the process that  *)
(* made it ends it under the descriptor it was made with, and a buffer is   *)
(* freed in the step that takes the last of those away who name it, are     *)
(* mapping it or have mapped it, neither before nor later.  How the driver  *)
(* counts references, attachments and mappings does not appear.             *)
(***************************************************************************)
EXTENDS Naturals

CONSTANTS
  Processes,  \* the client processes
  Fds,        \* the descriptor numbers of each process
  Bufs,       \* the DMA buffers
  NoBuf       \* no buffer

VARIABLES
  names,      \* names[c][n]: the buffer that descriptor n of process c names
  pins,       \* pins[c]: the buffer that c is mapping
  maps,       \* maps[<<c, n, b>>]: how often c has mapped b as n
  freed       \* the buffers that are gone

vars == <<names, pins, maps, freed>>

Init == /\ names = [c \in Processes |-> [n \in Fds |-> NoBuf]]
        /\ pins = [c \in Processes |-> NoBuf]
        /\ maps = [h \in Processes \X Fds \X Bufs |-> 0]
        /\ freed = {}

Referenced(b) ==
  \E c \in Processes :
    pins[c] = b \/ \E n \in Fds : names[c][n] = b \/ maps[<<c, n, b>>] > 0

\* What loses its last reference in this step is freed, and nothing else.
Frees == freed' = freed \cup {b \in Bufs : Referenced(b) /\ ~Referenced(b)'}

Name(c, n, b) == /\ names[c][n] = NoBuf
                 /\ b \notin freed
                 /\ names' = [names EXCEPT ![c][n] = b]
                 /\ UNCHANGED <<pins, maps, freed>>

Unname(c, n) == /\ names[c][n] # NoBuf
                /\ names' = [names EXCEPT ![c][n] = NoBuf]
                /\ UNCHANGED <<pins, maps>>
                /\ Frees

Leave(c) == /\ names' = [names EXCEPT ![c] = [n \in Fds |-> NoBuf]]
            /\ UNCHANGED <<pins, maps>>
            /\ Frees

Begin(c, n) == /\ pins[c] = NoBuf
               /\ names[c][n] # NoBuf
               /\ pins' = [pins EXCEPT ![c] = names[c][n]]
               /\ UNCHANGED <<names, maps, freed>>

\* The mapping fails, at whatever step, and leaves nothing.
Fail(c) == /\ pins[c] # NoBuf
           /\ pins' = [pins EXCEPT ![c] = NoBuf]
           /\ UNCHANGED <<names, maps>>
           /\ Frees

\* The descriptor still names the buffer.
Finish(c, n) == /\ pins[c] # NoBuf
                /\ names[c][n] = pins[c]
                /\ maps' = [maps EXCEPT ![<<c, n, pins[c]>>] = @ + 1]
                /\ pins' = [pins EXCEPT ![c] = NoBuf]
                /\ UNCHANGED <<names, freed>>

End(c, n, b) == /\ maps[<<c, n, b>>] > 0
                /\ maps' = [maps EXCEPT ![<<c, n, b>>] = @ - 1]
                /\ UNCHANGED <<names, pins>>
                /\ Frees

Next == \E c \in Processes :
          \/ Leave(c) \/ Fail(c)
          \/ \E n \in Fds : \/ Unname(c, n) \/ Begin(c, n) \/ Finish(c, n)
                            \/ \E b \in Bufs : Name(c, n, b) \/ End(c, n, b)

Spec == Init /\ [][Next]_vars
=============================================================================
