--------------------------- MODULE VeLockService ---------------------------
(***************************************************************************)
(* What the lock ioctls of the video engine promise, seen from outside:    *)
(* every lock is lent to at most one client at a time, and a loan ends     *)
(* only when that client gives the lock back or after it has gone away.    *)
(***************************************************************************)
CONSTANTS
  Locks,      \* the hardware parts that are handed out
  Threads,    \* the client threads
  NoThread    \* the holder of a free lock

VARIABLES
  holder,     \* holder[l]: who lock l is lent to
  clients     \* the threads that have the device open

vars == <<holder, clients>>

Init == /\ holder = [l \in Locks |-> NoThread]
        /\ clients = {}

Grant(t, l) == /\ t \in clients
               /\ holder[l] = NoThread
               /\ holder' = [holder EXCEPT ![l] = t]
               /\ UNCHANGED clients

Return(t, l) == /\ t \in clients
                /\ holder[l] = t
                /\ holder' = [holder EXCEPT ![l] = NoThread]
                /\ UNCHANGED clients

\* The holder went away without returning the lock.
Reclaim(l) == /\ holder[l] \notin clients
              /\ holder' = [holder EXCEPT ![l] = NoThread]
              /\ UNCHANGED clients

\* A newcomer starts with no lock, even if its predecessor died with one.
Join(t) == /\ t \notin clients
           /\ \A l \in Locks : holder[l] # t
           /\ clients' = clients \cup {t}
           /\ UNCHANGED holder

Leave(t) == /\ t \in clients
            /\ clients' = clients \ {t}
            /\ UNCHANGED holder

Next == \/ \E t \in Threads : Join(t) \/ Leave(t)
        \/ \E t \in Threads, l \in Locks : Grant(t, l) \/ Return(t, l)
        \/ \E l \in Locks : Reclaim(l)

Spec == Init /\ [][Next]_vars
=============================================================================
