-------------------------------- MODULE VeIrq --------------------------------
(***************************************************************************)
(* Completion interrupts of the video engine in cedar_ve.c: the handler    *)
(* VideoEngineInterupt writes irq_value and irq_flag without a lock,       *)
(* IOCTL_WAIT_VE_DE waits for the flag and returns the value, and          *)
(* cedardev_open and cedardev_release overwrite the flag when ref_count    *)
(* is 0.  The handler may run on another processor while a client runs in  *)
(* the driver.  The decoder, encoder and JPEG channels are three copies of *)
(* one protocol; the module models one of them.                            *)
(*                                                                         *)
(* A client opens the device, requests the engine, and runs jobs one by    *)
(* one under the engine lock (module VeLock), waiting for each.            *)
(***************************************************************************)
EXTENDS Integers

CONSTANTS
  Threads,   \* the clients, each with its own file
  NoThread   \* the owner of a job when there is none

ASSUME VeIrqAssumption == NoThread \notin Threads

VARIABLES
  irq_flag,   \* de_irq_flag
  irq_value,  \* de_irq_value
  isr,        \* "idle", or "value" between the handler's two writes
  job,        \* "none", "busy", "hung" or "done" (its interrupt was handled)
  owner,      \* the client whose job it is
  pc,         \* pc[t]: where client t is, see Location
  races       \* which of the races below have happened so far

vars == <<irq_flag, irq_value, isr, job, owner, pc, races>>

(***************************************************************************)
(* "handover": a client closed the device while nobody had requested the   *)
(* engine, but another client had the device open.  "late": a wait timed   *)
(* out while its job was still running.  "torn": a wait began between the  *)
(* two writes of the handler, which then ran on another processor.         *)
(***************************************************************************)
Race == {"handover", "late", "torn"}

Happened(r, condition) == races' = IF condition THEN races \cup {r} ELSE races

(***************************************************************************)
(* "open" has the file, "ready" also the engine; "run" has started a job.  *)
(* In the ioctl, "check" has cleared irq_value, "sleep" is in              *)
(* wait_event_timeout, "take" has left it, and "ret" has cleared the flag. *)
(***************************************************************************)
Location == {"closed", "open", "ready", "run", "check", "sleep", "take", "ret"}

Requested(t) == pc[t] \notin {"closed", "open"}

\* ref_count = 0, for clients that pair their requests (module VeEngine).
NoRef == \A t \in Threads : ~Requested(t)

Go(t, from, to) == /\ pc[t] = from
                   /\ pc' = [pc EXCEPT ![t] = to]

Init == /\ irq_flag = 0
        /\ irq_value = 0
        /\ isr = "idle"
        /\ job = "none"
        /\ owner = NoThread
        /\ pc = [t \in Threads |-> "closed"]
        /\ races = {}

-----------------------------------------------------------------------------
(* cedardev_open, ENGINE_REQ, ENGINE_REL and cedardev_release.             *)

Open(t) == /\ Go(t, "closed", "open")
           /\ irq_flag' = IF NoRef THEN 0 ELSE irq_flag
           /\ UNCHANGED <<irq_value, isr, job, owner, races>>

EngineReq(t) == /\ Go(t, "open", "ready")
                /\ UNCHANGED <<irq_flag, irq_value, isr, job, owner, races>>

EngineRel(t) == /\ owner # t
                /\ Go(t, "ready", "open")
                /\ UNCHANGED <<irq_flag, irq_value, isr, job, owner, races>>

\* With no user left the flags are set "to release other resource".
Close(t) == /\ Go(t, "open", "closed")
            /\ irq_flag' = IF NoRef THEN 1 ELSE irq_flag
            /\ Happened("handover", NoRef /\ \E u \in Threads \ {t} : pc[u] = "open")
            /\ UNCHANGED <<irq_value, isr, job, owner>>

-----------------------------------------------------------------------------
(* The engine and VideoEngineInterupt.                                     *)

\* The client writes the registers that start a job.
Start(t) == /\ owner = NoThread
            /\ Go(t, "ready", "run")
            /\ owner' = t
            /\ job' = "busy"
            /\ UNCHANGED <<irq_flag, irq_value, isr, races>>

Hang == /\ job = "busy"
        /\ isr = "idle"
        /\ job' = "hung"
        /\ UNCHANGED <<irq_flag, irq_value, isr, owner, pc, races>>

\* The status bit is up and enabled: mask the interrupt, value = 1, ...
IsrValue == /\ job = "busy"
            /\ isr = "idle"
            /\ isr' = "value"
            /\ irq_value' = 1
            /\ UNCHANGED <<irq_flag, job, owner, pc, races>>

\* ... flag = 1, wake_up.
IsrFlag == /\ isr = "value"
           /\ isr' = "idle"
           /\ irq_flag' = 1
           /\ job' = IF job = "busy" THEN "done" ELSE job
           /\ UNCHANGED <<irq_value, owner, pc, races>>

-----------------------------------------------------------------------------
(* IOCTL_WAIT_VE_DE.                                                       *)

WaitBegin(t) == /\ Go(t, "run", "check")
                /\ irq_value' = 0
                /\ Happened("torn", isr = "value")
                /\ UNCHANGED <<irq_flag, isr, job, owner>>

\* Faulty variant: an interrupt that came before the call is not noted.
WaitCheckNothing(t) == /\ Go(t, "check", "sleep")
                       /\ UNCHANGED <<irq_flag, irq_value, isr, job, owner, races>>

\* Under the spinlock: the interrupt may have come before the call.
WaitCheck(t) == /\ Go(t, "check", "sleep")
                /\ irq_value' = IF irq_flag = 1 THEN 1 ELSE irq_value
                /\ UNCHANGED <<irq_flag, isr, job, owner, races>>

WaitWake(t) == /\ irq_flag = 1
               /\ Go(t, "sleep", "take")
               /\ UNCHANGED <<irq_flag, irq_value, isr, job, owner, races>>

\* Faulty variant: wait_event in the place of wait_event_timeout.
WaitTimeoutNever(t) == FALSE /\ pc[t] = "sleep" /\ UNCHANGED vars

WaitTimeout(t) == /\ irq_flag = 0
                  /\ Go(t, "sleep", "take")
                  /\ Happened("late", job = "busy")
                  /\ UNCHANGED <<irq_flag, irq_value, isr, job, owner>>

\* Faulty variant: the flag is not consumed.
WaitTakeNothing(t) == /\ Go(t, "take", "ret")
                      /\ UNCHANGED <<irq_flag, irq_value, isr, job, owner, races>>

WaitTake(t) == /\ Go(t, "take", "ret")
               /\ irq_flag' = 0
               /\ UNCHANGED <<irq_value, isr, job, owner, races>>

\* The call returns irq_value; a client that is told 0 resets the engine.
WaitReturn(t) == /\ Go(t, "ret", "ready")
                 /\ job' = "none"
                 /\ owner' = NoThread
                 /\ UNCHANGED <<irq_flag, irq_value, isr, races>>

-----------------------------------------------------------------------------
Session(t) == Open(t) \/ EngineReq(t) \/ EngineRel(t) \/ Close(t) \/ Start(t)

Wait(t) == WaitBegin(t) \/ WaitCheck(t) \/ WaitWake(t) \/ WaitTimeout(t)
           \/ WaitTake(t) \/ WaitReturn(t)

Isr == IsrValue \/ IsrFlag

Next == \/ \E t \in Threads : Session(t) \/ Wait(t)
        \/ Isr
        \/ Hang

Spec == Init /\ [][Next]_vars

\* A job ends, in an interrupt or by hanging; timers expire; threads in the
\* driver run; a client that has started a job waits for it.
FairSpec == Spec /\ WF_vars(Isr) /\ \A t \in Threads : WF_vars(Wait(t))

-----------------------------------------------------------------------------
(* Properties.                                                             *)

\* Every variable stays in its range.
TypeOK == /\ irq_flag \in {0, 1}
          /\ irq_value \in {0, 1}
          /\ isr \in {"idle", "value"}
          /\ job \in {"none", "busy", "hung", "done"}
          /\ owner \in Threads \cup {NoThread}
          /\ pc \in [Threads -> Location]
          /\ races \in SUBSET Race

\* "flag of video decoder engine irq generated" (cedar_ve.c:260): a wait that
\* reports an interrupt is for a job whose interrupt was generated, unless a
\* client has left in the middle of another's session or a wait has timed out
\* too early.
NoSpurious ==
  [][\A t \in Threads : WaitReturn(t) /\ irq_value = 1 =>
       job = "done" \/ races \cap {"handover", "late"} # {}]_vars

\* A wait whose job was completed by an interrupt returns 1, not the 0 of a
\* timeout, unless it began between the two writes of the handler.
NoLost ==
  [][\A t \in Threads : WaitReturn(t) /\ job = "done" =>
       irq_value = 1 \/ "torn" \in races]_vars

\* "value of video decoder engine irq" (cedar_ve.c:261): the value returned
\* for a completed job is 1, if its wait was not cut short by the timer.
NeverLost ==
  [][\A t \in Threads : WaitReturn(t) /\ job = "done" =>
       irq_value = 1 \/ "late" \in races]_vars

\* Between jobs no completion is left over for the next job's wait to find,
\* with the same two exceptions as in NoSpurious.
NoLeftover == (owner = NoThread /\ ~NoRef) =>
                \/ irq_flag = 0 /\ isr = "idle"
                \/ races \cap {"handover", "late"} # {}

InWait(t) == pc[t] \in {"run", "check", "sleep", "take", "ret"}

\* The client that waits is the owner of the job, and there is only one.
OwnerPhase == /\ \A t \in Threads : owner = t <=> InWait(t)
              /\ owner = NoThread <=> job = "none"

\* The flag of a completed job stays until its wait takes it, and the value
\* that the handler wrote reaches the end of the wait.
DonePhase ==
  /\ isr = "value" => irq_value = 1 \/ "torn" \in races
  /\ \A t \in Threads : InWait(t) /\ job = "done" =>
       /\ pc[t] # "ret" => irq_flag = 1
       /\ pc[t] \in {"sleep", "take", "ret"} => irq_value = 1 \/ "torn" \in races

\* A flag belongs to a completed job that has not been told of it, or was set
\* by the last client to leave; a value was written for the current job.
JobPhase ==
  /\ isr = "value" => job = "busy"
  /\ irq_flag = 1 => \/ \E t \in Threads : InWait(t) /\ pc[t] # "ret" /\ job = "done"
                     \/ \A t \in Threads : pc[t] = "closed"
  /\ \A t \in Threads :
       /\ pc[t] \in {"take", "ret"} => job \in {"done", "hung"}
       /\ InWait(t) /\ pc[t] # "run" /\ irq_value = 1 => job = "done" \/ isr = "value"

\* The inductive invariant: where the flag and the value come from, at every
\* point of a wait.
Inv == /\ TypeOK /\ OwnerPhase /\ DonePhase
       /\ races \cap {"handover", "late"} = {} => JobPhase

\* A wait always ends: by the interrupt, whether it comes before, during or
\* after the test of the flag, or by the timeout when the job hangs or its
\* interrupt is lost.
WaitEnds == \A t \in Threads : pc[t] = "run" ~> pc[t] = "ready"
=============================================================================
