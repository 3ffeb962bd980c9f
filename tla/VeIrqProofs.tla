----------------------------- MODULE VeIrqProofs -----------------------------
(***************************************************************************)
(* Theorems about VeIrq, for any number of clients.                        *)
(***************************************************************************)
EXTENDS VeIrq, TLAPS

LEMMA InvInit == Init => Inv
BY VeIrqAssumption DEF Init, Inv, TypeOK, OwnerPhase, DonePhase, JobPhase, InWait, Location, Race

\* The steps of one client keep the type and the phases.
LEMMA InvStep == ASSUME Inv, [Next]_vars PROVE Inv'
<1> USE VeIrqAssumption DEF Inv, TypeOK, OwnerPhase, DonePhase, JobPhase, InWait, Location, Race,
        Go, Happened
<1>1. ASSUME NEW t \in Threads, Open(t) PROVE Inv'
  BY <1>1 DEF Open, NoRef, Requested
<1>2. ASSUME NEW t \in Threads, EngineReq(t) PROVE Inv'
  BY <1>2 DEF EngineReq
<1>3. ASSUME NEW t \in Threads, EngineRel(t) PROVE Inv'
  BY <1>3 DEF EngineRel
<1>4. ASSUME NEW t \in Threads, Close(t) PROVE Inv'
  BY <1>4 DEF Close, NoRef, Requested
<1>5. ASSUME NEW t \in Threads, Start(t) PROVE Inv'
  BY <1>5 DEF Start
<1>6. ASSUME NEW t \in Threads, WaitBegin(t) PROVE Inv'
  BY <1>6 DEF WaitBegin
<1>7. ASSUME NEW t \in Threads, WaitCheck(t) PROVE Inv'
  BY <1>7 DEF WaitCheck
<1>8. ASSUME NEW t \in Threads, WaitWake(t) PROVE Inv'
  BY <1>8 DEF WaitWake
<1>9. ASSUME NEW t \in Threads, WaitTimeout(t) PROVE Inv'
  BY <1>9 DEF WaitTimeout
<1>10. ASSUME NEW t \in Threads, WaitTake(t) PROVE Inv'
  BY <1>10 DEF WaitTake
<1>11. ASSUME NEW t \in Threads, WaitReturn(t) PROVE Inv'
  BY <1>11 DEF WaitReturn
<1>12. CASE Isr
  BY <1>12 DEF Isr, IsrValue, IsrFlag
<1>13. CASE Hang
  BY <1>13 DEF Hang
<1>14. CASE UNCHANGED vars
  BY <1>14 DEF vars
<1> QED
  BY <1>1, <1>2, <1>3, <1>4, <1>5, <1>6, <1>7, <1>8, <1>9, <1>10, <1>11, <1>12, <1>13, <1>14
  DEF Next, Session, Wait

\* At every point of a wait, the flag and the value of VideoEngineInterupt are
\* where IOCTL_WAIT_VE_DE expects them.
THEOREM Invariance == Spec => []Inv
BY InvInit, InvStep, PTL DEF Spec

\* "flag of video decoder engine irq generated": a wait reports an interrupt
\* only for a completed job, outside the races of a close between sessions and
\* of a wait that is too short.
THEOREM NothingSpurious == Spec => NoSpurious
<1>1. ASSUME Inv, [Next]_vars
      PROVE  [\A t \in Threads : WaitReturn(t) /\ irq_value = 1 =>
                job = "done" \/ races \cap {"handover", "late"} # {}]_vars
  BY <1>1 DEF Inv, JobPhase, InWait, WaitReturn, Go
<1> QED BY Invariance, <1>1, PTL DEF Spec, NoSpurious

\* A wait whose job was completed returns 1, unless it began between the two
\* writes of the handler.
THEOREM NothingLost == Spec => NoLost
<1>1. ASSUME Inv, [Next]_vars
      PROVE  [\A t \in Threads : WaitReturn(t) /\ job = "done" =>
                irq_value = 1 \/ "torn" \in races]_vars
  BY <1>1 DEF Inv, DonePhase, InWait, WaitReturn, Go
<1> QED BY Invariance, <1>1, PTL DEF Spec, NoLost

\* Between jobs neither the flag nor a handler in its middle is left over.
THEOREM NothingLeft == Spec => []NoLeftover
<1>1. Inv => NoLeftover
  BY DEF Inv, TypeOK, OwnerPhase, JobPhase, InWait, NoLeftover, NoRef, Requested, Location
<1> QED BY Invariance, <1>1, PTL
=============================================================================
