--------------------------- MODULE VeEngineProofs ---------------------------
(***************************************************************************)
(* Theorems about VeEngine, for any number of threads.                     *)
(***************************************************************************)
EXTENDS VeEngine, FiniteSetTheorems, TLAPS

LEMMA TypeInit == Init => TypeOK
<1> SUFFICES ASSUME Init PROVE TypeOK
  OBVIOUS
<1>1. suspended \in BOOLEAN
  BY DEF Init
<1>2. sem \in Threads \cup {NoThread} /\ pc \in [Threads -> Location]
  BY DEF Init, Location
<1>3. count \in [Supplies -> Nat]
  BY DEF Init
<1>4. /\ ref_count \in Int
      /\ clk_status \in {0, 1}
      /\ reset \in {"asserted", "deasserted"}
  BY DEF Init
<1>5. /\ using \in SUBSET Threads
      /\ extra \in SUBSET Threads
      /\ lost \in Nat
      /\ faults \in SUBSET {"misuse", "unpaired", "failure"}
  BY DEF Init
<1> QED BY <1>1, <1>2, <1>3, <1>4, <1>5 DEF TypeOK

\* Switching keeps the counts natural, and the reset line one of its two.
LEMMA SwitchType ==
  ASSUME count \in [Supplies -> Nat], SwitchOn \/ SwitchOff \/ SwitchOnFails
  PROVE  count' \in [Supplies -> Nat] /\ reset' \in {"asserted", "deasserted"}
<1>1. CASE SwitchOn
  BY <1>1 DEF SwitchOn
<1>2. CASE SwitchOff
  BY <1>2 DEF SwitchOff, Less
<1>3. CASE SwitchOnFails
  <2>1. PICK c \in Clocks : EnableUpTo(c)
    BY <1>3 DEF SwitchOnFails
  <2> QED BY <1>3, <2>1 DEF SwitchOnFails, EnableUpTo
<1> QED BY <1>1, <1>2, <1>3

LEMMA TypeStep == ASSUME TypeOK, [Next]_vars PROVE TypeOK'
<1> USE VeEngineAssumption DEF TypeOK, Location
<1>1. ASSUME NEW t \in Threads, EngineReq(t) PROVE TypeOK'
  BY <1>1 DEF EngineReq, Down, view, hw
<1>2. ASSUME NEW t \in Threads, EngineRel(t) PROVE TypeOK'
  BY <1>2 DEF EngineRel, Down, view, hw
<1>3. ASSUME NEW t \in Threads, EnableVe(t) \/ DisableVe(t) PROVE TypeOK'
  <2>1. count' \in [Supplies -> Nat]
    BY <1>3 DEF EnableVe, DisableVe, Less, Supplies, Clocks
  <2>2. extra' \in SUBSET Threads
    BY <1>3 DEF EnableVe, DisableVe
  <2>3. faults' \in SUBSET {"misuse", "unpaired", "failure"}
    BY <1>3 DEF EnableVe, DisableVe
  <2>4. UNCHANGED <<ref_count, sem, clk_status, reset, suspended, pc, using, lost>>
    BY <1>3 DEF EnableVe, DisableVe
  <2> QED BY <2>1, <2>2, <2>3, <2>4
<1>4. ASSUME NEW t \in Threads, ResetVe(t) PROVE TypeOK'
  BY <1>4 DEF ResetVe, view, hw
<1>5. ASSUME NEW t \in Threads, SetRefCount(t) PROVE TypeOK'
  BY <1>5 DEF SetRefCount, view, hw
<1>6. ASSUME NEW t \in Threads, Die(t) PROVE TypeOK'
  BY <1>6 DEF Die, view, hw
<1>7. ASSUME NEW t \in Threads, ReqCount(t) PROVE TypeOK'
  <2>1. ref_count' \in Int
    BY <1>7 DEF ReqCount
  <2>2. sem' \in Threads \cup {NoThread} /\ pc' \in [Threads -> Location]
    BY <1>7 DEF ReqCount, Granted, Up
  <2>3. using' \in SUBSET Threads /\ UNCHANGED <<extra, lost, faults>>
    BY <1>7 DEF ReqCount, Granted, view
  <2>4. UNCHANGED <<clk_status, count, reset, suspended>>
    BY <1>7 DEF ReqCount, hw
  <2> QED BY <2>1, <2>2, <2>3, <2>4
<1>8. ASSUME NEW t \in Threads, ReqClk(t) PROVE TypeOK'
  <2>1. sem' \in Threads \cup {NoThread} /\ pc' \in [Threads -> Location]
    BY <1>8 DEF ReqClk, Granted, Up
  <2>2. using' \in SUBSET Threads /\ UNCHANGED <<extra, lost, faults>>
    BY <1>8 DEF ReqClk, Granted, view
  <2>3. clk_status' \in {0, 1} /\ UNCHANGED <<ref_count, count, reset, suspended>>
    BY <1>8 DEF ReqClk, hw
  <2> QED BY <2>1, <2>2, <2>3
<1>9. ASSUME NEW t \in Threads, ReqOn(t) PROVE TypeOK'
  <2>1. count' \in [Supplies -> Nat] /\ reset' \in {"asserted", "deasserted"}
    BY <1>9, SwitchType DEF ReqOn
  <2>2. sem' \in Threads \cup {NoThread} /\ pc' \in [Threads -> Location]
    BY <1>9 DEF ReqOn, Granted, Up
  <2>3. using' \in SUBSET Threads /\ faults' \in SUBSET {"misuse", "unpaired", "failure"}
    BY <1>9 DEF ReqOn, Granted, SwitchOnFails
  <2>4. ref_count' \in Int /\ UNCHANGED <<extra, lost, clk_status, suspended>>
    BY <1>9 DEF ReqOn, Granted
  <2> QED BY <2>1, <2>2, <2>3, <2>4
<1>10. ASSUME NEW t \in Threads, RelCount(t) PROVE TypeOK'
  <2>1. sem' \in Threads \cup {NoThread} /\ pc' \in [Threads -> Location]
    BY <1>10 DEF RelCount, Up
  <2>2. ref_count' \in Int /\ UNCHANGED <<clk_status, count, reset, suspended, view>>
    BY <1>10 DEF RelCount, hw
  <2> QED BY <2>1, <2>2 DEF view
<1>11. ASSUME NEW t \in Threads, RelClk(t) PROVE TypeOK'
  <2>1. sem' \in Threads \cup {NoThread} /\ pc' \in [Threads -> Location]
    BY <1>11 DEF RelClk, Up
  <2>2. clk_status' \in {0, 1} /\ UNCHANGED <<ref_count, count, reset, suspended, view>>
    BY <1>11 DEF RelClk, hw
  <2> QED BY <2>1, <2>2 DEF view
<1>12. ASSUME NEW t \in Threads, RelOff(t) PROVE TypeOK'
  <2>1. count' \in [Supplies -> Nat] /\ reset' \in {"asserted", "deasserted"}
    BY <1>12, SwitchType DEF RelOff
  <2> QED BY <1>12, <2>1 DEF RelOff, Up, view
<1>13. CASE Suspend
  <2>1. count' \in [Supplies -> Nat] /\ reset' \in {"asserted", "deasserted"}
    BY <1>13, SwitchType DEF Suspend, hw
  <2>2. suspended' \in BOOLEAN
    BY <1>13 DEF Suspend
  <2>3. clk_status' \in {0, 1} /\ UNCHANGED <<ref_count, sem, pc, view>>
    BY <1>13 DEF Suspend
  <2> QED BY <2>1, <2>2, <2>3 DEF view
<1>14. CASE Resume
  <2>1. count' \in [Supplies -> Nat] /\ reset' \in {"asserted", "deasserted"}
    BY <1>14, SwitchType DEF Resume, hw
  <2>2. suspended' \in BOOLEAN
    BY <1>14 DEF Resume
  <2>3. /\ clk_status' \in {0, 1}
        /\ faults' \in SUBSET {"misuse", "unpaired", "failure"}
        /\ UNCHANGED <<ref_count, sem, pc, using, extra, lost>>
    BY <1>14 DEF Resume, SwitchOnFails, view
  <2> QED BY <2>1, <2>2, <2>3
<1>15. CASE UNCHANGED vars
  BY <1>15 DEF vars, view, hw
<1> QED
  BY <1>1, <1>2, <1>3, <1>4, <1>5, <1>6, <1>7, <1>8, <1>9, <1>10, <1>11, <1>12, <1>13, <1>14, <1>15
  DEF Next, Call, InSem

-----------------------------------------------------------------------------
(* The semaphore and clk_status, whatever has gone wrong.                  *)

LEMMA SemStep == ASSUME TypeOK, SemOwned, ClkPhase, [Next]_vars
                 PROVE  SemOwned' /\ ClkPhase'
<1> USE VeEngineAssumption DEF TypeOK, Location, SemOwned, ClkPhase
<1>1. ASSUME NEW t \in Threads, EngineReq(t) PROVE SemOwned' /\ ClkPhase'
  BY <1>1 DEF EngineReq, Down, Awake, view
<1>2. ASSUME NEW t \in Threads, EngineRel(t) PROVE SemOwned' /\ ClkPhase'
  BY <1>2 DEF EngineRel, Down, Awake
<1>3. ASSUME NEW t \in Threads,
             EnableVe(t) \/ DisableVe(t) \/ ResetVe(t) \/ SetRefCount(t) \/ Die(t)
      PROVE  SemOwned' /\ ClkPhase'
  BY <1>3 DEF EnableVe, DisableVe, ResetVe, SetRefCount, Die
<1>4. ASSUME NEW t \in Threads, ReqCount(t) PROVE SemOwned' /\ ClkPhase'
  BY <1>4 DEF ReqCount, Granted, Up, view
<1>5. ASSUME NEW t \in Threads, ReqClk(t) PROVE SemOwned' /\ ClkPhase'
  BY <1>5 DEF ReqClk, Granted, Up, view
<1>6. ASSUME NEW t \in Threads, ReqOn(t) PROVE SemOwned' /\ ClkPhase'
  BY <1>6 DEF ReqOn, Granted, Up
<1>7. ASSUME NEW t \in Threads, RelCount(t) PROVE SemOwned' /\ ClkPhase'
  BY <1>7 DEF RelCount, Up, view
<1>8. ASSUME NEW t \in Threads, RelClk(t) PROVE SemOwned' /\ ClkPhase'
  BY <1>8 DEF RelClk, Up, view
<1>9. ASSUME NEW t \in Threads, RelOff(t) PROVE SemOwned' /\ ClkPhase'
  BY <1>9 DEF RelOff, Up, view
<1>10. CASE Suspend
  BY <1>10 DEF Suspend, view
<1>11. CASE Resume
  BY <1>11 DEF Resume, view
<1>12. CASE UNCHANGED vars
  BY <1>12 DEF vars, view
<1> QED
  BY <1>1, <1>2, <1>3, <1>4, <1>5, <1>6, <1>7, <1>8, <1>9, <1>10, <1>11, <1>12 DEF Next, Call, InSem

-----------------------------------------------------------------------------
(* The number of users.                                                    *)

LEMMA FiniteCounted ==
  ASSUME TypeOK PROVE IsFiniteSet(Counted) /\ Cardinality(Counted) \in Nat
<1>1. Counted \in SUBSET Threads
  BY DEF TypeOK, Counted
<1>2. IsFiniteSet(Counted)
  BY <1>1, VeEngineAssumption, FS_Subset
<1> QED BY <1>2, FS_CardinalityType

LEMMA CountStep == ASSUME TypeOK, SemOwned, RefCountExact, [Next]_vars
                   PROVE  RefCountExact'
<1> SUFFICES ASSUME "misuse" \notin faults'
             PROVE  ref_count' = Cardinality(Counted') + lost'
  BY DEF RefCountExact
<1> USE VeEngineAssumption, FiniteCounted DEF TypeOK, Location
<1>a. ASSUME "misuse" \notin faults, Counted' = Counted, UNCHANGED <<ref_count, lost>>
      PROVE  ref_count' = Cardinality(Counted') + lost'
  BY <1>a DEF RefCountExact
<1>b. ASSUME "misuse" \notin faults, NEW t \in Counted, Counted' = Counted \ {t},
             ref_count' + lost = ref_count + lost' - 1, ref_count' \in Int, lost' \in Nat
      PROVE  ref_count' = Cardinality(Counted') + lost'
  <2>1. Cardinality(Counted') = Cardinality(Counted) - 1
    BY <1>b, FS_RemoveElement
  <2>2. ref_count = Cardinality(Counted) + lost
    BY <1>b DEF RefCountExact
  <2> QED BY <1>b, <2>1, <2>2
<1>1. ASSUME NEW t \in Threads, EngineReq(t) PROVE ref_count' = Cardinality(Counted') + lost'
  <2>1. Counted' = Counted
    BY <1>1 DEF EngineReq, Down, Counted, view
  <2> QED BY <1>1, <1>a, <2>1 DEF EngineReq, view
<1>2. ASSUME NEW t \in Threads, EngineRel(t) PROVE ref_count' = Cardinality(Counted') + lost'
  <2>1. t \in using /\ "misuse" \notin faults
    BY <1>2 DEF EngineRel
  <2>2. Counted' = Counted
    BY <1>2, <2>1 DEF EngineRel, Down, Counted
  <2> QED BY <1>2, <1>a, <2>1, <2>2 DEF EngineRel
<1>3. ASSUME NEW t \in Threads, EnableVe(t) \/ DisableVe(t) \/ ResetVe(t)
      PROVE  ref_count' = Cardinality(Counted') + lost'
  <2>1. Counted' = Counted /\ "misuse" \notin faults /\ UNCHANGED <<ref_count, lost>>
    BY <1>3 DEF EnableVe, DisableVe, ResetVe, Counted
  <2> QED BY <1>a, <2>1
<1>4. ASSUME NEW t \in Threads, SetRefCount(t) PROVE ref_count' = Cardinality(Counted') + lost'
  BY <1>4 DEF SetRefCount
<1>5. ASSUME NEW t \in Threads, Die(t) PROVE ref_count' = Cardinality(Counted') + lost'
  <2>1. t \in Counted /\ Counted' = Counted \ {t}
    BY <1>5 DEF Die, InUser, Counted
  <2>2. "misuse" \notin faults /\ ref_count' = ref_count /\ lost' = lost + 1
    BY <1>5 DEF Die
  <2>3. ref_count' + lost = ref_count + lost' - 1 /\ ref_count' \in Int /\ lost' \in Nat
    BY <2>2
  <2> QED BY <1>b, <2>1, <2>2, <2>3
<1>6. ASSUME NEW t \in Threads, ReqCount(t) PROVE ref_count' = Cardinality(Counted') + lost'
  <2>1. "misuse" \notin faults /\ UNCHANGED lost
    BY <1>6 DEF ReqCount, Granted, view
  <2>2. CASE ref_count < 0
    BY <2>1, <2>2 DEF RefCountExact
  <2>3. CASE ref_count >= 0
    <3>1. ref_count' = ref_count + 1
      BY <1>6, <2>3 DEF ReqCount
    <3>2. t \notin Counted
      BY <1>6 DEF ReqCount, Counted, SemOwned
    <3>3. \/ pc' = [pc EXCEPT ![t] = "req_clk"] /\ using' = using
          \/ pc' = [pc EXCEPT ![t] = "user"] /\ using' = using \cup {t}
      BY <1>6, <2>3 DEF ReqCount, Granted, Up, view
    <3>4. Counted' = Counted \cup {t}
      BY <1>6, <3>3 DEF ReqCount, Counted
    <3>5. Cardinality(Counted') = Cardinality(Counted) + 1
      BY <3>2, <3>4, FS_AddElement
    <3> QED BY <2>1, <3>1, <3>5 DEF RefCountExact
  <2> QED BY <2>2, <2>3
<1>7. ASSUME NEW t \in Threads, ReqClk(t) PROVE ref_count' = Cardinality(Counted') + lost'
  <2>1. Counted' = Counted
    BY <1>7 DEF ReqClk, Granted, Up, Counted, view
  <2> QED BY <1>7, <1>a, <2>1 DEF ReqClk, Granted, view
<1>8. ASSUME NEW t \in Threads, ReqOn(t) PROVE ref_count' = Cardinality(Counted') + lost'
  <2>1. CASE Granted(t) /\ UNCHANGED ref_count
    <3>1. Counted' = Counted
      BY <1>8, <2>1 DEF ReqOn, Granted, Up, Counted
    <3> QED BY <2>1, <1>a, <3>1 DEF Granted
  <2>2. CASE SwitchOnFails /\ Up(t) /\ ref_count' = ref_count - 1 /\ UNCHANGED <<using, extra, lost>>
    <3>1. "misuse" \notin faults
      BY <2>2 DEF SwitchOnFails
    <3>2. t \in Counted /\ Counted' = Counted \ {t}
      BY <1>8, <2>2 DEF ReqOn, Up, Counted, SemOwned
    <3>3. ref_count' + lost = ref_count + lost' - 1 /\ ref_count' \in Int /\ lost' \in Nat
      BY <2>2
    <3> QED BY <1>b, <3>1, <3>2, <3>3
  <2> QED BY <1>8, <2>1, <2>2 DEF ReqOn
<1>9. ASSUME NEW t \in Threads, RelCount(t) PROVE ref_count' = Cardinality(Counted') + lost'
  <2>1. t \in Counted /\ Counted' = Counted \ {t}
    BY <1>9 DEF RelCount, Up, Counted, SemOwned, view
  <2>2. ref_count' = ref_count - 1 /\ UNCHANGED <<lost, faults>>
    BY <1>9 DEF RelCount, view
  <2>3. ref_count \in Int /\ lost \in Nat /\ "misuse" \notin faults
    BY <2>2
  <2>4. ref_count' + lost = ref_count + lost' - 1 /\ ref_count' \in Int /\ lost' \in Nat
    BY ONLY <2>2, <2>3
  <2> QED BY <1>b, <2>1, <2>3, <2>4
<1>10. ASSUME NEW t \in Threads, RelClk(t) \/ RelOff(t)
       PROVE  ref_count' = Cardinality(Counted') + lost'
  <2>1. /\ pc[t] \in {"rel_clk", "rel_off"} /\ using' = using
        /\ pc' = [pc EXCEPT ![t] = "user"] \/ pc' = [pc EXCEPT ![t] = "rel_off"]
    BY <1>10 DEF RelClk, RelOff, Up, view
  <2>2. Counted' = Counted
    BY <2>1 DEF Counted
  <2> QED BY <1>10, <1>a, <2>2 DEF RelClk, RelOff, view
<1>11. CASE Suspend \/ Resume
  <2>1. Counted' = Counted
    BY <1>11 DEF Suspend, Resume, Counted, view
  <2> QED BY <1>11, <1>a, <2>1 DEF Suspend, Resume, SwitchOnFails, view
<1>12. CASE UNCHANGED vars
  <2>1. Counted' = Counted
    BY <1>12 DEF vars, Counted, view
  <2> QED BY <1>12, <1>a, <2>1 DEF vars, view
<1> QED
  BY <1>1, <1>2, <1>3, <1>4, <1>5, <1>6, <1>7, <1>8, <1>9, <1>10, <1>11, <1>12 DEF Next, Call, InSem

-----------------------------------------------------------------------------
(* The enable counts of the clocks.                                        *)

LEMMA FiniteExtra ==
  ASSUME TypeOK PROVE IsFiniteSet(extra) /\ Cardinality(extra) \in Nat
BY VeEngineAssumption, FS_Subset, FS_CardinalityType DEF TypeOK

LEMMA FaultsStay == ASSUME [Next]_vars PROVE faults \subseteq faults'
<1>1. ASSUME NEW t \in Threads, Call(t) PROVE faults \subseteq faults'
  BY <1>1 DEF Call, EngineReq, EngineRel, EnableVe, DisableVe, ResetVe, SetRefCount, Die, view
<1>2. ASSUME NEW t \in Threads, InSem(t) PROVE faults \subseteq faults'
  BY <1>2 DEF InSem, ReqCount, ReqClk, ReqOn, RelCount, RelClk, RelOff, Granted, SwitchOnFails, view
<1>3. CASE Suspend \/ Resume
  BY <1>3 DEF Suspend, Resume, SwitchOnFails, view
<1> QED BY <1>1, <1>2, <1>3 DEF Next, vars, view

\* The three parts of ClkStatusTrue.
OthersAtMost == \A s \in Supplies \ {"ve"} : count[s] <= Once
OthersExact == "failure" \notin faults => \A s \in Supplies \ {"ve"} : count[s] = Once
VeExact == faults \cap {"failure", "unpaired"} = {} => count["ve"] = Cardinality(extra) + Once

LEMMA StatusParts == ClkStatusTrue <=> OthersAtMost /\ OthersExact /\ VeExact
BY DEF ClkStatusTrue, OthersAtMost, OthersExact, VeExact

\* A step that leaves the supplies as clk_status says they are.
LEMMA StatusSame ==
  ASSUME TypeOK, ClkStatusTrue, faults \subseteq faults', SwitchedOn' <=> SwitchedOn,
         UNCHANGED <<count, extra>>
  PROVE  ClkStatusTrue'
<1>1. Once' = Once
  BY DEF Once
<1> QED BY <1>1 DEF ClkStatusTrue

\* What the switching does to the counts, whether it fails or not.
LEMMA StatusOn ==
  ASSUME TypeOK, ClkStatusTrue, faults \subseteq faults', ~SwitchedOn, SwitchedOn',
         SwitchOn \/ SwitchOnFails, UNCHANGED extra
  PROVE  ClkStatusTrue'
<1>t. "ve" \in Supplies /\ count \in [Supplies -> Nat] /\ Cardinality(extra) \in Nat
  BY FiniteExtra DEF TypeOK, Supplies, Clocks
<1>o. Once = 0 /\ Once' = 1
  BY DEF Once
<1>z. \A s \in Supplies \ {"ve"} : count[s] = 0
  BY <1>t, <1>o DEF ClkStatusTrue
<1>1. CASE SwitchOn
  <2>1. \A s \in Supplies : count'[s] = count[s] + 1
    BY <1>1 DEF SwitchOn
  <2>2. \A s \in Supplies \ {"ve"} : count'[s] = 1
    BY ONLY <1>t, <1>z, <2>1
  <2>3. OthersAtMost' /\ OthersExact'
    BY <1>o, <2>2 DEF OthersAtMost, OthersExact
  <2>4. VeExact'
    <3> SUFFICES ASSUME faults' \cap {"failure", "unpaired"} = {}
                 PROVE  count'["ve"] = Cardinality(extra') + Once'
      BY DEF VeExact
    <3>1. count["ve"] = Cardinality(extra)
      BY <1>o, <1>t DEF ClkStatusTrue
    <3> QED BY <1>o, <1>t, <2>1, <3>1
  <2> QED BY <2>3, <2>4, StatusParts DEF ClkStatusTrue, OthersAtMost, OthersExact, VeExact
<1>2. CASE SwitchOnFails
  <2>1. PICK c \in Clocks : EnableUpTo(c)
    BY <1>2 DEF SwitchOnFails
  <2>2. \A s \in Supplies : count'[s] \in {count[s], count[s] + 1}
    BY <2>1 DEF EnableUpTo
  <2>3. \A s \in Supplies \ {"ve"} : count'[s] <= 1
    BY ONLY <1>z, <2>2
  <2>4. "failure" \in faults'
    BY <1>2 DEF SwitchOnFails
  <2> QED BY <1>o, <2>3, <2>4 DEF ClkStatusTrue
<1> QED BY <1>1, <1>2

LEMMA StatusOff ==
  ASSUME TypeOK, ClkStatusTrue, faults \subseteq faults', SwitchedOn, ~SwitchedOn',
         SwitchOff, UNCHANGED extra
  PROVE  ClkStatusTrue'
<1>t. "ve" \in Supplies /\ count \in [Supplies -> Nat] /\ Cardinality(extra) \in Nat
  BY FiniteExtra DEF TypeOK, Supplies, Clocks
<1>o. Once = 1 /\ Once' = 0
  BY DEF Once
<1>1. \A s \in Supplies : count'[s] = IF count[s] > 0 THEN count[s] - 1 ELSE 0
  BY DEF SwitchOff, Less
<1>2. \A s \in Supplies \ {"ve"} : count[s] \in Nat /\ count[s] <= 1
  BY <1>t, <1>o DEF ClkStatusTrue
<1>3. \A s \in Supplies \ {"ve"} : count'[s] = 0
  BY ONLY <1>1, <1>2
<1>4. OthersAtMost' /\ OthersExact'
  BY <1>o, <1>3 DEF OthersAtMost, OthersExact
<1>5. VeExact'
  <2> SUFFICES ASSUME faults' \cap {"failure", "unpaired"} = {}
               PROVE  count'["ve"] = Cardinality(extra') + Once'
    BY DEF VeExact
  <2>1. count["ve"] = Cardinality(extra) + 1
    BY <1>o DEF ClkStatusTrue
  <2> QED BY <1>o, <1>t, <1>1, <2>1
<1> QED BY <1>4, <1>5 DEF ClkStatusTrue, OthersAtMost, OthersExact, VeExact

\* IOCTL_ENABLE_VE and IOCTL_DISABLE_VE touch the engine's own clock alone.
LEMMA StatusVe ==
  ASSUME TypeOK, ClkStatusTrue, NEW t \in Threads, EnableVe(t) \/ DisableVe(t)
  PROVE  ClkStatusTrue'
<1>t. "ve" \in Supplies /\ count \in [Supplies -> Nat] /\ Cardinality(extra) \in Nat
  BY FiniteExtra DEF TypeOK, Supplies, Clocks
<1>o. Once' = Once /\ Once \in {0, 1}
  BY DEF EnableVe, DisableVe, Once, SwitchedOn
<1>f. faults \subseteq faults'
  BY DEF EnableVe, DisableVe
<1>1. \A s \in Supplies \ {"ve"} : count'[s] = count[s]
  BY <1>t DEF EnableVe, DisableVe
<1>2. OthersAtMost' /\ OthersExact'
  BY <1>o, <1>f, <1>1 DEF ClkStatusTrue, OthersAtMost, OthersExact
<1>3. VeExact'
  <2> SUFFICES ASSUME faults' \cap {"failure", "unpaired"} = {}
               PROVE  count'["ve"] = Cardinality(extra') + Once'
    BY DEF VeExact
  <2>0. count["ve"] = Cardinality(extra) + Once
    BY <1>f DEF ClkStatusTrue
  <2>1. CASE EnableVe(t)
    <3>1. count'["ve"] = count["ve"] + 1
      BY <1>t, <2>1 DEF EnableVe
    <3>2. Cardinality(extra') = Cardinality(extra) + 1
      BY <2>1, FiniteExtra, FS_AddElement DEF EnableVe
    <3> QED BY <1>t, <1>o, <2>0, <3>1, <3>2
  <2>2. CASE DisableVe(t)
    <3>1. t \in extra
      BY <2>2 DEF DisableVe
    <3>2. /\ Cardinality(extra') = Cardinality(extra) - 1
          /\ Cardinality(extra') \in Nat
      <4>1. extra' = extra \ {t}
        BY <2>2 DEF DisableVe
      <4> QED BY <3>1, <4>1, FiniteExtra, FS_RemoveElement, FS_Subset, FS_CardinalityType
    <3>3. count'["ve"] = IF count["ve"] > 0 THEN count["ve"] - 1 ELSE 0
      BY <1>t, <2>2 DEF DisableVe, Less
    <3> QED BY <1>t, <1>o, <2>0, <3>2, <3>3
  <2> QED BY <2>1, <2>2
<1> QED BY <1>2, <1>3 DEF ClkStatusTrue, OthersAtMost, OthersExact, VeExact

LEMMA StatusStep == ASSUME TypeOK, SemOwned, ClkPhase, ClkStatusTrue, [Next]_vars
                    PROVE  ClkStatusTrue'
<1>f. faults \subseteq faults'
  BY FaultsStay
<1>a. ASSUME SwitchedOn' <=> SwitchedOn, UNCHANGED <<count, extra>> PROVE ClkStatusTrue'
  BY <1>a, <1>f, StatusSame
<1>b. ASSUME SwitchOn \/ SwitchOnFails, ~SwitchedOn, SwitchedOn', UNCHANGED extra
      PROVE  ClkStatusTrue'
  BY <1>b, <1>f, StatusOn
<1>c. ASSUME SwitchOff, SwitchedOn, ~SwitchedOn', UNCHANGED extra PROVE ClkStatusTrue'
  BY <1>c, <1>f, StatusOff
<1> USE VeEngineAssumption DEF TypeOK, Location, SemOwned, ClkPhase
<1>1. ASSUME NEW t \in Threads, EngineReq(t) \/ EngineRel(t) PROVE ClkStatusTrue'
  <2>1. SwitchedOn' <=> SwitchedOn
    BY <1>1 DEF EngineReq, EngineRel, Down, SwitchedOn
  <2>2. UNCHANGED <<count, extra>>
    BY <1>1 DEF EngineReq, EngineRel, view, hw
  <2> QED BY <1>a, <2>1, <2>2
<1>2. ASSUME NEW t \in Threads, EnableVe(t) \/ DisableVe(t) PROVE ClkStatusTrue'
  BY <1>2, StatusVe
<1>4. ASSUME NEW t \in Threads, ResetVe(t) \/ SetRefCount(t) \/ Die(t) PROVE ClkStatusTrue'
  <2>1. SwitchedOn' <=> SwitchedOn
    BY <1>4 DEF ResetVe, SetRefCount, Die, SwitchedOn
  <2>2. UNCHANGED <<count, extra>>
    BY <1>4 DEF ResetVe, SetRefCount, Die, hw
  <2> QED BY <1>a, <2>1, <2>2
<1>5. ASSUME NEW t \in Threads, ReqCount(t) PROVE ClkStatusTrue'
  <2>1. SwitchedOn' <=> SwitchedOn
    BY <1>5 DEF ReqCount, Granted, Up, SwitchedOn
  <2>2. UNCHANGED <<count, extra>>
    BY <1>5 DEF ReqCount, Granted, view, hw
  <2> QED BY <1>a, <2>1, <2>2
<1>6. ASSUME NEW t \in Threads, ReqClk(t) PROVE ClkStatusTrue'
  <2>1. SwitchedOn' <=> SwitchedOn
    <3>1. CASE clk_status = 1
      BY <1>6, <3>1 DEF ReqClk, Granted, Up, SwitchedOn
    <3>2. CASE clk_status = 0
      BY <1>6, <3>2 DEF ReqClk, SwitchedOn
    <3> QED BY <3>1, <3>2
  <2>2. UNCHANGED <<count, extra>>
    BY <1>6 DEF ReqClk, Granted, view, hw
  <2> QED BY <1>a, <2>1, <2>2
<1>7. ASSUME NEW t \in Threads, ReqOn(t) PROVE ClkStatusTrue'
  <2>1. (SwitchOn \/ SwitchOnFails) /\ Up(t) /\ UNCHANGED <<clk_status, extra>>
    BY <1>7 DEF ReqOn, Granted
  <2>2. ~SwitchedOn
    BY <1>7 DEF ReqOn, SwitchedOn
  <2>3. SwitchedOn'
    BY <1>7, <2>1 DEF ReqOn, Up, SwitchedOn
  <2> QED BY ONLY <1>b, <2>1, <2>2, <2>3
<1>8. ASSUME NEW t \in Threads, RelCount(t) PROVE ClkStatusTrue'
  <2>1. SwitchedOn' <=> SwitchedOn
    BY <1>8 DEF RelCount, Up, SwitchedOn
  <2>2. UNCHANGED <<count, extra>>
    BY <1>8 DEF RelCount, view, hw
  <2> QED BY <1>a, <2>1, <2>2
<1>9. ASSUME NEW t \in Threads, RelClk(t) PROVE ClkStatusTrue'
  <2>1. SwitchedOn' <=> SwitchedOn
    <3>1. CASE clk_status = 1
      BY <1>9, <3>1 DEF RelClk, SwitchedOn
    <3>2. CASE clk_status = 0
      BY <1>9, <3>2 DEF RelClk, Up, SwitchedOn
    <3> QED BY <3>1, <3>2
  <2>2. UNCHANGED <<count, extra>>
    BY <1>9 DEF RelClk, view, hw
  <2> QED BY <1>a, <2>1, <2>2
<1>10. ASSUME NEW t \in Threads, RelOff(t) PROVE ClkStatusTrue'
  <2>1. SwitchedOn
    BY <1>10 DEF RelOff, SwitchedOn
  <2>2. ~SwitchedOn'
    BY <1>10 DEF RelOff, Up, SwitchedOn
  <2> QED BY <1>10, <1>c, <2>1, <2>2 DEF RelOff, view
<1>11. ASSUME Suspend PROVE ClkStatusTrue'
  <2>1. UNCHANGED extra
    BY <1>11 DEF Suspend, view
  <2>2. SwitchedOn <=> clk_status = 1
    BY <1>11 DEF Suspend, SwitchedOn
  <2>3. ~SwitchedOn'
    BY <1>11 DEF Suspend, SwitchedOn
  <2>4. CASE clk_status = 0
    <3>1. UNCHANGED count
      BY <1>11, <2>4 DEF Suspend, hw
    <3>2. SwitchedOn' <=> SwitchedOn
      BY <2>2, <2>3, <2>4
    <3> QED BY ONLY <1>a, <2>1, <3>1, <3>2
  <2>5. CASE clk_status = 1
    <3>1. SwitchOff
      BY <1>11, <2>5 DEF Suspend
    <3> QED BY ONLY <1>c, <2>1, <2>2, <2>3, <2>5, <3>1
  <2> QED BY <2>4, <2>5
<1>12. ASSUME Resume PROVE ClkStatusTrue'
  <2>1. clk_status = 0 /\ sem = NoThread
    BY <1>12 DEF Resume
  <2>2. \A t \in Threads : pc[t] = "user"
    BY ONLY <2>1, VeEngineAssumption, SemOwned DEF SemOwned
  <2>3. pc' = pc
    BY <1>12 DEF Resume
  <2>4. ~SwitchedOn
    BY ONLY <2>1, <2>2 DEF SwitchedOn
  <2>5. SwitchedOn' <=> clk_status' = 1
    BY ONLY <2>2, <2>3 DEF SwitchedOn
  <2>6. CASE UNCHANGED <<clk_status, hw, view>>
    <3>1. clk_status' = clk_status /\ UNCHANGED <<count, extra, faults>>
      BY <2>6 DEF hw, view
    <3> QED BY ONLY <1>a, <2>1, <2>4, <2>5, <3>1
  <2>7. CASE clk_status' = 1 /\ (SwitchOn \/ SwitchOnFails) /\ UNCHANGED extra
    BY ONLY <1>b, <2>4, <2>5, <2>7
  <2>8. \/ UNCHANGED <<clk_status, hw, view>>
        \/ clk_status' = 1 /\ (SwitchOn \/ SwitchOnFails) /\ UNCHANGED extra
    BY <1>12, <2>1 DEF Resume, view
  <2> QED BY ONLY <2>6, <2>7, <2>8
<1>13. ASSUME UNCHANGED vars PROVE ClkStatusTrue'
  <2>1. SwitchedOn' <=> SwitchedOn
    BY <1>13 DEF vars, SwitchedOn
  <2> QED BY <1>13, <1>a, <2>1 DEF vars, view, hw
<1> QED
  BY <1>1, <1>2, <1>4, <1>5, <1>6, <1>7, <1>8, <1>9, <1>10, <1>11, <1>12, <1>13
  DEF Next, Call, InSem

-----------------------------------------------------------------------------
(* ref_count, clk_status and the reset line while nothing has gone wrong.  *)

LEMMA CountedSome ==
  ASSUME TypeOK, RefCountExact, "misuse" \notin faults, NEW t \in Counted
  PROVE  ref_count > 0
<1>1. Cardinality(Counted) # 0
  BY FiniteCounted, FS_EmptySet
<1>2. ref_count = Cardinality(Counted) + lost /\ lost \in Nat
  BY DEF RefCountExact, TypeOK
<1>3. Cardinality(Counted) \in Nat
  BY FiniteCounted
<1> QED BY ONLY <1>1, <1>2, <1>3

LEMMA CountedTwo ==
  ASSUME TypeOK, RefCountExact, "misuse" \notin faults,
         NEW t \in Counted, NEW u \in Counted, t # u
  PROVE  ref_count > 1
<1> DEFINE Rest == Counted \ {t}
<1>1. IsFiniteSet(Rest) /\ Cardinality(Rest) = Cardinality(Counted) - 1
  BY FiniteCounted, FS_RemoveElement
<1>2. u \in Rest
  OBVIOUS
<1>3. Cardinality(Rest) # 0
  BY <1>1, <1>2, FS_EmptySet
<1>4. ref_count = Cardinality(Counted) + lost /\ lost \in Nat
  BY DEF RefCountExact, TypeOK
<1>5. Cardinality(Counted) \in Nat /\ Cardinality(Rest) \in Nat
  BY <1>1, FiniteCounted, FS_CardinalityType
<1> QED BY ONLY <1>1, <1>3, <1>4, <1>5

LEMMA RefCountNat ==
  ASSUME TypeOK, RefCountExact, "misuse" \notin faults PROVE ref_count \in Nat
BY FiniteCounted DEF RefCountExact, TypeOK

\* While a client uses the engine, no other one is switching it.
LEMMA UsedIdle ==
  ASSUME TypeOK, SemOwned, RefCountExact, CallPhase, "misuse" \notin faults,
         NEW u \in using
  PROVE  Idle /\ ref_count > 0
<1>1. u \in Counted /\ u \in Threads /\ pc[u] = "user"
  BY DEF TypeOK, SemOwned, Counted
<1>2. ref_count > 0
  BY <1>1, CountedSome
<1>3. ASSUME NEW t \in Threads PROVE pc[t] \in {"user", "req", "rel"}
  <2>1. CASE pc[t] \in {"rel_clk", "rel_off"}
    BY <2>1, <1>2 DEF CallPhase
  <2>2. CASE pc[t] \in {"req_clk", "req_on"}
    <3>1. t \in Counted /\ t # u
      BY <2>2, <1>1 DEF Counted
    <3>2. ref_count > 1
      BY <1>1, <3>1, CountedTwo
    <3> QED BY <2>2, <3>2 DEF CallPhase
  <2> QED BY <2>1, <2>2 DEF TypeOK, Location
<1> QED BY <1>2, <1>3 DEF Idle

LEMMA PhaseStep ==
  ASSUME TypeOK, SemOwned, ClkPhase, RefCountExact, PowerPhase, [Next]_vars
  PROVE  PowerPhase'
<1> SUFFICES ASSUME faults' = {} PROVE CallPhase' /\ IdlePhase' /\ ResetPhase'
  BY DEF PowerPhase
<1> DEFINE Goal == CallPhase' /\ IdlePhase' /\ ResetPhase'
<1>f. faults = {} /\ "misuse" \notin faults /\ ~SwitchOnFails
  BY FaultsStay DEF SwitchOnFails
<1>p. CallPhase /\ IdlePhase /\ ResetPhase
  BY <1>f DEF PowerPhase
<1>n. ref_count \in Nat
  BY <1>f, RefCountNat
<1>s. clk_status \in {0, 1} /\ suspended \in BOOLEAN /\ pc \in [Threads -> Location]
  BY DEF TypeOK
<1>o. ASSUME NEW t \in Threads, pc[t] # "user"
      PROVE  sem = t /\ Awake /\ \A u \in Threads \ {t} : pc[u] = "user"
  BY <1>o, VeEngineAssumption DEF SemOwned, Awake
<1>a. ASSUME CallPhase', IdlePhase', SwitchedOn' <=> SwitchedOn, UNCHANGED reset
      PROVE  Goal
  BY <1>a, <1>p DEF ResetPhase
<1> HIDE DEF Goal
\* A step of t between "user", "req" and "rel" that leaves the rest alone.
<1>b. ASSUME NEW t \in Threads, pc[t] \in {"user", "req", "rel"},
             NEW l \in {"user", "req", "rel"}, pc' = [pc EXCEPT ![t] = l],
             UNCHANGED <<ref_count, clk_status, reset, suspended>>
      PROVE  Goal
  <2>1. CallPhase'
    BY <1>b, <1>p, <1>s DEF CallPhase
  <2>2. Idle' <=> Idle
    BY <1>b, <1>s DEF Idle
  <2>3. IdlePhase'
    BY <1>b, <1>p, <2>2 DEF IdlePhase, Awake
  <2>4. SwitchedOn' <=> SwitchedOn
    BY <1>b, <1>s DEF SwitchedOn
  <2> QED BY <1>a, <1>b, <2>1, <2>3, <2>4
<1>c. ASSUME UNCHANGED <<ref_count, clk_status, reset, suspended, pc>> PROVE Goal
  <2>1. CallPhase'
    BY <1>c, <1>p DEF CallPhase
  <2>2. Idle' <=> Idle
    BY <1>c DEF Idle
  <2>3. IdlePhase'
    BY <1>c, <1>p, <2>2 DEF IdlePhase, Awake
  <2>4. SwitchedOn' <=> SwitchedOn
    BY <1>c DEF SwitchedOn
  <2> QED BY <1>a, <1>c, <2>1, <2>3, <2>4
<1>1. ASSUME NEW t \in Threads, EngineReq(t) PROVE Goal
  BY <1>1, <1>b DEF EngineReq, Down, hw
<1>2. ASSUME NEW t \in Threads, EngineRel(t) PROVE Goal
  BY <1>2, <1>b DEF EngineRel, Down, hw
<1>3. ASSUME NEW t \in Threads, EnableVe(t) \/ DisableVe(t) \/ Die(t) PROVE Goal
  BY <1>3, <1>c DEF EnableVe, DisableVe, Die, hw
<1>4. ASSUME NEW t \in Threads, SetRefCount(t) PROVE Goal
  BY <1>4 DEF SetRefCount
<1>5. ASSUME NEW t \in Threads, ResetVe(t) PROVE Goal
  <2>1. t \in using /\ Awake /\ reset' = "deasserted"
    BY <1>5 DEF ResetVe, InUser
  <2>2. Idle /\ ref_count > 0
    BY <1>f, <1>p, <2>1, UsedIdle
  <2>3. clk_status = 1
    BY <1>p, <2>1, <2>2 DEF IdlePhase
  <2>4. SwitchedOn
    BY <2>2, <2>3 DEF Idle, SwitchedOn
  <2>5. reset = "deasserted"
    BY <1>p, <2>4 DEF ResetPhase
  <2> QED BY <1>5, <1>c, <2>1, <2>5 DEF ResetVe
<1>6. ASSUME NEW t \in Threads, ReqCount(t) PROVE Goal
  <2>o. pc[t] = "req" /\ Awake /\ \A u \in Threads \ {t} : pc[u] = "user"
    BY <1>6, <1>o DEF ReqCount
  <2>i. Idle /\ (clk_status = 1 <=> ref_count > 0)
    BY <2>o, <1>p DEF Idle, IdlePhase
  <2>u. UNCHANGED <<clk_status, reset, suspended>>
    BY <1>6 DEF ReqCount, hw
  <2>1. CASE ref_count = 0
    <3>1. ref_count' = 1 /\ pc' = [pc EXCEPT ![t] = "req_clk"]
      BY <1>6, <1>n, <2>1 DEF ReqCount
    <3>2. clk_status = 0
      BY <1>s, <2>1, <2>i
    <3>3. CallPhase'
      BY <2>o, <2>u, <3>1, <3>2, <1>s DEF CallPhase
    <3>4. ~Idle'
      BY <3>1, <1>s DEF Idle
    <3>5. SwitchedOn' <=> SwitchedOn
      BY <2>o, <2>u, <3>1, <1>s DEF SwitchedOn
    <3> QED BY <1>a, <2>u, <3>3, <3>4, <3>5 DEF IdlePhase
  <2>2. CASE ref_count > 0
    <3>1. ref_count' = ref_count + 1 /\ pc' = [pc EXCEPT ![t] = "user"]
      BY <1>6, <1>n, <2>2 DEF ReqCount, Granted, Up
    <3>2. CallPhase' /\ Idle'
      BY <2>o, <3>1, <1>s DEF CallPhase, Idle
    <3>3. clk_status' = 1 /\ ref_count' > 0
      BY <1>n, <2>2, <2>i, <2>u, <3>1
    <3>4. SwitchedOn' <=> SwitchedOn
      BY <2>o, <2>u, <3>1, <1>s DEF SwitchedOn
    <3> QED BY <1>a, <2>u, <3>2, <3>3, <3>4 DEF IdlePhase
  <2> QED BY <1>n, <2>1, <2>2
<1>7. ASSUME NEW t \in Threads, ReqClk(t) PROVE Goal
  <2>o. pc[t] = "req_clk" /\ \A u \in Threads \ {t} : pc[u] = "user"
    BY <1>7, <1>o DEF ReqClk
  <2>1. ref_count = 1 /\ clk_status = 0
    BY <1>p, <2>o DEF CallPhase
  <2>2. clk_status' = 1 /\ pc' = [pc EXCEPT ![t] = "req_on"] /\ UNCHANGED <<ref_count, reset>>
    BY <1>7, <2>1 DEF ReqClk, hw
  <2>3. CallPhase' /\ ~Idle'
    BY <2>o, <2>1, <2>2, <1>s DEF CallPhase, Idle
  <2>4. SwitchedOn' <=> SwitchedOn
    BY <2>o, <2>1, <2>2, <1>s DEF SwitchedOn
  <2> QED BY <1>a, <2>2, <2>3, <2>4 DEF IdlePhase
<1>8. ASSUME NEW t \in Threads, ReqOn(t) PROVE Goal
  <2>o. pc[t] = "req_on" /\ \A u \in Threads \ {t} : pc[u] = "user"
    BY <1>8, <1>o DEF ReqOn
  <2>1. ref_count = 1 /\ clk_status = 1
    BY <1>p, <2>o DEF CallPhase, ClkPhase
  <2>2. /\ reset' = "deasserted" /\ pc' = [pc EXCEPT ![t] = "user"]
        /\ UNCHANGED <<ref_count, clk_status>>
    BY <1>8, <1>f DEF ReqOn, SwitchOn, Granted, Up
  <2>3. CallPhase' /\ (clk_status' = 1 <=> ref_count' > 0)
    BY <2>o, <2>1, <2>2, <1>s DEF CallPhase
  <2>4. SwitchedOn'
    BY <2>o, <2>1, <2>2, <1>s DEF SwitchedOn
  <2> QED BY <2>2, <2>3, <2>4 DEF IdlePhase, ResetPhase, Goal
<1>9. ASSUME NEW t \in Threads, RelCount(t) PROVE Goal
  <2>o. pc[t] = "rel" /\ Awake /\ \A u \in Threads \ {t} : pc[u] = "user"
    BY <1>9, <1>o DEF RelCount
  <2>i. Idle /\ (clk_status = 1 <=> ref_count > 0)
    BY <2>o, <1>p DEF Idle, IdlePhase
  <2>1. t \in Counted
    BY <2>o DEF Counted
  <2>2. ref_count > 0
    BY <1>f, <2>1, CountedSome
  <2>u. ref_count' = ref_count - 1 /\ UNCHANGED <<clk_status, reset, suspended>>
    BY <1>9 DEF RelCount, hw
  <2>3. clk_status = 1
    BY <2>i, <2>2
  <2>4. CASE ref_count' = 0
    <3>1. pc' = [pc EXCEPT ![t] = "rel_clk"]
      BY <1>9, <2>4 DEF RelCount
    <3>2. CallPhase' /\ ~Idle'
      BY <2>o, <2>u, <2>3, <2>4, <3>1, <1>s DEF CallPhase, Idle
    <3>3. SwitchedOn' <=> SwitchedOn
      BY <2>o, <2>u, <3>1, <1>s DEF SwitchedOn
    <3> QED BY <1>a, <2>u, <3>2, <3>3 DEF IdlePhase
  <2>5. CASE ref_count' > 0
    <3>1. pc' = [pc EXCEPT ![t] = "user"]
      BY <1>9, <2>5 DEF RelCount, Up
    <3>2. CallPhase'
      BY <2>o, <3>1, <1>s DEF CallPhase
    <3>3. SwitchedOn' <=> SwitchedOn
      BY <2>o, <2>u, <3>1, <1>s DEF SwitchedOn
    <3> QED BY <1>a, <2>u, <2>3, <2>5, <3>2, <3>3 DEF IdlePhase
  <2> QED BY <1>n, <2>2, <2>u, <2>4, <2>5
<1>10. ASSUME NEW t \in Threads, RelClk(t) PROVE Goal
  <2>o. pc[t] = "rel_clk" /\ \A u \in Threads \ {t} : pc[u] = "user"
    BY <1>10, <1>o DEF RelClk
  <2>1. ref_count = 0 /\ clk_status = 1
    BY <1>p, <2>o DEF CallPhase
  <2>2. clk_status' = 0 /\ pc' = [pc EXCEPT ![t] = "rel_off"] /\ UNCHANGED <<ref_count, reset>>
    BY <1>10, <2>1 DEF RelClk, hw
  <2>3. CallPhase' /\ ~Idle'
    BY <2>o, <2>1, <2>2, <1>s DEF CallPhase, Idle
  <2>4. SwitchedOn /\ SwitchedOn'
    BY <2>o, <2>1, <2>2, <1>s DEF SwitchedOn
  <2> QED BY <1>a, <2>2, <2>3, <2>4 DEF IdlePhase
<1>11. ASSUME NEW t \in Threads, RelOff(t) PROVE Goal
  <2>o. pc[t] = "rel_off" /\ \A u \in Threads \ {t} : pc[u] = "user"
    BY <1>11, <1>o DEF RelOff
  <2>1. ref_count = 0 /\ clk_status = 0
    BY <1>p, <2>o DEF CallPhase, ClkPhase
  <2>2. /\ reset' = "asserted" /\ pc' = [pc EXCEPT ![t] = "user"]
        /\ UNCHANGED <<ref_count, clk_status>>
    BY <1>11 DEF RelOff, SwitchOff, Up
  <2>3. CallPhase' /\ (clk_status' = 1 <=> ref_count' > 0)
    BY <2>o, <2>1, <2>2, <1>s DEF CallPhase
  <2>4. ~SwitchedOn'
    BY <2>o, <2>1, <2>2, <1>s DEF SwitchedOn
  <2> QED BY <2>2, <2>3, <2>4 DEF IdlePhase, ResetPhase, Goal
<1>12. ASSUME Suspend PROVE Goal
  <2>1. /\ \A t \in Threads : pc[t] = "user"
        /\ pc' = pc /\ suspended' = TRUE /\ clk_status' = 0
    BY <1>12 DEF Suspend
  <2>2. CallPhase' /\ ~Awake' /\ ~SwitchedOn'
    BY <2>1 DEF CallPhase, Awake, SwitchedOn
  <2>3. reset' = "asserted"
    <3>1. CASE clk_status = 0
      <4>1. ~SwitchedOn
        BY <2>1, <3>1 DEF SwitchedOn
      <4>2. reset # "deasserted" /\ reset' = reset
        BY <1>p, <1>12, <3>1, <4>1 DEF ResetPhase, Suspend, hw
      <4> QED BY <4>2 DEF TypeOK
    <3>2. CASE clk_status = 1
      BY <1>12, <3>2 DEF Suspend, SwitchOff
    <3> QED BY <1>s, <3>1, <3>2
  <2> QED BY <2>2, <2>3 DEF IdlePhase, ResetPhase, Goal
<1>13. ASSUME Resume PROVE Goal
  <2>1. clk_status = 0 /\ sem = NoThread
    BY <1>13 DEF Resume, SemOwned
  <2>2. \A t \in Threads : pc[t] = "user"
    BY <2>1, VeEngineAssumption DEF SemOwned
  <2>3. pc' = pc /\ ref_count' = ref_count
    BY <1>13 DEF Resume
  <2>4. CallPhase' /\ ~SwitchedOn /\ (SwitchedOn' <=> clk_status' = 1)
    BY <2>1, <2>2, <2>3 DEF CallPhase, SwitchedOn
  <2>5. CASE ref_count = 0 /\ UNCHANGED <<clk_status, reset>>
    <3>1. IdlePhase'
      BY <2>1, <2>3, <2>5 DEF IdlePhase
    <3> QED BY <1>a, <2>1, <2>4, <2>5, <3>1
  <2>6. CASE ref_count # 0 /\ clk_status' = 1 /\ reset' = "deasserted"
    <3>1. ref_count' > 0
      BY <1>n, <2>3, <2>6
    <3> QED BY <2>4, <2>6, <3>1 DEF IdlePhase, ResetPhase, Goal
  <2>7. \/ ref_count = 0 /\ UNCHANGED <<clk_status, hw>>
        \/ ref_count # 0 /\ clk_status' = 1 /\ SwitchOn
    BY ONLY <1>13, <1>f, <2>1 DEF Resume
  <2> QED BY <2>5, <2>6, <2>7 DEF hw, SwitchOn
<1>14. ASSUME UNCHANGED vars PROVE Goal
  BY <1>14, <1>c DEF vars, hw
<1> QED
  BY <1>1, <1>2, <1>3, <1>4, <1>5, <1>6, <1>7, <1>8, <1>9, <1>10, <1>11, <1>12, <1>13, <1>14
  DEF Next, Call, InSem, Goal

-----------------------------------------------------------------------------
(* The theorems.                                                           *)

LEMMA InvInit == Init => Inv
<1> SUFFICES ASSUME Init PROVE Inv
  OBVIOUS
<1>1. TypeOK
  BY TypeInit
<1>2. SemOwned /\ ClkPhase
  BY VeEngineAssumption DEF Init, SemOwned, ClkPhase
<1>3. Counted = {} /\ ~SwitchedOn
  BY DEF Init, Counted, SwitchedOn
<1>4. Cardinality({}) = 0
  BY FS_EmptySet
<1>5. RefCountExact
  BY <1>3, <1>4 DEF Init, RefCountExact
<1>6. ClkStatusTrue
  <2>1. "ve" \in Supplies
    BY DEF Supplies, Clocks
  <2> QED BY <1>3, <1>4, <2>1 DEF Init, ClkStatusTrue, Once
<1>7. CallPhase /\ IdlePhase /\ ResetPhase
  BY <1>3 DEF Init, CallPhase, IdlePhase, ResetPhase
<1> QED BY <1>1, <1>2, <1>5, <1>6, <1>7 DEF Inv, PowerPhase

LEMMA InvStep == Inv /\ [Next]_vars => Inv'
BY TypeStep, SemStep, CountStep, StatusStep, PhaseStep DEF Inv

\* Whatever the clients call and in whatever order, the reference count, the
\* clk_status flag, the semaphore and the supplies stay together as far as the
\* misuses, unpaired calls and failures so far allow.
THEOREM Invariance == Spec => []Inv
BY InvInit, InvStep, PTL DEF Spec

\* ref_count counts exactly the clients that use the engine, or have been
\* counted and not yet granted, as long as the clients pair their calls.
THEOREM CountIsExact == Spec => []RefCountExact
<1>1. Inv => RefCountExact
  BY DEF Inv
<1> QED BY Invariance, <1>1, PTL

\* No supply is enabled twice or left on by a call, whatever clients and clocks
\* do; until a clock fails each is on exactly when clk_status says so; and the
\* engine's clock has one more for each ENABLE_VE of clients that pair it.
THEOREM ClkStatusIsTrue == Spec => []ClkStatusTrue
<1>1. Inv => ClkStatusTrue
  BY DEF Inv
<1> QED BY Invariance, <1>1, PTL

\* Whoever has been granted the engine finds it powered.
THEOREM UsersHavePower == Spec => []PoweredWhileUsed
<1>1. ASSUME Inv PROVE PoweredWhileUsed
  <2> SUFFICES ASSUME faults = {}, Awake, NEW u \in using PROVE Powered
    BY DEF PoweredWhileUsed
  <2>1. CallPhase /\ IdlePhase /\ ResetPhase
    BY <1>1 DEF Inv, PowerPhase
  <2>2. Idle /\ ref_count > 0
    BY <1>1, <2>1, UsedIdle DEF Inv
  <2>3. clk_status = 1
    BY <2>1, <2>2 DEF IdlePhase
  <2>4. SwitchedOn
    BY <2>2, <2>3 DEF Idle, SwitchedOn
  <2>5. reset = "deasserted"
    BY <2>1, <2>4 DEF ResetPhase
  <2>6. /\ \A s \in Supplies \ {"ve"} : count[s] = 1
        /\ count["ve"] = Cardinality(extra) + 1
    BY <1>1, <2>4 DEF Inv, ClkStatusTrue, Once
  <2>7. Cardinality(extra) \in Nat
    BY <1>1, FiniteExtra DEF Inv
  <2>8. ASSUME NEW s \in Supplies PROVE count[s] > 0
    BY <2>6, <2>7
  <2> QED BY <2>3, <2>5, <2>8 DEF Powered
<1> QED BY Invariance, <1>1, PTL

\* When the last user has gone, everything that was switched on for it is off.
THEOREM OffAtLast == Spec => []OffWhenUnused
<1>1. ASSUME Inv PROVE OffWhenUnused
  <2> SUFFICES ASSUME faults = {}, sem = NoThread, using = {}, lost = 0
               PROVE  /\ clk_status = 0
                      /\ reset = "asserted"
                      /\ \A s \in Supplies \ {"ve"} : count[s] = 0
                      /\ extra = {} => count["ve"] = 0
    BY DEF OffWhenUnused
  <2>t. TypeOK /\ SemOwned /\ RefCountExact /\ ClkStatusTrue /\ IdlePhase /\ ResetPhase
    BY <1>1 DEF Inv, PowerPhase
  <2>1. \A t \in Threads : pc[t] = "user"
    BY <2>t, VeEngineAssumption DEF SemOwned
  <2>2. Counted = {} /\ Idle
    BY <2>1 DEF Counted, Idle
  <2>3. Cardinality({}) = 0
    BY FS_EmptySet
  <2>4. ref_count = 0
    BY <2>t, <2>2, <2>3 DEF RefCountExact
  <2>5. clk_status = 0
    <3>1. CASE Awake
      BY <2>t, <2>2, <2>4, <3>1 DEF IdlePhase, TypeOK
    <3>2. CASE ~Awake
      BY <2>t, <3>2 DEF SemOwned, Awake
    <3> QED BY <3>1, <3>2
  <2>6. ~SwitchedOn
    BY <2>1, <2>5 DEF SwitchedOn
  <2>7. reset = "asserted"
    BY <2>t, <2>6 DEF ResetPhase, TypeOK
  <2>8. /\ \A s \in Supplies \ {"ve"} : count[s] = 0
        /\ count["ve"] = Cardinality(extra) + 0
    BY <2>t, <2>6 DEF ClkStatusTrue, Once
  <2> QED BY <2>3, <2>5, <2>7, <2>8
<1> QED BY Invariance, <1>1, PTL

=============================================================================
