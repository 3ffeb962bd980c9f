------------------------------ MODULE VeEngine ------------------------------
(***************************************************************************)
(* Power of the video engine in cedar_ve.c: IOCTL_ENGINE_REQ and           *)
(* IOCTL_ENGINE_REL count their callers in ref_count under the semaphore   *)
(* sem; enable_cedar_hw_clk and disable_cedar_hw_clk remember in           *)
(* clk_status whether the clocks are on; suspend and resume switch them    *)
(* without the semaphore, while user space is frozen; ENABLE_VE,           *)
(* DISABLE_VE, RESET_VE and SET_REFCOUNT reach the same state without it.  *)
(*                                                                         *)
(* A call is cut where another thread may see the difference: at the       *)
(* semaphore, at the change of ref_count, at the section of the spinlock   *)
(* that tests and sets clk_status, and at the switching of the clocks.     *)
(***************************************************************************)
EXTENDS Integers, FiniteSets

CONSTANTS
  Threads,    \* the client threads
  NoThread,   \* the owner of the free semaphore
  MaxLost,    \* bound: requests whose thread died without ENGINE_REL
  MaxUnder,   \* bound: how far unpaired releases take ref_count below 0
  RefCounts   \* the arguments of IOCTL_SET_REFCOUNT

ASSUME VeEngineAssumption == /\ NoThread \notin Threads
                             /\ IsFiniteSet(Threads)
                             /\ MaxLost \in Nat
                             /\ MaxUnder \in Nat
                             /\ RefCounts \subseteq Int

VARIABLES
  ref_count,   \* cedar_devp->ref_count
  sem,         \* the thread inside cedar_devp->sem
  clk_status,  \* the static variable clk_status
  count,       \* enable counts of the runtime-PM reference and the clocks
  reset,       \* "asserted" or "deasserted"
  suspended,   \* TRUE from sunxi_cedar_suspend to sunxi_cedar_resume
  pc,          \* pc[t]: where thread t is, see Location
  using,       \* the threads whose ENGINE_REQ returned 0 (the clients' view)
  extra,       \* the threads that believe in an IOCTL_ENABLE_VE of theirs
  lost,        \* how many users died without ENGINE_REL
  faults       \* what has gone wrong so far: "misuse" of ref_count or the
               \* reset line by a client, "unpaired" DISABLE_VE by a client,
               \* "failure" of a clock

hw == <<count, reset>>
view == <<using, extra, lost, faults>>
vars == <<ref_count, sem, clk_status, hw, suspended, pc, view>>

Clocks == {"bus", "mbus", "ve"}
Supplies == {"pm"} \cup Clocks

(***************************************************************************)
(* "user": in user space.  "req", "rel": has the semaphore, before the     *)
(* change of ref_count.  "req_clk", "rel_clk": before the test of          *)
(* clk_status.  "req_on", "rel_off": before the switching of the clocks.   *)
(***************************************************************************)
Location == {"user", "req", "req_clk", "req_on", "rel", "rel_clk", "rel_off"}

Awake == ~suspended

Init == /\ ref_count = 0
        /\ sem = NoThread
        /\ clk_status = 0
        /\ count = [s \in Supplies |-> 0]
        /\ reset = "asserted"
        /\ suspended = FALSE
        /\ pc = [t \in Threads |-> "user"]
        /\ using = {}
        /\ extra = {}
        /\ lost = 0
        /\ faults = {}

Down(t, to) == /\ Awake
               /\ pc[t] = "user"
               /\ sem = NoThread
               /\ sem' = t
               /\ pc' = [pc EXCEPT ![t] = to]

\* up(&cedar_devp->sem) and return to user space.
Up(t) == /\ sem' = NoThread
         /\ pc' = [pc EXCEPT ![t] = "user"]

-----------------------------------------------------------------------------
(* The hardware side of enable_cedar_hw_clk and disable_cedar_hw_clk.      *)

\* The order in which the supplies are switched on.
SwitchOrder == [pm |-> 1, bus |-> 2, mbus |-> 3, ve |-> 4]

\* All supplies before s, and s itself if it is not the one that fails.
EnableUpTo(s) == count' = [c \in Supplies |->
                   IF SwitchOrder[c] < SwitchOrder[s] THEN count[c] + 1 ELSE count[c]]

SwitchOn == /\ count' = [c \in Supplies |-> count[c] + 1]
            /\ reset' = "deasserted"

\* clk_prepare_enable fails at a clock: what was enabled before it stays so.
SwitchOnFails == /\ \E c \in Clocks : EnableUpTo(c)
                 /\ reset' = "deasserted"
                 /\ faults' = faults \cup {"failure"}

\* The clock framework warns about, and ignores, an unbalanced disable.
Less(n) == IF n > 0 THEN n - 1 ELSE 0

SwitchOff == /\ count' = [c \in Supplies |-> Less(count[c])]
             /\ reset' = "asserted"

Powered == /\ clk_status = 1
           /\ reset = "deasserted"
           /\ \A s \in Supplies : count[s] > 0

-----------------------------------------------------------------------------
(* IOCTL_ENGINE_REQ.                                                       *)

EngineReq(t) == /\ t \notin using
                /\ Down(t, "req")
                /\ UNCHANGED <<ref_count, clk_status, hw, suspended, view>>

Granted(t) == /\ Up(t)
              /\ using' = using \cup {t}
              /\ UNCHANGED <<extra, lost, faults>>

ReqCount(t) ==
  /\ pc[t] = "req"
  /\ \/ /\ ref_count < 0
        /\ Up(t)
        /\ UNCHANGED <<ref_count, view>>
     \/ /\ ref_count >= 0
        /\ ref_count' = ref_count + 1
        /\ IF ref_count = 0
           THEN /\ pc' = [pc EXCEPT ![t] = "req_clk"]
                /\ UNCHANGED <<sem, view>>
           ELSE Granted(t)
  /\ UNCHANGED <<clk_status, hw, suspended>>

ReqClk(t) ==
  /\ pc[t] = "req_clk"
  /\ clk_status' = 1
  /\ IF clk_status = 1
     THEN Granted(t)
     ELSE /\ pc' = [pc EXCEPT ![t] = "req_on"]
          /\ UNCHANGED <<sem, view>>
  /\ UNCHANGED <<ref_count, hw, suspended>>

\* Faulty variant: the failure path forgets the count.
ReqOnNotUndone(t) ==
  /\ pc[t] = "req_on"
  /\ \/ SwitchOn /\ Granted(t)
     \/ SwitchOnFails /\ Up(t) /\ UNCHANGED <<using, extra, lost>>
  /\ UNCHANGED <<ref_count, clk_status, suspended>>

ReqOn(t) ==
  /\ pc[t] = "req_on"
  /\ \/ /\ SwitchOn
        /\ Granted(t)
        /\ UNCHANGED ref_count
     \/ /\ SwitchOnFails
        /\ Up(t)
        /\ ref_count' = ref_count - 1
        /\ UNCHANGED <<using, extra, lost>>
  /\ UNCHANGED <<clk_status, suspended>>

-----------------------------------------------------------------------------
(* IOCTL_ENGINE_REL.                                                       *)

\* A client may also release what it has not requested.
EngineRel(t) == /\ t \in using \/ ref_count > -MaxUnder
                /\ Down(t, "rel")
                /\ using' = using \ {t}
                /\ faults' = IF t \in using THEN faults ELSE faults \cup {"misuse"}
                /\ UNCHANGED <<ref_count, clk_status, hw, suspended, extra, lost>>

\* Faulty variant: a release that is not the last one returns without up().
RelCountKeepsSem(t) ==
  /\ pc[t] = "rel"
  /\ ref_count' = ref_count - 1
  /\ pc' = [pc EXCEPT ![t] = IF ref_count' = 0 THEN "rel_clk" ELSE "user"]
  /\ UNCHANGED <<sem, clk_status, hw, suspended, view>>

\* The count is decremented before it is tested, and stays so on the error.
RelCount(t) ==
  /\ pc[t] = "rel"
  /\ ref_count' = ref_count - 1
  /\ IF ref_count' = 0
     THEN /\ pc' = [pc EXCEPT ![t] = "rel_clk"]
          /\ UNCHANGED sem
     ELSE Up(t)
  /\ UNCHANGED <<clk_status, hw, suspended, view>>

\* Faulty variant: clk_status is not tested.
RelClkUntested(t) ==
  /\ pc[t] = "rel_clk"
  /\ clk_status' = 0
  /\ pc' = [pc EXCEPT ![t] = "rel_off"]
  /\ UNCHANGED <<ref_count, sem, hw, suspended, view>>

RelClk(t) ==
  /\ pc[t] = "rel_clk"
  /\ clk_status' = 0
  /\ IF clk_status = 0
     THEN Up(t)
     ELSE /\ pc' = [pc EXCEPT ![t] = "rel_off"]
          /\ UNCHANGED sem
  /\ UNCHANGED <<ref_count, hw, suspended, view>>

RelOff(t) ==
  /\ pc[t] = "rel_off"
  /\ SwitchOff
  /\ Up(t)
  /\ UNCHANGED <<ref_count, clk_status, suspended, view>>

-----------------------------------------------------------------------------
(* The calls without the semaphore.                                        *)

InUser(t) == Awake /\ pc[t] = "user"

\* If the clock fails, the call returns 0 all the same.  (Bound: a thread has
\* one at a time.)
EnableVe(t) ==
  /\ InUser(t)
  /\ t \notin extra
  /\ extra' = extra \cup {t}
  /\ \/ /\ count' = [count EXCEPT !["ve"] = @ + 1]
        /\ UNCHANGED faults
     \/ /\ faults' = faults \cup {"failure"}
        /\ UNCHANGED count
  /\ UNCHANGED <<ref_count, sem, clk_status, reset, suspended, pc, using, lost>>

\* The driver does not know who has enabled the clock, or whether anybody has.
DisableVe(t) ==
  /\ InUser(t)
  /\ count' = [count EXCEPT !["ve"] = Less(@)]
  /\ extra' = extra \ {t}
  /\ faults' = IF t \in extra THEN faults ELSE faults \cup {"unpaired"}
  /\ UNCHANGED <<ref_count, sem, clk_status, reset, suspended, pc, using, lost>>

\* reset_control_reset: asserted for a moment, left deasserted.  A client may
\* also reset an engine it has not requested.
ResetVe(t) ==
  /\ InUser(t)
  /\ reset' = "deasserted"
  /\ faults' = IF t \in using THEN faults ELSE faults \cup {"misuse"}
  /\ UNCHANGED <<ref_count, sem, clk_status, count, suspended, pc, using, extra, lost>>

SetRefCount(t) ==
  /\ InUser(t)
  /\ ref_count' \in RefCounts
  /\ faults' = faults \cup {"misuse"}
  /\ UNCHANGED <<sem, clk_status, hw, suspended, pc, using, extra, lost>>

\* A client dies: cedardev_release does not give its request back.
Die(t) == /\ InUser(t)
          /\ t \in using
          /\ lost < MaxLost
          /\ lost' = lost + 1
          /\ using' = using \ {t}
          /\ UNCHANGED <<ref_count, sem, clk_status, hw, suspended, pc, extra, faults>>

-----------------------------------------------------------------------------
(* System sleep.  User space is frozen first, so no call is under way.     *)

Suspend == /\ Awake
           /\ \A t \in Threads : pc[t] = "user"
           /\ suspended' = TRUE
           /\ clk_status' = 0
           /\ IF clk_status = 0 THEN UNCHANGED hw ELSE SwitchOff
           /\ UNCHANGED <<ref_count, sem, pc, view>>

\* Faulty variants: the clocks are always, or never, switched on again.
ResumeAlways == /\ suspended
                /\ suspended' = FALSE
                /\ clk_status' = 1
                /\ SwitchOn
                /\ UNCHANGED <<ref_count, sem, pc, view>>

ResumeOff == /\ suspended
             /\ suspended' = FALSE
             /\ UNCHANGED <<clk_status, hw, ref_count, sem, pc, view>>

Resume == /\ suspended
          /\ suspended' = FALSE
          /\ \/ /\ ref_count = 0 \/ clk_status = 1
                /\ UNCHANGED <<clk_status, hw, view>>
             \/ /\ ref_count # 0 /\ clk_status = 0
                /\ clk_status' = 1
                /\ \/ SwitchOn /\ UNCHANGED view
                   \/ SwitchOnFails /\ UNCHANGED <<using, extra, lost>>
          /\ UNCHANGED <<ref_count, sem, pc>>

-----------------------------------------------------------------------------
Call(t) == EngineReq(t) \/ EngineRel(t) \/ EnableVe(t) \/ DisableVe(t)
           \/ ResetVe(t) \/ SetRefCount(t) \/ Die(t)

InSem(t) == ReqCount(t) \/ ReqClk(t) \/ ReqOn(t) \/ RelCount(t) \/ RelClk(t) \/ RelOff(t)

Next == \/ \E t \in Threads : Call(t) \/ InSem(t)
        \/ Suspend
        \/ Resume

Spec == Init /\ [][Next]_vars

\* The scheduler runs a thread that is inside the driver.
FairSpec == Spec /\ \A t \in Threads : WF_vars(InSem(t))

-----------------------------------------------------------------------------
(* Properties.                                                             *)

\* Every variable stays in its range.
TypeOK == /\ ref_count \in Int
          /\ sem \in Threads \cup {NoThread}
          /\ clk_status \in {0, 1}
          /\ count \in [Supplies -> Nat]
          /\ reset \in {"asserted", "deasserted"}
          /\ suspended \in BOOLEAN
          /\ pc \in [Threads -> Location]
          /\ using \in SUBSET Threads
          /\ extra \in SUBSET Threads
          /\ lost \in Nat
          /\ faults \in SUBSET {"misuse", "unpaired", "failure"}

\* A client whose ENGINE_REQ returned 0 finds the engine powered until it
\* calls ENGINE_REL, across every other client's calls and system sleep, as
\* long as nobody has misused the calls and no clock has failed.
PoweredWhileUsed == faults = {} /\ Awake /\ using # {} => Powered

\* When the last user has released the engine, all that was switched on for
\* it is off again; only ENABLE_VE keeps the clock it asked for.
OffWhenUnused ==
  (faults = {} /\ sem = NoThread /\ using = {} /\ lost = 0) =>
     /\ clk_status = 0
     /\ reset = "asserted"
     /\ \A s \in Supplies \ {"ve"} : count[s] = 0
     /\ extra = {} => count["ve"] = 0

\* The threads whose request is in ref_count: the users, those whose request
\* is counted but not granted, and those whose release is not yet counted.
Counted == using \cup {t \in Threads : pc[t] \in {"req_clk", "req_on", "rel"}}

\* ref_count is exact: no interleaving and no failure of a clock loses or
\* invents a user, as long as the clients pair their calls.
RefCountExact == "misuse" \notin faults => ref_count = Cardinality(Counted) + lost

\* Whether the supplies are to be on: clk_status says so, except to the thread
\* that has just changed it and switches them next.
SwitchedOn == \/ clk_status = 1 /\ \A t \in Threads : pc[t] # "req_on"
              \/ \E t \in Threads : pc[t] = "rel_off"

Once == IF SwitchedOn THEN 1 ELSE 0

\* clk_status keeps the enable counts right whatever the clients do to
\* ref_count, the reset line and the engine's own clock.  No supply but that
\* clock is ever enabled twice, or left on when clk_status is 0, not even after
\* a clock has failed; until one fails, each is on exactly when clk_status says
\* so; and the engine's clock has one enable more for each ENABLE_VE, until a
\* client calls DISABLE_VE without it.
ClkStatusTrue ==
  /\ \A s \in Supplies \ {"ve"} : count[s] <= Once
  /\ "failure" \notin faults => \A s \in Supplies \ {"ve"} : count[s] = Once
  /\ faults \cap {"failure", "unpaired"} = {} => count["ve"] = Cardinality(extra) + Once

\* The semaphore is owned by the one thread that is inside a call; who has been
\* granted the engine has left the call, and nobody is inside during system
\* sleep.
SemOwned == /\ \A t \in Threads : sem = t <=> pc[t] # "user"
            /\ \A t \in using : pc[t] = "user"
            /\ suspended => clk_status = 0 /\ sem = NoThread

\* clk_status changes before the supplies are switched, whatever has happened.
ClkPhase == \A t \in Threads : /\ pc[t] = "req_on"  => clk_status = 1
                               /\ pc[t] = "rel_off" => clk_status = 0

\* How ref_count, clk_status and the reset line go together while nothing has
\* gone wrong: at every point of a call, between the calls, and in hardware.
CallPhase == \A t \in Threads :
               /\ pc[t] \in {"req_clk", "req_on"}  => ref_count = 1
               /\ pc[t] \in {"rel_clk", "rel_off"} => ref_count = 0
               /\ pc[t] = "req_clk" => clk_status = 0
               /\ pc[t] = "rel_clk" => clk_status = 1

Idle == \A t \in Threads : pc[t] \in {"user", "req", "rel"}

IdlePhase == Awake /\ Idle => (clk_status = 1 <=> ref_count > 0)

ResetPhase == reset = "deasserted" <=> SwitchedOn

PowerPhase == faults = {} => CallPhase /\ IdlePhase /\ ResetPhase

\* The inductive invariant.
Inv == TypeOK /\ SemOwned /\ RefCountExact /\ ClkStatusTrue /\ ClkPhase /\ PowerPhase

\* No path through ENGINE_REQ or ENGINE_REL keeps the semaphore.
SemReturned == sem # NoThread ~> sem = NoThread

\* The log line "enable hw clock succeed" (cedar_ve.c:847): ENGINE_REQ only
\* returns 0 with the clocks on, even after an earlier request failed, as long as
\* the clients pair their calls.
GrantIsPowered ==
  [][faults' \subseteq {"failure"} => \A t \in Threads : t \in using' \ using => Powered']_vars
=============================================================================
