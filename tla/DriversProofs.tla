--------------------------- MODULE DriversProofs ----------------------------
(***************************************************************************)
(* Theorems about the two drivers around what their clients do: the life   *)
(* cycle of the VE driver (VeLifecycle), and the IOMMU's devices, domain,   *)
(* resets and faults (IommuDevice), for any devices, masters and threads.  *)
(***************************************************************************)
EXTENDS VeLifecycle, IommuDevice, TLAPS

-----------------------------------------------------------------------------
(* VeLifecycle.                                                             *)

\* What is acquired before step n of cedardev_init.
Before(n) == {Chain[i] : i \in 1 .. n - 1}

LifeTypeOK ==
  /\ phase \in {"unbound", "init", "bound", "exit"}
  /\ life_at \in Nat
  /\ devp \in {"null", "live", "freed"}
  /\ held \subseteq Range(Chain)
  /\ opened \in Nat

\* What is held at each point of the initialisation and of the removal.
HeldInPhase ==
  /\ "lock" \in held => "procs" \in held
  /\ phase = "unbound" => held \subseteq {"sysregs"}
  /\ phase = "init" => /\ life_at \in 1 .. Len(Chain)
                       /\ Before(life_at) \subseteq held
                       /\ held \subseteq Before(life_at) \cup {"sysregs"}
  /\ phase = "bound" => CharDevice \cap held \in {{}, CharDevice}
  /\ phase = "exit" => /\ life_at \in 1 .. Len(GivenBack) + 1
                       /\ \A j \in 1 .. life_at - 1 : held \cap GivenBack[j] = {}

\* What a complete initialisation leaves: everything acquired, and cedar_devp
\* there until cedardev_exit frees it and leaves it dangling.
DevpInPhase ==
  /\ phase = "bound" /\ ~failed => Range(Chain) \subseteq held
  /\ phase # "unbound" /\ ~failed => devp = "live"
  /\ devp = "freed" => failed \/ removed
  /\ phase = "init" => ~bInitEndFlag

\* Who has a file open, or is in the debugfs file, and what he can rely on.
UsersServed ==
  /\ phase \in {"unbound", "init"} /\ opened > 0 => failed \/ pulled
  /\ reading => "debugfs" \in held
  /\ reading /\ ~early => {"procs", "lock"} \subseteq held

LifeInv == LifeTypeOK /\ HeldInPhase /\ DevpInPhase /\ UsersServed /\ MemoryLives

LEMMA ChainIs ==
  /\ Len(Chain) = 14
  /\ Chain[1] = "region" /\ Chain[2] = "cdev" /\ Chain[3] = "class" /\ Chain[4] = "device"
  /\ Chain[5] = "irq" /\ Chain[6] = "regs" /\ Chain[7] = "sysregs" /\ Chain[8] = "clocks"
  /\ Chain[9] = "sysfs" /\ Chain[10] = "debugfs" /\ Chain[11] = "procs" /\ Chain[12] = "lock"
  /\ Chain[13] = "pm" /\ Chain[14] = "regulator"
BY DEF Chain

LEMMA RangeChain ==
  Range(Chain) = {"region", "cdev", "class", "device", "irq", "regs", "sysregs",
           "clocks", "sysfs", "debugfs", "procs", "lock", "pm", "regulator"}
<1>1. Range(Chain) = {Chain[i] : i \in 1 .. 14} BY ChainIs DEF Range, Chain
<1>2. \A i \in 1 .. 14 : i \in {1, 2, 3, 4, 5, 6, 7, 8, 9, 10, 11, 12, 13, 14} OBVIOUS
<1> QED BY <1>1, <1>2, ChainIs

LEMMA GivenBackIs ==
  /\ Len(GivenBack) = 10
  /\ GivenBack[1] = {"irq"} /\ GivenBack[2] = {"regs"} /\ GivenBack[3] = {"cdev"}
  /\ GivenBack[4] = {"device", "sysfs"} /\ GivenBack[5] = {"class"} /\ GivenBack[6] = {"region"}
  /\ GivenBack[7] = {"pm"} /\ GivenBack[8] = {"debugfs"} /\ GivenBack[9] = {"procs", "lock"}
  /\ GivenBack[10] = {"regulator", "clocks"}
BY DEF GivenBack

\* One step further, one thing more has been acquired.
LEMMA BeforeNext ==
  ASSUME NEW n \in 1 .. Len(Chain)
  PROVE  Before(n + 1) = Before(n) \cup {Chain[n]}
<1>1. 1 .. n + 1 - 1 = (1 .. n - 1) \cup {n} BY ChainIs
<1> QED BY <1>1 DEF Before

LEMMA BeforeEnds == Before(1) = {} /\ Before(Len(Chain) + 1) = Range(Chain)
<1>1. 1 .. 1 - 1 = {} OBVIOUS
<1>2. 1 .. Len(Chain) + 1 - 1 = DOMAIN Chain BY ChainIs DEF Chain
<1> QED BY <1>1, <1>2 DEF Before, Range

\* Every name but "sysregs" is given back somewhere.
LEMMA AllListed ==
  \A r \in Range(Chain) \ {"sysregs"} : \E j \in 1 .. Len(GivenBack) : r \in GivenBack[j]
BY RangeChain, GivenBackIs

LEMMA LifeInvInit == LifeInit => LifeInv
<1> SUFFICES ASSUME LifeInit PROVE LifeInv
  OBVIOUS
<1> USE DEF LifeInit
<1>1. LifeTypeOK BY DEF LifeTypeOK
<1>2. HeldInPhase BY DEF HeldInPhase
<1>3. DevpInPhase BY DEF DevpInPhase
<1>4. UsersServed BY DEF UsersServed
<1>5. MemoryLives BY DEF MemoryLives
<1> QED BY <1>1, <1>2, <1>3, <1>4, <1>5 DEF LifeInv

LEMMA LifeProbeKeeps == LifeInv /\ LifeProbe => LifeInv'
<1> SUFFICES ASSUME LifeInv, LifeProbe PROVE LifeInv'
  OBVIOUS
<1> USE DEF LifeInv, LifeProbe, LifeTypeOK, HeldInPhase, DevpInPhase, UsersServed, UseVars, FreeOld
<1>1. LifeTypeOK' OBVIOUS
<1>2. HeldInPhase'
  <2>1. /\ phase' = "init" /\ life_at' = 1 /\ held' = held /\ held \subseteq {"sysregs"}
    OBVIOUS
  <2> QED BY ONLY <2>1, BeforeEnds, ChainIs DEF HeldInPhase
<1>3. DevpInPhase' OBVIOUS
<1>4. UsersServed' OBVIOUS
<1>5. MemoryLives' BY DEF MemoryLives
<1> QED BY <1>1, <1>2, <1>3, <1>4, <1>5

LEMMA LifeProbeNoMemoryKeeps == LifeInv /\ LifeProbeNoMemory => LifeInv'
<1> SUFFICES ASSUME LifeInv, LifeProbeNoMemory PROVE LifeInv'
  OBVIOUS
<1> USE DEF LifeInv, LifeProbeNoMemory, LifeTypeOK, HeldInPhase, DevpInPhase, UsersServed, UseVars, FreeOld
<1>1. LifeTypeOK' OBVIOUS
<1>2. HeldInPhase' BY DEF CharDevice
<1>3. DevpInPhase' OBVIOUS
<1>4. UsersServed' OBVIOUS
<1>5. MemoryLives' BY DEF MemoryLives
<1> QED BY <1>1, <1>2, <1>3, <1>4, <1>5

LEMMA AcquireKeeps == LifeInv /\ Acquire => LifeInv'
<1> SUFFICES ASSUME LifeInv, Acquire PROVE LifeInv'
  OBVIOUS
<1>1. /\ phase = "init" /\ phase' = IF life_at = Len(Chain) THEN "bound" ELSE "init"
      /\ life_at' = life_at + 1 /\ held' = held \cup {Chain[life_at]}
      /\ UNCHANGED <<devp, opened>>
      /\ LifeTypeOK /\ HeldInPhase
  BY DEF Acquire, LifeInv, UseVars
<1>2. life_at \in 1 .. Len(Chain) /\ Len(Chain) = 14 BY <1>1, ChainIs DEF HeldInPhase
<1>3. Chain[life_at] \in Range(Chain) BY <1>2, ChainIs, RangeChain
<1>4. Before(life_at + 1) \subseteq held' /\ held' \subseteq Before(life_at + 1) \cup {"sysregs"}
  BY <1>1, <1>2, BeforeNext DEF HeldInPhase
<1>5. phase' = "bound" => Range(Chain) \subseteq held'
  BY <1>1, <1>4, BeforeEnds
<1>6. "lock" \in held' => "procs" \in held'
  <2>1. ASSUME Chain[life_at] = "lock" PROVE "procs" \in held
    <3>1. life_at = 12 BY <1>2, <2>1, ChainIs
    <3> QED BY <1>1, <3>1, ChainIs DEF HeldInPhase, Before
  <2> QED BY <1>1, <2>1 DEF HeldInPhase
<1>7. HeldInPhase'
  <2>1. CASE phase' = "bound"
    BY <1>5, <1>6, <2>1, RangeChain DEF HeldInPhase, CharDevice
  <2>2. CASE phase' = "init"
    BY <1>1, <1>2, <1>4, <1>6, <2>2 DEF HeldInPhase
  <2> QED BY <1>1, <2>1, <2>2
<1>8. LifeTypeOK' BY <1>1, <1>2, <1>3 DEF LifeTypeOK
<1>9. DevpInPhase'
  <2>1. phase' = "init" => ~bInitEndFlag' BY <1>1 DEF Acquire
  <2> QED BY <1>1, <1>5, <2>1 DEF Acquire, LifeInv, DevpInPhase
<1>10. UsersServed' /\ MemoryLives'
  BY DEF Acquire, LifeInv, UsersServed, MemoryLives, UseVars
<1> QED BY <1>7, <1>8, <1>9, <1>10 DEF LifeInv

LEMMA AcquireFailsKeeps == LifeInv /\ AcquireFails => LifeInv'
<1> SUFFICES ASSUME LifeInv, AcquireFails PROVE LifeInv'
  OBVIOUS
<1> DEFINE r == Chain[life_at]
<1>0. /\ phase = "init" /\ phase' = "bound" /\ devp' = "freed"
      /\ held' = held \ Unwound(r) /\ UNCHANGED <<life_at, opened>>
      /\ LifeTypeOK /\ HeldInPhase
  BY DEF AcquireFails, LifeInv, UseVars
<1>1. life_at \in 1 .. Len(Chain) /\ Len(Chain) = 14 BY <1>0, ChainIs DEF HeldInPhase
<1>2. Unwound(r) \subseteq CharDevice
  <2>1. CASE r \in CharDevice
    <3>1. life_at \in 1 .. 4 BY <1>1, <2>1, ChainIs DEF CharDevice
    <3>2. {Chain[i] : i \in 1 .. life_at - 1} \subseteq CharDevice BY <3>1, ChainIs DEF CharDevice
    <3> QED BY <3>2 DEF Unwound
  <2>2. CASE r \notin CharDevice BY <2>2 DEF Unwound
  <2> QED BY <2>1, <2>2
<1>3. CharDevice \cap held' \in {{}, CharDevice}
  <2>1. CASE r \in CharDevice
    <3>1. held' = held \ Before(life_at) BY <1>0, <2>1 DEF Unwound, Before
    <3>2. held' \subseteq {"sysregs"} BY <1>0, <3>1 DEF HeldInPhase
    <3> QED BY <3>2 DEF CharDevice
  <2>2. CASE r \notin CharDevice
    <3>1. life_at > 4 BY <1>1, <2>2, ChainIs DEF CharDevice
    <3>2. CharDevice \subseteq Before(life_at)
      <4>1. {1, 2, 3, 4} \subseteq 1 .. life_at - 1 BY <1>1, <3>1
      <4> QED BY <4>1, ChainIs DEF Before, CharDevice
    <3>3. held' = held BY <1>0, <2>2 DEF Unwound
    <3> QED BY <1>0, <3>2, <3>3 DEF HeldInPhase
  <2> QED BY <2>1, <2>2
<1>4. held \ CharDevice \subseteq held' /\ held' \subseteq held BY <1>0, <1>2
<1>5. LifeTypeOK' BY <1>0, <1>4 DEF LifeTypeOK
<1>6. HeldInPhase' BY <1>0, <1>3, <1>4 DEF HeldInPhase, CharDevice
<1>7. UsersServed'
  BY <1>4 DEF AcquireFails, LifeInv, UsersServed, UseVars, CharDevice
<1>8. DevpInPhase' /\ MemoryLives' BY DEF AcquireFails, DevpInPhase, LifeInv, MemoryLives
<1> QED BY <1>5, <1>6, <1>7, <1>8 DEF LifeInv

LEMMA LifeRemoveKeeps == LifeInv /\ LifeRemove => LifeInv'
<1> SUFFICES ASSUME LifeInv, LifeRemove PROVE LifeInv'
  OBVIOUS
<1> USE DEF LifeInv, LifeRemove, LifeTypeOK, HeldInPhase, DevpInPhase, UsersServed, UseVars
<1>1. HeldInPhase' BY GivenBackIs
<1> QED BY <1>1 DEF MemoryLives

LEMMA GiveBackKeeps == LifeInv /\ GiveBack => LifeInv'
<1> SUFFICES ASSUME LifeInv, GiveBack PROVE LifeInv'
  OBVIOUS
<1>0. /\ phase = "exit" /\ life_at <= Len(GivenBack) /\ held' = held \ GivenBack[life_at]
      /\ life_at' = life_at + 1 /\ UNCHANGED <<phase, devp, opened>>
      /\ LifeTypeOK /\ HeldInPhase
  BY DEF GiveBack, LifeInv, UseVars
<1>1. life_at \in 1 .. 10 /\ Len(GivenBack) = 10 BY <1>0, GivenBackIs DEF HeldInPhase
<1>2. LifeTypeOK' BY <1>0, <1>1 DEF LifeTypeOK
<1>3. HeldInPhase'
  <2>1. \A j \in 1 .. life_at' - 1 : j \in 1 .. life_at - 1 \/ j = life_at BY <1>0, <1>1
  <2>2. \A j \in 1 .. life_at' - 1 : held' \cap GivenBack[j] = {}
    BY <1>0, <2>1 DEF HeldInPhase
  <2>3. "lock" \in held' => "procs" \in held'
    <3>1. ASSUME "procs" \in GivenBack[life_at] PROVE "lock" \in GivenBack[life_at]
      BY <1>1, <3>1, GivenBackIs
    <3> QED BY <1>0, <3>1 DEF HeldInPhase
  <2> QED BY <1>0, <1>1, <2>2, <2>3 DEF HeldInPhase
<1>4. reading => "debugfs" \in held' BY DEF GiveBack, LifeInv, UsersServed
<1>5. ASSUME "debugfs" \in held PROVE GivenBack[life_at] \cap {"procs", "lock"} = {}
  <2>1. ASSUME GivenBack[life_at] \cap {"procs", "lock"} # {} PROVE FALSE
    <3>1. life_at = 9 BY <1>1, <2>1, GivenBackIs
    <3>2. held \cap GivenBack[8] = {} BY <1>0, <3>1 DEF HeldInPhase
    <3> QED BY <1>5, <3>2, GivenBackIs
  <2> QED BY <2>1
<1>6. UsersServed'
  <2>1. reading' = reading /\ early' = early /\ UsersServed
    BY DEF GiveBack, LifeInv, UseVars
  <2> QED BY <1>0, <1>4, <1>5, <2>1 DEF UsersServed
<1>7. DevpInPhase' /\ MemoryLives'
  BY DEF GiveBack, LifeInv, DevpInPhase, MemoryLives, Touch
<1> QED BY <1>2, <1>3, <1>6, <1>7 DEF LifeInv

LEMMA LifeExitKeeps == LifeInv /\ LifeExit => LifeInv'
<1> SUFFICES ASSUME LifeInv, LifeExit PROVE LifeInv'
  OBVIOUS
<1> USE DEF LifeInv, LifeExit, LifeTypeOK, HeldInPhase, DevpInPhase, UsersServed, UseVars
<1>0. /\ life_at > Len(GivenBack) /\ life_at \in 1 .. Len(GivenBack) + 1
      /\ \A j \in 1 .. life_at - 1 : held \cap GivenBack[j] = {}
  OBVIOUS
<1>1. \A j \in 1 .. Len(GivenBack) : held \cap GivenBack[j] = {}
  BY ONLY <1>0, GivenBackIs
<1>2. held \subseteq {"sysregs"} BY <1>1, AllListed
<1>3. HeldInPhase' BY <1>2
<1>4. LifeTypeOK' /\ UsersServed' OBVIOUS
<1>5. DevpInPhase' /\ MemoryLives' BY DEF MemoryLives, FreeOld
<1> QED BY <1>3, <1>4, <1>5

\* Files, readers and callbacks change neither what is held nor the phase.
LEMMA UsesKeep ==
  LifeInv /\ (LifeOpen \/ LifeClose \/ LifeCallback \/ LifeRead \/ LifeReadEnds) => LifeInv'
<1> SUFFICES ASSUME LifeInv PROVE LifeOpen \/ LifeClose \/ LifeCallback \/ LifeRead \/ LifeReadEnds => LifeInv'
  OBVIOUS
<1> USE DEF LifeInv, LifeTypeOK, HeldInPhase, DevpInPhase, UsersServed, UseVars, MemoryLives, Touch
<1>1. ASSUME LifeOpen PROVE LifeInv'
  <2>1. phase # "unbound" BY <1>1 DEF LifeOpen
  <2>2. phase = "init" => failed BY <1>1 DEF LifeOpen, MayOpen
  <2>8. opened \in Nat /\ opened' = opened + 1 BY <1>1 DEF LifeOpen
  <2>9. opened' \in Nat BY ONLY <2>8
  <2>3. LifeTypeOK' BY <1>1, <2>9 DEF LifeOpen
  <2>4. HeldInPhase' BY <1>1 DEF LifeOpen
  <2>5. DevpInPhase' BY <1>1 DEF LifeOpen
  <2>6. UsersServed' BY <1>1, <2>1, <2>2 DEF LifeOpen
  <2>7. MemoryLives' BY <1>1, <2>1 DEF LifeOpen
  <2> QED BY <2>3, <2>4, <2>5, <2>6, <2>7
<1>2. ASSUME LifeClose PROVE LifeInv'
  <2>6. opened \in Nat /\ opened > 0 /\ opened' = opened - 1 BY <1>2 DEF LifeClose
  <2>7. opened' \in Nat /\ (opened' > 0 => opened > 0) BY ONLY <2>6
  <2>1. LifeTypeOK' BY <1>2, <2>7 DEF LifeClose
  <2>2. HeldInPhase' BY <1>2 DEF LifeClose
  <2>3. DevpInPhase' BY <1>2 DEF LifeClose
  <2>4. UsersServed' BY <1>2, <2>7 DEF LifeClose
  <2>5. MemoryLives' BY <1>2 DEF LifeClose
  <2> QED BY <2>1, <2>2, <2>3, <2>4, <2>5
<1>3. ASSUME LifeCallback PROVE LifeInv'
  <2>1. LifeTypeOK' BY <1>3 DEF LifeCallback
  <2>2. HeldInPhase' BY <1>3 DEF LifeCallback
  <2>3. DevpInPhase' BY <1>3 DEF LifeCallback
  <2>4. UsersServed' BY <1>3 DEF LifeCallback
  <2>5. MemoryLives' BY <1>3 DEF LifeCallback
  <2> QED BY <2>1, <2>2, <2>3, <2>4, <2>5
<1>4. ASSUME LifeRead PROVE LifeInv'
  <2>1. LifeTypeOK' BY <1>4 DEF LifeRead
  <2>2. HeldInPhase' BY <1>4 DEF LifeRead
  <2>3. DevpInPhase' BY <1>4 DEF LifeRead
  <2>4. UsersServed' BY <1>4 DEF LifeRead
  <2>5. MemoryLives' BY <1>4 DEF LifeRead
  <2> QED BY <2>1, <2>2, <2>3, <2>4, <2>5
<1>5. ASSUME LifeReadEnds PROVE LifeInv'
  <2>1. LifeTypeOK' BY <1>5 DEF LifeReadEnds
  <2>2. HeldInPhase' BY <1>5 DEF LifeReadEnds
  <2>3. DevpInPhase' BY <1>5 DEF LifeReadEnds
  <2>4. UsersServed' BY <1>5 DEF LifeReadEnds
  <2>5. MemoryLives' BY <1>5 DEF LifeReadEnds
  <2> QED BY <2>1, <2>2, <2>3, <2>4, <2>5
<1> QED BY <1>1, <1>2, <1>3, <1>4, <1>5

LEMMA LifeInvStep == LifeInv /\ [LifeNext]_lifeVars => LifeInv'
<1> SUFFICES ASSUME LifeInv, [LifeNext]_lifeVars PROVE LifeInv'
  OBVIOUS
<1>1. CASE UNCHANGED lifeVars
  <2> USE <1>1 DEF lifeVars, LifeInv
  <2>1. LifeTypeOK' BY DEF LifeTypeOK
  <2>2. HeldInPhase' BY DEF HeldInPhase
  <2>3. DevpInPhase' BY DEF DevpInPhase
  <2>4. UsersServed' BY DEF UsersServed
  <2>5. MemoryLives' BY DEF MemoryLives
  <2> QED BY <2>1, <2>2, <2>3, <2>4, <2>5
<1>2. CASE LifeNext
  BY <1>2, LifeProbeKeeps, LifeProbeNoMemoryKeeps, AcquireKeeps, AcquireFailsKeeps,
     LifeRemoveKeeps, GiveBackKeeps, LifeExitKeeps, UsesKeep DEF LifeNext
<1> QED BY <1>1, <1>2

\* What is held, what cedar_devp points to, which faults there have been (that
\* of the last line of cedardev_exit at every removal) and what users rely on
\* go with the phase of the driver's life, through every failure of the
\* initialisation.
THEOREM LifeInvariance == LifeSpec => []LifeInv
BY LifeInvInit, LifeInvStep, PTL DEF LifeSpec

\* But for the write of bInitEndFlag that ends every cedardev_exit, cedar_devp is
\* used only while it is there and freed once, unless an initialisation failed,
\* the device was unbound under an open file or is probed again; and
\* cedardev_exit gives back what cedardev_init has acquired, for any number of
\* files.
THEOREM DriverLifeSafe == LifeSpec => []LifeSafe
<1>1. LifeInv => LifeSafe
  BY DEF LifeInv, HeldInPhase, LifeSafe, AllGivenBack
<1> QED BY LifeInvariance, <1>1, PTL

\* Who has opened the device has all of the driver behind him, and who is in the
\* debugfs file keeps its mutex and its buffer.
THEOREM ClientsServedWhole == LifeSpec => []ServedWhole
<1>1. LifeInv => ServedWhole
  BY DEF LifeInv, LifeTypeOK, DevpInPhase, UsersServed, ServedWhole
<1> QED BY LifeInvariance, <1>1, PTL

-----------------------------------------------------------------------------
(* IommuDevice.                                                             *)

(***************************************************************************)
(* What links a device to the hardware: a bound device has a domain; with a *)
(* domain the hardware has the bypass bits, and translates unless its       *)
(* initialisation failed; the bit of a master that one device alone drives  *)
(* is what that device asked for.                                           *)
(***************************************************************************)
DomainThere ==
  /\ \A d \in Devices : dev_pc[d] = "bound" => domain # "none"
  /\ domain = "none" => ~iommu_hw_init_flag

HardwareFollows ==
  clocked /\ domain # "none" =>
    /\ hw.bypass = bypass
    /\ domain = "live" /\ ~hw_fails => hw.enabled /\ hw.ttb

BitsAsAsked ==
  \A d \in Translated :
    dev_pc[d] = "bound" /\ (\A e \in Devices \ {d} : MasterOf[e] # MasterOf[d])
      => MasterOf[d] \notin bypass

\* Who is in sunxi_reset_device_iommu resets a master.
ResetNamed == \A t \in Resetters : reset_pc[t] # "idle" => reset_m[t] \in Masters

DeviceInv == DeviceTypeOK /\ ResetNamed /\ DomainThere /\ HardwareFollows
             /\ BitsAsAsked

(***************************************************************************)
(* As long as no reset has read the register with another master low: what  *)
(* it has read lacks at most its own master.  The register then lacks at    *)
(* most the master of one reset, who has yet to look at it, or the handler  *)
(* has yet to raise it.                                                     *)
(***************************************************************************)
ReadWhole == \A t \in Resetters :
               reset_pc[t] \in {"write", "raise"} => reset_val[t] \cup {reset_m[t]} = Masters

RaisedLater == \/ reset_reg = Masters
               \/ irq_pc = "raise"
               \/ \E t \in Resetters : /\ reset_pc[t] \in {"check", "raise"}
                                       /\ reset_reg = Masters \ {reset_m[t]}

ResetInv == ~torn => ReadWhole /\ RaisedLater

\* Until the handler has put in reset what it has read, it remembers what it
\* has cleared; what it clears of the page walk it has read, or it came late.
FaultInv == /\ irq_pc = "low" => owed \subseteq int_sta \cup pg_int \cup late \cup IrqMasters
            /\ irq_pc # "low" => owed \subseteq int_sta \cup pg_int \cup late
            /\ irq_pc = "clear" => pg_int \subseteq pgint_reg \cup late

\* What sunxi_iommu_hw_init leaves is typed.
LEMMA HwTyped ==
  ASSUME DeviceTypeOK, HwInit
  PROVE  /\ hw' \in [ttb : BOOLEAN, bypass : SUBSET Masters, enabled : BOOLEAN]
         /\ iommu_hw_init_flag' \in BOOLEAN /\ hw_fails' \in BOOLEAN
<1>1. /\ (domain' = "live") \in BOOLEAN /\ bypass \in SUBSET Masters
      /\ hw.enabled \in BOOLEAN /\ iommu_hw_init_flag \in BOOLEAN
  BY DEF DeviceTypeOK
<1>2. CASE /\ hw' = [ttb |-> domain' = "live", bypass |-> bypass, enabled |-> TRUE]
           /\ iommu_hw_init_flag' = TRUE /\ hw_fails' = FALSE
  BY ONLY <1>1, <1>2
<1>3. CASE /\ hw' = [ttb |-> domain' = "live", bypass |-> bypass, enabled |-> hw.enabled]
           /\ UNCHANGED iommu_hw_init_flag /\ hw_fails' = TRUE
  BY ONLY <1>1, <1>3
<1> QED BY <1>2, <1>3 DEF HwInit

\* After it the hardware has the bypass bits, and translates unless it failed.
LEMMA HwWritten ==
  ASSUME HwInit
  PROVE  /\ hw'.bypass = bypass
         /\ domain' = "live" /\ ~hw_fails' => hw'.enabled /\ hw'.ttb
<1>1. CASE /\ hw' = [ttb |-> domain' = "live", bypass |-> bypass, enabled |-> TRUE]
           /\ hw_fails' = FALSE
  BY ONLY <1>1
<1>2. CASE /\ hw' = [ttb |-> domain' = "live", bypass |-> bypass, enabled |-> hw.enabled]
           /\ hw_fails' = TRUE
  BY ONLY <1>2
<1> QED BY <1>1, <1>2 DEF HwInit

\* At first no device is bound and nothing is being reset.
LEMMA DeviceInvInit == DeviceInit => DeviceInv /\ ResetInv /\ FaultInv
<1> SUFFICES ASSUME DeviceInit PROVE DeviceInv /\ ResetInv /\ FaultInv
  OBVIOUS
<1> USE IommuDeviceAssumption DEF DeviceInit
<1>1. hw \in [ttb : BOOLEAN, bypass : SUBSET Masters, enabled : BOOLEAN]
  BY DEF RegsLost
<1>2. DeviceTypeOK BY <1>1 DEF DeviceTypeOK
<1>3. DomainThere /\ ResetNamed BY DEF DomainThere, ResetNamed
<1>4. HardwareFollows BY DEF HardwareFollows
<1>5. BitsAsAsked BY DEF BitsAsAsked
<1>6. ResetInv BY DEF ResetInv, ReadWhole, RaisedLater
<1>7. FaultInv BY DEF FaultInv
<1> QED BY <1>2, <1>3, <1>4, <1>5, <1>6, <1>7 DEF DeviceInv

\* The variables stay in their ranges.
LEMMA DeviceTypeStep ==
  ASSUME DeviceTypeOK, ResetNamed, [DeviceNext]_iommuVars
  PROVE  (DeviceTypeOK /\ ResetNamed)'
<1> USE IommuDeviceAssumption DEF DeviceTypeOK, ResetNamed, DevGo, ResetGo, ResetReads, ResetVars, FaultVars, IrqVars
<1>1. CASE DomainAlloc
  <2>1. /\ hw' \in [ttb : BOOLEAN, bypass : SUBSET Masters, enabled : BOOLEAN]
        /\ iommu_hw_init_flag' \in BOOLEAN /\ hw_fails' \in BOOLEAN
    <3>1. CASE iommu_hw_init_flag BY <1>1, <3>1 DEF DomainAlloc
    <3>2. CASE ~iommu_hw_init_flag BY <1>1, <3>2, HwTyped DEF DomainAlloc
    <3> QED BY <3>1, <3>2
  <2> QED BY <1>1, <2>1 DEF DomainAlloc
<1>2. CASE DomainFree
  BY <1>2 DEF DomainFree
<1>3. CASE IommuSuspend
  BY <1>3 DEF IommuSuspend, RegsLost
<1>4. CASE IommuResume
  <2>1. /\ hw' \in [ttb : BOOLEAN, bypass : SUBSET Masters, enabled : BOOLEAN]
        /\ iommu_hw_init_flag' \in BOOLEAN /\ hw_fails' \in BOOLEAN
    <3>1. CASE domain = "none" BY <1>4, <3>1 DEF IommuResume
    <3>2. CASE domain # "none" BY <1>4, <3>2, HwTyped DEF IommuResume
    <3> QED BY <3>1, <3>2
  <2> QED BY <1>4, <2>1 DEF IommuResume
<1>5. CASE IrqRead \/ IrqClear \/ IrqLow \/ IrqRaise
  BY <1>5 DEF IrqRead, IrqClear, IrqLow, IrqRaise, IrqGo, IrqMasters
<1>6. ASSUME NEW d \in Devices, ProbeDevice(d) PROVE (DeviceTypeOK /\ ResetNamed)'
  BY <1>6 DEF ProbeDevice
<1>7. ASSUME NEW d \in Devices, ProbeFinalize(d) PROVE (DeviceTypeOK /\ ResetNamed)'
  BY <1>7 DEF ProbeFinalize, Finalized, SetBypass
<1>8. ASSUME NEW d \in Devices, ReleaseDevice(d) PROVE (DeviceTypeOK /\ ResetNamed)'
  BY <1>8 DEF ReleaseDevice, SetBypass
<1>9. ASSUME NEW t \in Resetters, NEW m \in Masters, ResetDevice(t, m) PROVE (DeviceTypeOK /\ ResetNamed)'
  BY <1>9 DEF ResetDevice
<1>10. ASSUME NEW t \in Resetters, ResetWrite(t) PROVE (DeviceTypeOK /\ ResetNamed)'
  BY <1>10 DEF ResetWrite
<1>11. ASSUME NEW t \in Resetters, ResetCheck(t) PROVE (DeviceTypeOK /\ ResetNamed)'
  <2>1. CASE reset_m[t] \in reset_reg BY <1>11, <2>1 DEF ResetCheck, ResetReturns
  <2>2. CASE reset_m[t] \notin reset_reg BY <1>11, <2>2 DEF ResetCheck
  <2> QED BY <2>1, <2>2
<1>12. ASSUME NEW t \in Resetters, ResetRaise(t) PROVE (DeviceTypeOK /\ ResetNamed)'
  <2>1. reset_reg' \subseteq Masters
    <3>1. reset_val[t] \in SUBSET Masters BY ONLY DeviceTypeOK, <1>12 DEF DeviceTypeOK
    <3>2. reset_m[t] \in Masters BY ONLY ResetNamed, <1>12 DEF ResetNamed, ResetRaise, ResetGo
    <3> QED BY <1>12, <3>1, <3>2 DEF ResetRaise, ResetReturns
  <2> QED BY <1>12, <2>1 DEF ResetRaise, ResetReturns
<1>13. ASSUME NEW m \in Masters, PermissionFault(m) \/ WalkFault(m)
       PROVE  (DeviceTypeOK /\ ResetNamed)'
  BY <1>13 DEF PermissionFault, WalkFault, FaultGo
<1>14. CASE UNCHANGED iommuVars
  BY <1>14 DEF iommuVars
<1> QED
  BY <1>1, <1>2, <1>3, <1>4, <1>5, <1>6, <1>7, <1>8, <1>9, <1>10, <1>11, <1>12, <1>13, <1>14 DEF DeviceNext

\* Domain, hardware and bypass bits stay together.
LEMMA DeviceStep ==
  ASSUME DeviceInv, [DeviceNext]_iommuVars
  PROVE  (DomainThere /\ HardwareFollows /\ BitsAsAsked)'
<1> USE IommuDeviceAssumption DEF DeviceInv, DeviceTypeOK, DomainThere, HardwareFollows, BitsAsAsked,
        DevGo, ResetGo, ResetReads, ResetVars, FaultVars, IrqVars
<1>1. CASE DomainAlloc
  <2>1. bypass' = bypass /\ dev_pc' = dev_pc /\ domain' = "live"
    BY <1>1 DEF DomainAlloc
  <2>2. ~iommu_hw_init_flag BY <1>1 DEF DomainAlloc
  <2>3. hw'.bypass = bypass /\ (~hw_fails' => hw'.enabled /\ hw'.ttb)
    BY <1>1, <2>1, <2>2, HwWritten DEF DomainAlloc
  <2>4. DomainThere' /\ BitsAsAsked' BY <2>1
  <2>5. HardwareFollows' BY <2>1, <2>3
  <2> QED BY <2>4, <2>5
<1>2. CASE DomainFree
  BY <1>2 DEF DomainFree
<1>3. CASE IommuSuspend
  BY <1>3 DEF IommuSuspend, RegsLost
<1>4. CASE IommuResume
  <2>1. bypass' = bypass /\ dev_pc' = dev_pc /\ domain' = domain
    BY <1>4 DEF IommuResume
  <2>2. domain # "none" => /\ hw'.bypass = bypass
                           /\ domain = "live" /\ ~hw_fails' => hw'.enabled /\ hw'.ttb
    BY <1>4, <2>1, HwWritten DEF IommuResume
  <2>3. domain = "none" => ~iommu_hw_init_flag'
    BY <1>4 DEF IommuResume
  <2>4. DomainThere' /\ BitsAsAsked' BY <2>1, <2>3
  <2>5. HardwareFollows' BY <2>1, <2>2
  <2> QED BY <2>4, <2>5
<1>5. CASE IrqRead \/ IrqClear \/ IrqLow \/ IrqRaise
  BY <1>5 DEF IrqRead, IrqClear, IrqLow, IrqRaise, IrqGo, IrqMasters
<1>6. ASSUME NEW d \in Devices, ProbeDevice(d) PROVE (DomainThere /\ HardwareFollows /\ BitsAsAsked)'
  BY <1>6 DEF ProbeDevice
<1>7. ASSUME NEW d \in Devices, ProbeFinalize(d) PROVE (DomainThere /\ HardwareFollows /\ BitsAsAsked)'
  BY <1>7 DEF ProbeFinalize, Finalized, SetBypass
<1>8. ASSUME NEW d \in Devices, ReleaseDevice(d) PROVE (DomainThere /\ HardwareFollows /\ BitsAsAsked)'
  BY <1>8 DEF ReleaseDevice, SetBypass
<1>9. ASSUME NEW t \in Resetters, NEW m \in Masters, ResetDevice(t, m) PROVE (DomainThere /\ HardwareFollows /\ BitsAsAsked)'
  BY <1>9 DEF ResetDevice
<1>10. ASSUME NEW t \in Resetters, ResetWrite(t) PROVE (DomainThere /\ HardwareFollows /\ BitsAsAsked)'
  BY <1>10 DEF ResetWrite
<1>11. ASSUME NEW t \in Resetters, ResetCheck(t) PROVE (DomainThere /\ HardwareFollows /\ BitsAsAsked)'
  BY <1>11 DEF ResetCheck, ResetReturns
<1>12. ASSUME NEW t \in Resetters, ResetRaise(t) PROVE (DomainThere /\ HardwareFollows /\ BitsAsAsked)'
  BY <1>12 DEF ResetRaise, ResetReturns
<1>13. ASSUME NEW m \in Masters, PermissionFault(m) \/ WalkFault(m)
       PROVE  (DomainThere /\ HardwareFollows /\ BitsAsAsked)'
  BY <1>13 DEF PermissionFault, WalkFault, FaultGo
<1>14. CASE UNCHANGED iommuVars
  BY <1>14 DEF iommuVars
<1> QED
  BY <1>1, <1>2, <1>3, <1>4, <1>5, <1>6, <1>7, <1>8, <1>9, <1>10, <1>11, <1>12, <1>13, <1>14 DEF DeviceNext

\* A reset without another one restores the register.
LEMMA ResetStep ==
  ASSUME DeviceTypeOK, ResetNamed, ResetInv, [DeviceNext]_iommuVars
  PROVE  ResetInv'
<1> SUFFICES ASSUME ~torn' PROVE ReadWhole' /\ RaisedLater'
  BY DEF ResetInv
<1>a. /\ reset_reg \subseteq Masters
      /\ reset_pc \in [Resetters -> {"idle", "write", "check", "raise"}]
      /\ reset_m \in [Resetters -> Masters \cup {None}]
      /\ reset_val \in [Resetters -> SUBSET Masters]
      /\ \A t \in Resetters : reset_pc[t] # "idle" => reset_m[t] \in Masters
  BY DEF DeviceTypeOK, ResetNamed
<1>b. torn => torn'
  BY DEF DeviceNext, DomainAlloc, DomainFree, IommuSuspend, IommuResume, IrqRead, IrqClear,
     IrqLow, IrqRaise, IrqGo, ProbeDevice, ProbeFinalize, ReleaseDevice, ResetDevice, ResetWrite,
     ResetCheck, ResetRaise, ResetReturns, ResetReads, PermissionFault, WalkFault, FaultGo,
     ResetVars, iommuVars
<1>c. ReadWhole /\ RaisedLater
  BY <1>b DEF ResetInv
<1>1. ASSUME UNCHANGED <<reset_reg, reset_pc, reset_m, reset_val, irq_pc>>
      PROVE  ReadWhole' /\ RaisedLater'
  BY <1>1, <1>c DEF ReadWhole, RaisedLater
<1>2. CASE \/ DomainAlloc \/ DomainFree \/ IommuResume
           \/ \E d \in Devices : ProbeDevice(d) \/ ProbeFinalize(d) \/ ReleaseDevice(d)
           \/ \E m \in Masters : PermissionFault(m) \/ WalkFault(m)
           \/ UNCHANGED iommuVars
  BY <1>1, <1>2 DEF DomainAlloc, DomainFree, IommuResume, ProbeDevice, ProbeFinalize,
     ReleaseDevice, PermissionFault, WalkFault, FaultGo, ResetVars, FaultVars, IrqVars, iommuVars
<1>3. CASE IommuSuspend
  BY <1>3, <1>c DEF IommuSuspend, ReadWhole, RaisedLater
<1>4. CASE IrqRead \/ IrqClear \/ IrqLow \/ IrqRaise
  BY <1>4, <1>c DEF IrqRead, IrqClear, IrqLow, IrqRaise, IrqGo, ReadWhole, RaisedLater
<1>5. ASSUME NEW t \in Resetters, NEW m \in Masters, ResetDevice(t, m)
      PROVE  ReadWhole' /\ RaisedLater'
  <2>1. /\ reset_pc[t] = "idle" /\ reset_pc' = [reset_pc EXCEPT ![t] = "write"]
        /\ reset_m' = [reset_m EXCEPT ![t] = m]
        /\ reset_val' = [reset_val EXCEPT ![t] = reset_reg]
        /\ reset_reg \cup {m} = Masters /\ reset_reg' = reset_reg /\ irq_pc' = irq_pc
    BY <1>5 DEF ResetDevice, ResetGo, ResetReads, FaultVars, IrqVars
  <2>2. ReadWhole' BY <1>a, <1>c, <2>1 DEF ReadWhole
  <2>3. RaisedLater' BY <1>a, <1>c, <2>1 DEF RaisedLater
  <2> QED BY <2>2, <2>3
<1>6. ASSUME NEW t \in Resetters, ResetWrite(t) PROVE ReadWhole' /\ RaisedLater'
  <2>1. /\ reset_pc[t] = "write" /\ reset_pc' = [reset_pc EXCEPT ![t] = "check"]
        /\ reset_m' = reset_m /\ reset_val' = reset_val
        /\ reset_reg' = reset_val[t] \ {reset_m[t]} /\ irq_pc' = irq_pc
    BY <1>6 DEF ResetWrite, ResetGo, FaultVars, IrqVars
  <2>2. ReadWhole' BY <1>a, <1>c, <2>1 DEF ReadWhole
  <2>3. reset_val[t] \cup {reset_m[t]} = Masters BY <1>c, <2>1 DEF ReadWhole
  <2>4. reset_reg' = Masters \ {reset_m'[t]} /\ reset_pc'[t] = "check" BY <1>a, <2>1, <2>3
  <2> QED BY <2>2, <2>4 DEF RaisedLater
<1>7. ASSUME NEW t \in Resetters, ResetCheck(t) PROVE ReadWhole' /\ RaisedLater'
  <2>1. CASE reset_m[t] \in reset_reg
    <3>1. /\ reset_pc[t] = "check" /\ reset_pc' = [reset_pc EXCEPT ![t] = "idle"]
          /\ reset_m' = [reset_m EXCEPT ![t] = None]
          /\ reset_val' = [reset_val EXCEPT ![t] = {}]
          /\ reset_reg' = reset_reg /\ irq_pc' = irq_pc
      BY <1>7, <2>1 DEF ResetCheck, ResetReturns, ResetGo, FaultVars, IrqVars
    <3>2. ReadWhole' BY <1>a, <1>c, <3>1 DEF ReadWhole
    <3>3. ASSUME NEW u \in Resetters, reset_pc[u] \in {"check", "raise"},
                 reset_reg = Masters \ {reset_m[u]}
          PROVE  RaisedLater'
      <4>1. u # t BY <2>1, <3>3
      <4> QED BY <1>a, <3>1, <3>3, <4>1 DEF RaisedLater
    <3>4. RaisedLater' BY <1>c, <3>1, <3>3 DEF RaisedLater
    <3> QED BY <3>2, <3>4
  <2>2. CASE reset_m[t] \notin reset_reg
    <3>1. /\ reset_pc[t] = "check" /\ reset_pc' = [reset_pc EXCEPT ![t] = "raise"]
          /\ reset_m' = reset_m
          /\ reset_val' = [reset_val EXCEPT ![t] = reset_reg]
          /\ reset_reg \cup {reset_m[t]} = Masters
          /\ reset_reg' = reset_reg /\ irq_pc' = irq_pc
      BY <1>7, <2>2 DEF ResetCheck, ResetReads, ResetGo, FaultVars, IrqVars
    <3>2. ReadWhole' BY <1>a, <1>c, <3>1 DEF ReadWhole
    <3>3. reset_reg' = Masters \ {reset_m'[t]} /\ reset_pc'[t] = "raise" BY <1>a, <2>2, <3>1
    <3> QED BY <3>2, <3>3 DEF RaisedLater
  <2> QED BY <2>1, <2>2
<1>8. ASSUME NEW t \in Resetters, ResetRaise(t) PROVE ReadWhole' /\ RaisedLater'
  <2>1. /\ reset_pc[t] = "raise" /\ reset_pc' = [reset_pc EXCEPT ![t] = "idle"]
        /\ reset_m' = [reset_m EXCEPT ![t] = None]
        /\ reset_val' = [reset_val EXCEPT ![t] = {}]
        /\ reset_reg' = reset_val[t] \cup {reset_m[t]}
    BY <1>8 DEF ResetRaise, ResetReturns, ResetGo
  <2>2. ReadWhole' BY <1>a, <1>c, <2>1 DEF ReadWhole
  <2>3. RaisedLater' BY <1>c, <2>1 DEF ReadWhole, RaisedLater
  <2> QED BY <2>2, <2>3
<1> QED BY <1>2, <1>3, <1>4, <1>5, <1>6, <1>7, <1>8 DEF DeviceNext

\* The handler forgets no fault.
LEMMA FaultStep ==
  ASSUME FaultInv, [DeviceNext]_iommuVars
  PROVE  FaultInv'
<1> USE DEF FaultInv, FaultVars, IrqVars, IrqMasters
<1>1. CASE IrqRead BY <1>1 DEF IrqRead, IrqGo
<1>2. CASE IrqClear
  <2>1. /\ irq_pc = "clear" /\ irq_pc' = "low"
        /\ int_sta' = int_sta \ inter_status_reg
        /\ pg_int \ pgint_reg \subseteq pg_int' \/ pgint_reg # {}
        /\ UNCHANGED <<inter_status_reg, pgint_reg, owed, late>>
    BY <1>2 DEF IrqClear, IrqGo
  <2>2. pg_int \subseteq pgint_reg \cup late BY <2>1
  <2> QED BY <2>1, <2>2
<1>3. CASE IrqLow BY <1>3 DEF IrqLow, IrqGo
<1>4. CASE IrqRaise BY <1>4 DEF IrqRaise, IrqGo
<1>5. ASSUME NEW m \in Masters, PermissionFault(m) PROVE FaultInv'
  BY <1>5 DEF PermissionFault, FaultGo
<1>6. ASSUME NEW m \in Masters, WalkFault(m) PROVE FaultInv'
  BY <1>6 DEF WalkFault, FaultGo
<1>7. CASE IommuSuspend BY <1>7 DEF IommuSuspend
<1>8. CASE UNCHANGED FaultVars BY <1>8
<1> QED
  BY <1>1, <1>2, <1>3, <1>4, <1>5, <1>6, <1>7, <1>8
  DEF DeviceNext, DomainAlloc, DomainFree, IommuResume, ProbeDevice, ProbeFinalize,
      ReleaseDevice, ResetDevice, ResetWrite, ResetCheck, ResetRaise, ResetReturns, ResetGo,
      iommuVars

LEMMA DeviceInvariance == DeviceSpec => [](DeviceInv /\ ResetInv /\ FaultInv)
<1>1. DeviceInv /\ ResetInv /\ FaultInv /\ [DeviceNext]_iommuVars
        => (DeviceInv /\ ResetInv /\ FaultInv)'
  <2> SUFFICES ASSUME DeviceInv, ResetInv, FaultInv, [DeviceNext]_iommuVars
               PROVE  (DeviceInv /\ ResetInv /\ FaultInv)'
    OBVIOUS
  <2>1. DeviceTypeOK /\ ResetNamed BY DEF DeviceInv
  <2> QED BY <2>1, DeviceTypeStep, DeviceStep, ResetStep, FaultStep DEF DeviceInv
<1> QED BY DeviceInvInit, <1>1, PTL DEF DeviceSpec

\* The master of a bound device that asked for translation is translated by the
\* domain's table whenever the IOMMU has its clock, across sleep.
THEOREM DevicesTranslated == DeviceSpec => []TranslatedWhileBound
<1>1. DeviceInv => TranslatedWhileBound
  BY IommuDeviceAssumption
  DEF DeviceInv, DeviceTypeOK, DomainThere, HardwareFollows, BitsAsAsked, TranslatedWhileBound
<1> QED BY DeviceInvariance, <1>1, PTL

\* When the resets and the handler are over, every master is out of reset,
\* unless a reset has read the register while another reset, or the handler
\* between its two writes, had another master low.
THEOREM ResetsEnd == DeviceSpec => []NotLeftInReset
<1>1. ResetInv => NotLeftInReset
  BY DEF ResetInv, RaisedLater, NotLeftInReset, LockFree
<1> QED BY DeviceInvariance, <1>1, PTL

\* No fault is cleared without its master being put in reset after it, for any
\* masters, faults and moments, but for a fault of page walk that comes between
\* the handler's reading and clearing.
THEOREM FaultsAreEnded == DeviceSpec => []FaultsEndInReset
<1>1. FaultInv => FaultsEndInReset
  BY DEF FaultInv, FaultsEndInReset
<1> QED BY DeviceInvariance, <1>1, PTL
=============================================================================
