---------------------------- MODULE VeLifecycle ----------------------------
(***************************************************************************)
(* The life of the driver of cedar_ve.c: probe acquires one thing after the *)
(* other, any of which may fail, and remove gives them back.  Meanwhile     *)
(* what has been acquired is in use: the character device by clients, the   *)
(* sysfs and debugfs files by readers, the driver's callbacks by the kernel.*)
(*                                                                         *)
(* All state is in one allocation, cedar_devp.  The driver's probe returns  *)
(* 0 whether cedardev_init succeeds or not, so remove always follows.       *)
(***************************************************************************)
EXTENDS Integers, SequencesExt

CONSTANT MaxOpened   \* bound: how many files are open at a time

ASSUME VeLifecycleAssumption == MaxOpened \in Nat \ {0}

\* What cedardev_init acquires, in its order.  "procs" is the buffer of the
\* process information and "lock" the initialisation of lock_proc.
Chain == <<"region", "cdev", "class", "device", "irq", "regs", "sysregs",
           "clocks", "sysfs", "debugfs", "procs", "lock", "pm", "regulator">>

\* What create_char_device acquires, and gives back itself when it fails.
CharDevice == {"region", "cdev", "class", "device"}

\* Those whose failure ends the initialisation.
MayFail == Range(Chain) \ {"sysregs", "lock", "pm", "regulator"}

\* What cedardev_exit gives back, in its order, and what goes with each: the
\* attributes of a device go with the device; clocks belong to the platform
\* device (devm); a mutex is not destroyed.  Nothing unmaps "sysregs", the
\* registers of the system and clock controllers.
GivenBack == <<{"irq"}, {"regs"}, {"cdev"}, {"device", "sysfs"}, {"class"},
               {"region"}, {"pm"}, {"debugfs"}, {"procs", "lock"},
               {"regulator", "clocks"}>>

VARIABLES
  phase,     \* "unbound", "init", "bound" or "exit"
  life_at,   \* the next element of Chain or of GivenBack
  devp,      \* cedar_devp: "null", "live" or "freed", still pointing there
  held,      \* what is acquired
  bInitEndFlag,
  opened,    \* the number of open files
  reading,   \* whether somebody is in the debugfs file's open
  failed,    \* history: a cedardev_init has failed
  removed,   \* history: a cedardev_exit has come to its end
  pulled,    \* history: cedardev_exit ran while a file was open
  early,     \* history: the reader began before lock_proc was initialised
  faults     \* history: "double free", "use after free" and, for the last line
             \* of cedardev_exit, "write after free"

lifeVars == <<phase, life_at, devp, held, bInitEndFlag, opened, reading,
              failed, removed, pulled, early, faults>>

LifeInit ==
  /\ phase = "unbound"
  /\ life_at = 1
  /\ devp = "null"
  /\ held = {}
  /\ bInitEndFlag = FALSE
  /\ opened = 0
  /\ reading = FALSE
  /\ failed = FALSE /\ removed = FALSE /\ pulled = FALSE /\ early = FALSE
  /\ faults = {}

UseVars == <<opened, reading, early>>

\* The faults of touching cedar_devp as it is.
Touch == IF devp = "live" THEN {} ELSE {"use after free"}

-----------------------------------------------------------------------------
(* cedardev_init.                                                           *)

\* What an earlier one has left in cedar_devp is freed.
FreeOld == IF devp = "freed" THEN {"double free"} ELSE {}

LifeProbe ==
  /\ phase = "unbound"
  /\ phase' = "init"
  /\ life_at' = 1
  /\ devp' = "live"
  /\ bInitEndFlag' = FALSE
  /\ faults' = faults \cup FreeOld
  /\ UNCHANGED <<held, UseVars, failed, removed, pulled>>

\* No memory: cedardev_init returns, and the device is bound nonetheless.
LifeProbeNoMemory ==
  /\ phase = "unbound"
  /\ phase' = "bound"
  /\ devp' = "null"
  /\ failed' = TRUE
  /\ faults' = faults \cup FreeOld
  /\ UNCHANGED <<life_at, held, bInitEndFlag, UseVars, removed, pulled>>

Acquire ==
  /\ phase = "init"
  /\ held' = held \cup {Chain[life_at]}
  /\ life_at' = life_at + 1
  /\ phase' = IF life_at = Len(Chain) THEN "bound" ELSE "init"
  /\ bInitEndFlag' = (life_at = Len(Chain))
  /\ UNCHANGED <<devp, UseVars, failed, removed, pulled, faults>>

\* What is given back when r cannot be acquired: for r in create_char_device
\* what that has acquired itself, for all others nothing.
Unwound(r) == IF r \in CharDevice
              THEN {Chain[i] : i \in 1 .. life_at - 1} ELSE {}

\* Label free_devp: cedar_devp is freed but not set to NULL.
AcquireFails ==
  LET r == Chain[life_at] IN
  /\ phase = "init"
  /\ r \in MayFail
  /\ phase' = "bound"
  /\ devp' = "freed"
  /\ held' = held \ Unwound(r)
  /\ failed' = TRUE
  /\ UNCHANGED <<life_at, bInitEndFlag, UseVars, removed, pulled, faults>>

-----------------------------------------------------------------------------
(* cedardev_exit.  The module stays while a file is open, but the device    *)
(* can be unbound from its driver at any time.                              *)

\* Faulty variant: cedar_devp is freed first.
LifeRemoveFreesFirst ==
  /\ phase = "bound"
  /\ phase' = "exit"
  /\ life_at' = 1
  /\ devp' = "freed"
  /\ UNCHANGED <<held, bInitEndFlag, UseVars, failed, removed, pulled, faults>>

LifeRemove ==
  /\ phase = "bound"
  /\ phase' = "exit"
  /\ life_at' = 1
  /\ UNCHANGED <<devp, held, bInitEndFlag, UseVars, failed, removed, pulled, faults>>

\* debugfs_remove_recursive waits for who is in the file.
GiveBack ==
  /\ phase = "exit"
  /\ life_at <= Len(GivenBack)
  /\ "debugfs" \in GivenBack[life_at] => ~reading
  /\ held' = held \ GivenBack[life_at]
  /\ life_at' = life_at + 1
  /\ faults' = faults \cup Touch
  /\ pulled' = (pulled \/ opened > 0)
  /\ UNCHANGED <<phase, devp, bInitEndFlag, UseVars, failed, removed>>

\* Freed again if an initialisation has failed; the pointer stays, and the
\* line that follows the kfree writes bInitEndFlag to where it points, at every
\* removal.
LifeExit ==
  /\ phase = "exit"
  /\ life_at > Len(GivenBack)
  /\ phase' = "unbound"
  /\ life_at' = 1
  /\ devp' = IF devp = "null" THEN "null" ELSE "freed"
  /\ bInitEndFlag' = FALSE
  /\ removed' = TRUE
  /\ pulled' = (pulled \/ opened > 0)
  /\ faults' = faults \cup FreeOld \cup {"write after free"}
  /\ UNCHANGED <<held, UseVars, failed>>

-----------------------------------------------------------------------------
(* What uses the driver.                                                    *)

\* Faulty variant: open does not look at bInitEndFlag.
MayOpenAlways == TRUE

MayOpen == devp # "live" \/ bInitEndFlag

\* A freed cedar_devp may still say that the initialisation is complete.
LifeOpen ==
  /\ "cdev" \in held
  /\ opened < MaxOpened
  /\ MayOpen
  /\ opened' = opened + 1
  /\ faults' = faults \cup Touch
  /\ UNCHANGED <<phase, life_at, devp, held, bInitEndFlag, reading, failed,
                 removed, pulled, early>>

\* The release of a file touches cedar_devp, as its ioctls do.
LifeClose ==
  /\ opened > 0
  /\ opened' = opened - 1
  /\ faults' = faults \cup Touch
  /\ UNCHANGED <<phase, life_at, devp, held, bInitEndFlag, reading, failed,
                 removed, pulled, early>>

\* ve_info_show, and the suspend and resume callbacks of a bound device.
LifeCallback ==
  /\ "sysfs" \in held \/ phase = "bound"
  /\ faults' = faults \cup Touch
  /\ UNCHANGED <<phase, life_at, devp, held, bInitEndFlag, UseVars, failed,
                 removed, pulled>>

\* The debugfs file is there before lock_proc is initialised.
LifeRead ==
  /\ "debugfs" \in held
  /\ ~reading
  /\ reading' = TRUE
  /\ early' = ("lock" \notin held)
  /\ UNCHANGED <<phase, life_at, devp, held, bInitEndFlag, opened, failed,
                 removed, pulled, faults>>

LifeReadEnds ==
  /\ reading
  /\ reading' = FALSE
  /\ UNCHANGED <<phase, life_at, devp, held, bInitEndFlag, opened, failed,
                 removed, pulled, early, faults>>

-----------------------------------------------------------------------------
LifeNext == \/ LifeProbe \/ LifeProbeNoMemory \/ Acquire \/ AcquireFails
            \/ LifeRemove \/ GiveBack \/ LifeExit
            \/ LifeOpen \/ LifeClose \/ LifeCallback \/ LifeRead \/ LifeReadEnds

LifeSpec == LifeInit /\ [][LifeNext]_lifeVars

-----------------------------------------------------------------------------
(* Properties.                                                              *)

\* The last line of cedardev_exit writes to the memory that the line before has
\* freed, whenever a removal comes to its end.  But for that, the driver's memory
\* is used only while it is allocated and freed only once, at whatever moment
\* files are opened, closed and read, unless an initialisation has failed, the
\* device was unbound under an open file, or it is probed for a second time.
MemoryLives ==
  /\ "write after free" \in faults => removed
  /\ "use after free" \in faults => failed \/ pulled
  /\ "double free" \in faults => failed \/ removed

\* cedardev_exit gives back all that a complete cedardev_init has acquired, but
\* for the maps of other controllers' registers.  A failure in
\* create_char_device leaves nothing of the character device, a later one all
\* of it, never a part.
AllGivenBack ==
  /\ phase = "unbound" /\ ~failed => held \subseteq {"sysregs"}
  /\ phase = "bound" => CharDevice \cap held \in {{}, CharDevice}

\* Both: the driver's memory and what it has acquired are given back once, and,
\* but for that line, not before their last use.
LifeSafe == MemoryLives /\ AllGivenBack

\* A client gets through open only when everything is there, although the
\* device is visible from the second step on; and who has got into the
\* debugfs file after its mutex was ready keeps mutex and buffer until the end.
ServedWhole ==
  /\ opened > 0 /\ phase # "exit" /\ ~failed /\ ~pulled => Range(Chain) \subseteq held
  /\ reading /\ ~early => {"procs", "lock"} \subseteq held
=============================================================================
