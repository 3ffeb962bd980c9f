----------------------------- MODULE IommuDevice -----------------------------
(***************************************************************************)
(* Devices, the domain, power and faults in sunxi-iommu-v1.c.  A device     *)
(* drives a master of the IOMMU.  A master whose bypass bit is set does not *)
(* translate; all are set at first.  The only domain is allocated when the  *)
(* first device needs one, and then the hardware is initialised.  A system  *)
(* sleep switches the clock off, which loses the registers.                 *)
(*                                                                         *)
(* Sections under iommu_lock are one step, but for the interrupt handler:   *)
(* the masters go on while it runs, and sunxi_reset_device_iommu takes no   *)
(* lock.  Both are cut at each access of a register that they share.        *)
(***************************************************************************)
CONSTANTS
  Devices,    \* the client devices
  Masters,    \* the masters
  MasterOf,   \* args[0] of the device's "iommus": its master
  Translated, \* args[1]: the devices that ask for translation
  Resetters,  \* the threads that call sunxi_reset_device_iommu
  None

ASSUME IommuDeviceAssumption ==
  /\ MasterOf \in [Devices -> Masters]
  /\ Translated \subseteq Devices
  /\ None \notin Masters

VARIABLES
  dev_pc,     \* dev_pc[d]: "off", "probed" (has an owner) or "bound" (finalized)
  domain,     \* global_sunxi_iommu_domain: "none", "live", or "freed" but still set
  iommu_hw_init_flag,
  bypass,     \* iommu->bypass
  clocked,    \* whether the clock is on
  hw,         \* the registers: [ttb: leads to the domain's table, bypass, enabled]
  reset_reg,  \* IOMMU_RESET_REG: the masters that are not in reset
  reset_pc,   \* reset_pc[t]: "idle", "write", "check" or "raise"
  reset_m,    \* reset_m[t]: master_id
  reset_val,  \* reset_val[t]: regval
  int_sta,    \* IOMMU_INT_STA_REG: the masters with a fault of permission
  pg_int,     \* IOMMU_L1PG_INT_REG and L2PG: those with a fault of page walk
  irq_pc,     \* where sunxi_iommu_irq is: "idle", "clear", "low" or "raise"
  inter_status_reg, pgint_reg, \* what it has read of the two
  hw_fails,   \* history: sunxi_iommu_hw_init has failed since the clock came on
  torn,       \* history: a reset has read reset_reg with another master low
  owed,       \* history: the masters with a fault since the handler last put
              \* them in reset
  late        \* history: those with a fault of page walk that came between the
              \* handler's reading and clearing

iommuVars == <<dev_pc, domain, iommu_hw_init_flag, bypass, clocked, hw, reset_reg,
               reset_pc, reset_m, reset_val, int_sta, pg_int, irq_pc,
               inter_status_reg, pgint_reg, hw_fails, torn, owed, late>>

RegsLost == [ttb |-> FALSE, bypass |-> {}, enabled |-> FALSE]

DeviceInit ==
  /\ dev_pc = [d \in Devices |-> "off"]
  /\ domain = "none"
  /\ iommu_hw_init_flag = FALSE
  /\ bypass = Masters
  /\ clocked = TRUE
  /\ hw = RegsLost
  /\ reset_reg = Masters
  /\ reset_pc = [t \in Resetters |-> "idle"]
  /\ reset_m = [t \in Resetters |-> None]
  /\ reset_val = [t \in Resetters |-> {}]
  /\ int_sta = {} /\ pg_int = {}
  /\ irq_pc = "idle" /\ inter_status_reg = {} /\ pgint_reg = {}
  /\ hw_fails = FALSE /\ torn = FALSE /\ owed = {} /\ late = {}

ResetVars == <<reset_reg, reset_pc, reset_m, reset_val, torn>>
IrqVars == <<irq_pc, inter_status_reg, pgint_reg>>
FaultVars == <<int_sta, pg_int, IrqVars, owed, late>>

\* The handler has iommu_lock.
LockFree == irq_pc = "idle"

-----------------------------------------------------------------------------
(* Hardware and domain.                                                     *)

\* sunxi_iommu_hw_init in a state of the clock: the table and the bypass bits
\* are written; the flush that comes before the enabling may time out.
HwInit ==
  /\ LockFree
  /\ \/ /\ hw' = [ttb |-> domain' = "live", bypass |-> bypass, enabled |-> TRUE]
        /\ iommu_hw_init_flag' = TRUE
        /\ hw_fails' = FALSE
     \/ /\ hw' = [ttb |-> domain' = "live", bypass |-> bypass, enabled |-> hw.enabled]
        /\ UNCHANGED iommu_hw_init_flag
        /\ hw_fails' = TRUE

\* sunxi_iommu_domain_alloc for the first time (a failed allocation unwinds in
\* the same call, later calls return the same domain).  The domain is returned
\* even if the hardware could not be initialised.
DomainAlloc ==
  /\ domain = "none"
  /\ clocked
  /\ \E d \in Devices : dev_pc[d] = "probed"
  /\ domain' = "live"
  /\ IF iommu_hw_init_flag THEN UNCHANGED <<hw, iommu_hw_init_flag, hw_fails>>
                           ELSE HwInit
  /\ UNCHANGED <<dev_pc, bypass, clocked, ResetVars, FaultVars>>

\* sunxi_iommu_domain_free, by a user of the API that was given the one domain
\* too.  The pointer to it and iommu_hw_init_flag stay, and so does the address
\* of the freed table in the hardware.
DomainFree ==
  /\ domain = "live"
  /\ clocked
  /\ domain' = "freed"
  /\ hw' = [hw EXCEPT !.ttb = FALSE]
  /\ UNCHANGED <<dev_pc, iommu_hw_init_flag, bypass, clocked, ResetVars, FaultVars,
                 hw_fails>>

-----------------------------------------------------------------------------
(* Devices.                                                                 *)

\* sunxi_enable_device_iommu.  Without the clock the register is not written.
SetBypass(b) == /\ LockFree
                /\ bypass' = b
                /\ hw' = IF clocked THEN [hw EXCEPT !.bypass = b] ELSE hw

DevGo(d, from, to) == /\ dev_pc[d] = from
                      /\ dev_pc' = [dev_pc EXCEPT ![d] = to]

\* sunxi_iommu_of_xlate makes the owner, sunxi_iommu_probe_device finds it.
ProbeDevice(d) ==
  /\ DevGo(d, "off", "probed")
  /\ UNCHANGED <<domain, iommu_hw_init_flag, bypass, clocked, hw, ResetVars,
                 FaultVars, hw_fails>>

Finalized(d) == IF d \in Translated THEN bypass \ {MasterOf[d]}
                                    ELSE bypass \cup {MasterOf[d]}

\* sunxi_iommu_probe_device_finalize, which the core calls with a domain attached.
ProbeFinalize(d) ==
  /\ DevGo(d, "probed", "bound")
  /\ domain # "none"
  /\ SetBypass(Finalized(d))
  /\ UNCHANGED <<domain, iommu_hw_init_flag, clocked, ResetVars, FaultVars, hw_fails>>

\* sunxi_iommu_release_device: the master does not translate any more, whoever
\* else drives it.
ReleaseDevice(d) ==
  /\ dev_pc[d] # "off"
  /\ dev_pc' = [dev_pc EXCEPT ![d] = "off"]
  /\ SetBypass(bypass \cup {MasterOf[d]})
  /\ UNCHANGED <<domain, iommu_hw_init_flag, clocked, ResetVars, FaultVars, hw_fails>>

-----------------------------------------------------------------------------
(* System sleep.                                                            *)

IommuSuspend ==
  /\ clocked
  /\ clocked' = FALSE
  /\ hw' = RegsLost
  /\ int_sta' = {} /\ pg_int' = {} /\ owed' = {} /\ late' = {}
  /\ reset_reg' = Masters
  /\ irq_pc = "idle" /\ \A t \in Resetters : reset_pc[t] = "idle"
  /\ UNCHANGED <<dev_pc, domain, iommu_hw_init_flag, bypass, reset_pc, reset_m,
                 reset_val, IrqVars, hw_fails, torn>>

\* Faulty variant: the hardware is initialised only if it never was.
IommuResumeTrusts ==
  /\ ~clocked
  /\ clocked' = TRUE
  /\ IF domain = "none" \/ iommu_hw_init_flag
     THEN UNCHANGED <<hw, iommu_hw_init_flag, hw_fails>>
     ELSE UNCHANGED domain /\ HwInit
  /\ UNCHANGED <<dev_pc, domain, bypass, ResetVars, FaultVars>>

\* Without a domain nothing is restored.
IommuResume ==
  /\ ~clocked
  /\ clocked' = TRUE
  /\ UNCHANGED domain
  /\ IF domain = "none" THEN UNCHANGED <<hw, iommu_hw_init_flag, hw_fails>> ELSE HwInit
  /\ UNCHANGED <<dev_pc, bypass, ResetVars, FaultVars>>

-----------------------------------------------------------------------------
(* sunxi_reset_device_iommu.                                                *)

ResetGo(t, from, to) == /\ reset_pc[t] = from
                        /\ reset_pc' = [reset_pc EXCEPT ![t] = to]
                        /\ UNCHANGED <<dev_pc, domain, iommu_hw_init_flag, bypass,
                                       clocked, hw, FaultVars, hw_fails>>

ResetReads(t, m) == /\ reset_val' = [reset_val EXCEPT ![t] = reset_reg]
                    /\ torn' = (torn \/ reset_reg \cup {m} # Masters)

ResetDevice(t, m) ==
  /\ clocked
  /\ ResetGo(t, "idle", "write")
  /\ reset_m' = [reset_m EXCEPT ![t] = m]
  /\ ResetReads(t, m)
  /\ UNCHANGED reset_reg

ResetWrite(t) == /\ ResetGo(t, "write", "check")
                 /\ reset_reg' = reset_val[t] \ {reset_m[t]}
                 /\ UNCHANGED <<reset_m, reset_val, torn>>

\* Its locals are gone.
ResetReturns(t) == /\ ResetGo(t, reset_pc[t], "idle")
                   /\ reset_m' = [reset_m EXCEPT ![t] = None]
                   /\ reset_val' = [reset_val EXCEPT ![t] = {}]

\* Faulty variant: tests the value that was read before the write.
ResetCheckOld(t) ==
  /\ reset_pc[t] = "check"
  /\ IF reset_m[t] \in reset_val[t]
     THEN ResetReturns(t) /\ UNCHANGED torn
     ELSE ResetGo(t, "check", "raise") /\ ResetReads(t, reset_m[t]) /\ UNCHANGED reset_m
  /\ UNCHANGED reset_reg

\* The register is read again: is the master back already?
ResetCheck(t) ==
  /\ reset_pc[t] = "check"
  /\ IF reset_m[t] \in reset_reg
     THEN ResetReturns(t) /\ UNCHANGED torn
     ELSE ResetGo(t, "check", "raise") /\ ResetReads(t, reset_m[t]) /\ UNCHANGED reset_m
  /\ UNCHANGED reset_reg

ResetRaise(t) == /\ reset_pc[t] = "raise"
                 /\ ResetReturns(t)
                 /\ reset_reg' = reset_val[t] \cup {reset_m[t]}
                 /\ UNCHANGED torn

-----------------------------------------------------------------------------
(* Faults and the interrupt handler.                                        *)

\* What the hardware reports of a master that translates.
FaultGo(m) == /\ hw.enabled /\ m \notin hw.bypass
              /\ owed' = owed \cup {m}
              /\ UNCHANGED <<dev_pc, domain, iommu_hw_init_flag, bypass, clocked, hw,
                             ResetVars, IrqVars, hw_fails>>

PermissionFault(m) == /\ FaultGo(m)
                      /\ int_sta' = int_sta \cup {m}
                      /\ UNCHANGED <<pg_int, late>>

WalkFault(m) == /\ FaultGo(m)
                /\ pg_int' = pg_int \cup {m}
                /\ late' = IF irq_pc = "clear" THEN late \cup {m} ELSE late
                /\ UNCHANGED int_sta

IrqGo(from, to) == /\ irq_pc = from
                   /\ irq_pc' = to
                   /\ UNCHANGED <<dev_pc, domain, iommu_hw_init_flag, bypass, clocked, hw,
                                  reset_pc, reset_m, reset_val, hw_fails, torn>>

\* sunxi_iommu_irq, under iommu_lock.  It may also come for a prefetch, or for
\* nothing, with no master in the registers.  Which master's callback it calls
\* (if none is there, that of __ffs(0)) changes nothing: no code of the
\* repository registers one.  What it invalidates is TlbIrq of IommuTlb.
IrqRead == /\ clocked
           /\ IrqGo("idle", "clear")
           /\ inter_status_reg' = int_sta /\ pgint_reg' = pg_int
           /\ UNCHANGED <<reset_reg, int_sta, pg_int, owed, late>>

\* Faulty variant: clears whatever is there.
IrqClearAll == /\ IrqGo("clear", "low")
               /\ int_sta' = {} /\ pg_int' = {}
               /\ UNCHANGED <<reset_reg, inter_status_reg, pgint_reg, owed, late>>

\* INT_CLR is written with what was read of INT_STA.  There a master has a bit
\* for its faults of permission, but all of them share one for the faults of a
\* level of the page walk: that bit may clear what has come since.
IrqClear ==
  /\ IrqGo("clear", "low")
  /\ int_sta' = int_sta \ inter_status_reg
  /\ pg_int' \in {pg_int \ pgint_reg, IF pgint_reg = {} THEN pg_int ELSE {}}
  /\ UNCHANGED <<reset_reg, inter_status_reg, pgint_reg, owed, late>>

IrqMasters == inter_status_reg \cup pgint_reg

\* RESET_REG is written twice: the faulty masters low, and all high.
IrqLow == /\ IrqGo("low", "raise")
          /\ reset_reg' = Masters \ IrqMasters
          /\ owed' = owed \ IrqMasters /\ late' = late \ IrqMasters
          /\ UNCHANGED <<int_sta, pg_int, inter_status_reg, pgint_reg>>

IrqRaise == /\ IrqGo("raise", "idle")
            /\ reset_reg' = Masters
            /\ inter_status_reg' = {} /\ pgint_reg' = {}
            /\ UNCHANGED <<int_sta, pg_int, owed, late>>

-----------------------------------------------------------------------------
DeviceNext ==
  \/ DomainAlloc \/ DomainFree \/ IommuSuspend \/ IommuResume
  \/ IrqRead \/ IrqClear \/ IrqLow \/ IrqRaise
  \/ \E d \in Devices : ProbeDevice(d) \/ ProbeFinalize(d) \/ ReleaseDevice(d)
  \/ \E t \in Resetters : \/ \E m \in Masters : ResetDevice(t, m)
                          \/ ResetWrite(t) \/ ResetCheck(t) \/ ResetRaise(t)
  \/ \E m \in Masters : PermissionFault(m) \/ WalkFault(m)

DeviceSpec == DeviceInit /\ [][DeviceNext]_iommuVars

-----------------------------------------------------------------------------
(* Properties.                                                              *)

DeviceTypeOK ==
  /\ dev_pc \in [Devices -> {"off", "probed", "bound"}]
  /\ domain \in {"none", "live", "freed"}
  /\ iommu_hw_init_flag \in BOOLEAN /\ clocked \in BOOLEAN
  /\ bypass \subseteq Masters
  /\ hw \in [ttb : BOOLEAN, bypass : SUBSET Masters, enabled : BOOLEAN]
  /\ reset_reg \subseteq Masters
  /\ reset_pc \in [Resetters -> {"idle", "write", "check", "raise"}]
  /\ reset_m \in [Resetters -> Masters \cup {None}]
  /\ reset_val \in [Resetters -> SUBSET Masters]
  /\ int_sta \subseteq Masters /\ pg_int \subseteq Masters
  /\ irq_pc \in {"idle", "clear", "low", "raise"}
  /\ inter_status_reg \subseteq Masters /\ pgint_reg \subseteq Masters
  /\ hw_fails \in BOOLEAN /\ torn \in BOOLEAN
  /\ owed \subseteq Masters /\ late \subseteq Masters

\* While the IOMMU has its clock, the hardware does what the devices were
\* promised: the master of a device that asked for translation is translated
\* by the table of the domain, across any sleep and the coming and going of
\* other devices, unless the initialisation of the hardware has failed, the
\* master is driven by two devices, or another user of the domain has freed it.
TranslatedWhileBound ==
  clocked /\ ~hw_fails /\ domain # "freed" =>
    \A d \in Translated :
      dev_pc[d] = "bound" /\ (\A e \in Devices \ {d} : MasterOf[e] # MasterOf[d]) =>
        hw.enabled /\ hw.ttb /\ MasterOf[d] \notin hw.bypass

\* No fault is cleared without its master being put in reset after it, however
\* many masters fault, at whatever moment of the handler: between two runs of it
\* every master that has not been in reset since its fault still has one in the
\* registers, for which the interrupt comes again.  Only a fault of page walk
\* that comes between the reading and the clearing may go unseen.
FaultsEndInReset == irq_pc # "low" => owed \subseteq int_sta \cup pg_int \cup late

\* When neither the interrupt handler nor sunxi_reset_device_iommu is at work,
\* every master is out of reset, although they write the register that all
\* masters share, also with what they have read before the other's writes.  The
\* one exception: a reset has read the register while another reset, or the
\* handler between its two writes, had another master low, and writes that back.
NotLeftInReset ==
  ~torn /\ LockFree /\ (\A t \in Resetters : reset_pc[t] = "idle") => reset_reg = Masters
=============================================================================
