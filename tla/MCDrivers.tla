------------------------------ MODULE MCDrivers ------------------------------
(***************************************************************************)
(* Instances of VeLifecycle and IommuDevice for TLC: the two drivers around *)
(* what their clients do.  They share no variable, so a behaviour concerns  *)
(* one of them, chosen at the beginning.                                    *)
(***************************************************************************)
EXTENDS VeLifecycle, IommuDevice, TLC

CONSTANTS d1, d2, d3, r1, r2, MaxTogether

VARIABLE driver   \* "ve" or "iommu"

\* Two devices drive one master.
MCMasterOf == [d \in Devices |-> IF d = d1 THEN 0 ELSE 1]

MCSymmetry == Permutations({r1, r2})

DriversInit == LifeInit /\ DeviceInit /\ driver \in {"ve", "iommu"}

\* How many devices, resets and runs of the interrupt handler there are at once:
\* at most MaxTogether.
Together == Cardinality({d \in Devices : dev_pc[d] # "off"})
            + Cardinality({t \in Resetters : reset_pc[t] # "idle"})
            + IF irq_pc = "idle" THEN 0 ELSE 1

DriversNext ==
  /\ \/ driver = "ve" /\ LifeNext /\ UNCHANGED iommuVars
     \/ driver = "iommu" /\ DeviceNext /\ UNCHANGED lifeVars
        /\ Together' <= MaxTogether
  /\ UNCHANGED driver

DriversSpec == DriversInit /\ [][DriversNext]_<<lifeVars, iommuVars, driver>>
=============================================================================
