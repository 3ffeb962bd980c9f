------------------------------ MODULE IommuTlb ------------------------------
(***************************************************************************)
(* The translation caches of the IOMMU beside the page table of module     *)
(* IommuPgtable: the TLB holds table entries, the PTW cache holds          *)
(* directory entries, and the device fills both by walking the tables at   *)
(* any time, without dt_lock.  The driver invalidates them in an order     *)
(* that depends on the version of the hardware (sunxi-iommu-v1.c).         *)
(*                                                                         *)
(* The register accesses of one invalidation are one step.                 *)
(***************************************************************************)
EXTENDS IommuPgtable

CONSTANT
  Platforms  \* the rows of sunxi_iommu_dt_ids under check: version is 10 to 15
             \* for IOMMU_VERSION_V10 to V15; prefetch is TRUE if tlb_prefetch
             \* lets the hardware fetch pages that no master has asked for

ASSUME IommuTlbAssumption == Platforms \subseteq [version : 10 .. 15, prefetch : BOOLEAN]

VARIABLES
  tlb,       \* tlb[p]: the cached entry of page p
  ptw,       \* ptw[d]: the cached directory entry d
  plat_data  \* the platform that was probed

caches == <<tlb, ptw>>
cacheVars == <<caches, plat_data>>
tlbVars == <<vars, cacheVars>>

Version == plat_data.version

Prefetch == plat_data.prefetch

TlbInit == /\ Init
           /\ tlb = [p \in Pages |-> NoFrame]
           /\ ptw = [d \in 0 .. (Dirs - 1) |-> NoTable]
           /\ plat_data \in Platforms

-----------------------------------------------------------------------------
(* The device.                                                             *)

\* The entry that a walk finds; an invalid entry is not cached.
Walked(p) == LET t == IF ptw[Dir(p)] # NoTable THEN ptw[Dir(p)] ELSE pgtable[Dir(p)]
             IN  IF t = NoTable THEN NoFrame ELSE pte[t][Index(p)]

\* A client stops its device before it unmaps a buffer.
InUse == owned \ (IF kind = "unmap" THEN start .. (end - 1) ELSE {})

Walk(p) ==
  /\ Prefetch \/ p \in InUse
  /\ tlb[p] = NoFrame
  /\ tlb' = [tlb EXCEPT ![p] = Walked(p)]
  /\ ptw' = [ptw EXCEPT ![Dir(p)] = IF @ # NoTable THEN @ ELSE pgtable[Dir(p)]]
  /\ UNCHANGED <<vars, plat_data>>

\* The caches make room as they like.
Evict == /\ \/ \E p \in Pages : tlb' = [tlb EXCEPT ![p] = NoFrame] /\ UNCHANGED ptw
            \/ \E d \in DOMAIN ptw : ptw' = [ptw EXCEPT ![d] = NoTable] /\ UNCHANGED tlb
         /\ UNCHANGED <<vars, plat_data>>

-----------------------------------------------------------------------------
(* sunxi_tlb_invalid and sunxi_ptw_cache_invalid.                          *)

TlbWithout(S) == [p \in Pages |-> IF p \in S THEN NoFrame ELSE tlb[p]]

PtwWithout(S) == [d \in DOMAIN ptw |-> IF \E p \in S : Dir(p) = d THEN NoTable ELSE ptw[d]]

\* sunxi_zap_tlb for the pages a .. b - 1.  Up to V11 a page at a time, later
\* a range of pages; up to V13 one directory entry at a time.
ZapTlb(a, b) ==
  IF Version <= 11 THEN /\ tlb' = TlbWithout({a, a + 1, b, b + 1})
                        /\ ptw' = PtwWithout({a, a + Entries, b, b + Entries})
  ELSE /\ tlb' = TlbWithout({p \in Pages : (a <= p /\ p < a + 2) \/ (b <= p + 1 /\ p < b + 8)})
       /\ IF Version <= 13
          THEN ptw' = PtwWithout({a, a + Entries, b, b + Entries, b + 2 * Entries})
          ELSE ptw' = PtwWithout({p \in Pages : \/ a <= p /\ p < a + Entries
                                                \/ b <= p + Entries /\ p < b})

Piece == {p \in Pages : at <= p /\ p < stop}

\* Faulty variant: nothing is invalidated before the deletion.
TlbInvalidateNothing == Invalidate /\ UNCHANGED cacheVars

\* Before the deletion: the TLB from V12 on, the PTW cache from V14 on.
TlbInvalidate ==
  /\ Invalidate
  /\ tlb' = IF Version >= 12 THEN TlbWithout(Piece) ELSE tlb
  /\ ptw' = IF Version >= 14 THEN PtwWithout(Piece) ELSE ptw
  /\ UNCHANGED plat_data

\* Faulty variant: the PTW cache is not invalidated after the deletion.
TlbInvalidatePtwNothing ==
  /\ InvalidatePtw \/ InvalidatePtwLast
  /\ UNCHANGED cacheVars

\* After the deletion of a chunk: the PTW cache up to V13.
TlbInvalidatePtw ==
  /\ InvalidatePtw \/ InvalidatePtwLast
  /\ ptw' = IF Version < 14 THEN PtwWithout({cur}) ELSE ptw
  /\ UNCHANGED <<tlb, plat_data>>

TlbSyncMap == SyncMap /\ ZapTlb(start, end) /\ UNCHANGED plat_data

\* sunxi_iommu_iotlb_sync: gather spans what was unmapped.
TlbSync == /\ Sync
           /\ IF Version >= 14 \/ lim = start THEN UNCHANGED caches
                                              ELSE ZapTlb(start, lim)
           /\ UNCHANGED plat_data

\* sunxi_tlb_flush empties both caches: when the domain is freed, before dt_lock
\* is released, and whenever sunxi_iommu_hw_init runs.
Flushed == tlb' = TlbWithout(Pages) /\ ptw' = PtwWithout(Pages)

TlbDomainFree == DomainFree /\ Flushed /\ UNCHANGED plat_data

TlbHwInit == Flushed /\ UNCHANGED <<vars, plat_data>>

\* sunxi_iommu_irq invalidates what is cached near the page a of a fault.
TlbIrq(a) ==
  /\ tlb' = IF Version <= 11 THEN TlbWithout({a, a + 2})
                             ELSE TlbWithout({p \in Pages : a <= p /\ p < a + 4})
  /\ ptw' = IF Version <= 13
            THEN PtwWithout({a, a + 2 * Entries})
            ELSE PtwWithout({p \in Pages : a <= p /\ p < a + 2 * Entries})
  /\ UNCHANGED <<vars, plat_data>>

\* The steps that do not touch the caches.
TableStep ==
  /\ \/ RequestMap \/ MapPiece \/ PrepareL1 \/ PrepareL1Fails \/ PrepareL1Done
     \/ PrepareL2 \/ PrepareL2Done \/ MapDone
     \/ RequestUnmap \/ UnmapPiece \/ DeleteL2 \/ DeleteL2Fails
     \/ DeleteL2Done \/ UnmapDone
  /\ UNCHANGED cacheVars

TlbNext == \/ TableStep \/ TlbInvalidate \/ TlbInvalidatePtw \/ TlbSyncMap \/ TlbSync
           \/ TlbDomainFree \/ TlbHwInit \/ Evict
           \/ \E p \in Pages : Walk(p) \/ TlbIrq(p)

TlbSpec == TlbInit /\ [][TlbNext]_tlbVars

-----------------------------------------------------------------------------
(* Properties.                                                             *)

\* What an access of the device to page p is translated to.
DeviceSees(p) == IF tlb[p] # NoFrame THEN tlb[p] ELSE Walked(p)

\* The device reaches the memory that its client has mapped, at any moment of
\* the mapping and unmapping of other ranges: neither cache gives it an entry
\* of an earlier mapping, nor one of a table that was freed and used again.
TranslationCorrect ==
  \A p \in InUse : DeviceSees(p) = Lookup(p) /\ Lookup(p) # NoFrame

\* When an unmap request has returned, no access reaches what was unmapped:
\* its pages may be given to someone else ("If we missed a TLB invalidate at
\* that point this should explode", sunxi-iommu-debug.c:251).
UnmapRevokes ==
  kind = "idle" => \A p \in Pages \ owned : DeviceSees(p) = NoFrame

\* Between requests the PTW cache leads to no table but those of the
\* directory, so no walk reads memory that iopte_cache may hand out again.
NoFreedTable ==
  kind = "idle" => \A d \in DOMAIN ptw : ptw[d] \in {NoTable, pgtable[d]}
=============================================================================
