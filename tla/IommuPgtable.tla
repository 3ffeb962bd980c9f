---------------------------- MODULE IommuPgtable ----------------------------
(***************************************************************************)
(* The two-level page table of the IOMMU (sunxi-iommu-pgtable.c) and the   *)
(* requests that change it (sunxi_iommu_map and sunxi_iommu_unmap of       *)
(* sunxi-iommu-v1.c, called piece by piece by iommu_map and iommu_unmap of *)
(* the kernel, which are external).                                        *)
(*                                                                         *)
(* Addresses are counted in pages of 4 KiB, so that a page number p stands *)
(* for iova >> IOMMU_PT_SHIFT and a frame for phys >> IOMMU_PT_SHIFT.      *)
(* Every step is one directory entry or one second-level table: what the   *)
(* device, which walks the tables without the lock, can see in between     *)
(* (module IommuTlb).  dt_lock admits one driver call at a time, and here  *)
(* one request at a time.  Protection bits are left out.                   *)
(***************************************************************************)
EXTENDS Naturals

CONSTANTS
  Dirs,       \* NUM_ENTRIES_PDE
  Entries,    \* NUM_ENTRIES_PTE
  Tables,     \* the second-level tables that iopte_cache can provide
  NoTable,    \* an invalid directory entry
  NoFrame,    \* an empty table entry
  Wrap,       \* 1 << IOMMU_VA_BITS, in pages
  PhysOffset, \* SUNXI_PHYS_OFFSET, in pages
  PgSizes,    \* pgsize_bitmap, in pages
  Requests,   \* the ranges <<first, past the last>> that clients map and unmap
  Frames,     \* the frames they map them to
  MayFail,    \* TRUE: kmem_cache_zalloc may fail
  Polite      \* TRUE: clients only unmap what is mapped

\* Each page size is a part or a multiple of what one table maps.
ASSUME IommuPgtableAssumption ==
  /\ Dirs \in Nat \ {0} /\ Entries \in Nat \ {0}
  /\ NoTable \notin Tables /\ NoFrame \notin Nat
  /\ PhysOffset \in Nat /\ Wrap \in Nat /\ 0 < PhysOffset /\ PhysOffset <= Wrap
  /\ 1 \in PgSizes
  /\ \A s \in PgSizes : s \in Nat \ {0} /\ (Entries % s = 0 \/ s % Entries = 0)
  /\ \A r \in Requests : /\ r[1] \in Nat /\ r[2] \in Nat
                         /\ r[1] < r[2] /\ r[2] <= Dirs * Entries
  /\ \A r \in Requests, f \in Frames :
       f \in Nat /\ PhysOffset <= f /\ f + (r[2] - r[1]) <= Wrap + PhysOffset
  /\ MayFail \in BOOLEAN /\ Polite \in BOOLEAN

VARIABLES
  pgtable,   \* pgtable[d]: the table that directory entry d points to
  pte,       \* pte[t]: the entries of table t, as the hardware reads them
  slab,      \* the tables that are free in iopte_cache
  kind,      \* "idle", "map" or "unmap": the request under way
  start,     \* its first page
  end,       \* the page after its last one
  paddr,     \* the frame that start is to be mapped to
  pc,        \* where the request is, see Location
  at,        \* the first page of the current driver call
  stop,      \* the page after the last one of the current driver call
  cur,       \* iova_start of the loop in the driver
  lim,       \* where the loop over the driver calls ends
  owned,     \* the pages that clients have mapped and not unmapped, as they
             \* (or the IOVA allocator, for them) keep count
  hole       \* history: an unmap has met a directory entry that is invalid

tables == <<pgtable, pte, slab>>
request == <<kind, start, end, paddr>>
record == <<owned, hole>>
vars == <<tables, request, pc, at, stop, cur, lim, record>>

(***************************************************************************)
(* "map", "unmap": in the kernel's loop over the driver calls.  "l1",      *)
(* "l2": preparing the tables.  "inval": before the invalidation that      *)
(* precedes the deletion, "del": before the deletion of a chunk, "ptw" and *)
(* "ptwlast": before the invalidation that follows it.  "syncmap", "sync": *)
(* before iotlb_sync_map and iotlb_sync.  "freed": the domain is gone.     *)
(***************************************************************************)
Location == {"idle", "map", "l1", "l2", "syncmap",
             "unmap", "inval", "del", "ptw", "ptwlast", "sync", "freed"}

Pages == 0 .. (Dirs * Entries - 1)

Dir(p) == (p \div Entries) % Dirs

Index(p) == p % Entries

\* The end of the part of cur .. stop - 1 that lies in one table.
ChunkEnd == LET e == (cur \div Entries + 1) * Entries
            IN  IF e > stop THEN stop ELSE e

Zeroed == [i \in 0 .. (Entries - 1) |-> NoFrame]

-----------------------------------------------------------------------------
(* Addresses as the CPU and as the IOMMU count them.                       *)

CpuPhyToIommuPhy(f) == IF f > Wrap THEN f - Wrap ELSE f

\* Faulty variant: the boundary itself is not moved back.
IommuPhyToCpuPhyStrict(f) == IF f > 0 /\ f < PhysOffset THEN f + Wrap ELSE f

IommuPhyToCpuPhy(f) == IF f < PhysOffset THEN f + Wrap ELSE f

\* sunxi_mk_pte and the addition of SPAGE_SIZE * i, both in 32 bits: the n-th
\* entry of a run that starts at frame f.
PteFrame(f, n) == (CpuPhyToIommuPhy(f) + n) % Wrap

\* sunxi_pgtable_iova_to_phys, and what a walk of the tables finds.
Lookup(p) == IF pgtable[Dir(p)] = NoTable THEN NoFrame ELSE pte[pgtable[Dir(p)]][Index(p)]

IovaToPhys(p) == IF Lookup(p) = NoFrame THEN NoFrame ELSE IommuPhyToCpuPhy(Lookup(p))

-----------------------------------------------------------------------------
Init == /\ pgtable = [d \in 0 .. (Dirs - 1) |-> NoTable]
        /\ pte = [t \in Tables |-> Zeroed]
        /\ slab = Tables
        /\ kind = "idle" /\ start = 0 /\ end = 0 /\ paddr = 0
        /\ pc = "idle"
        /\ at = 0 /\ stop = 0 /\ cur = 0 /\ lim = 0
        /\ owned = {}
        /\ hole = FALSE

Go(from, to) == pc = from /\ pc' = to

(* iommu_map: one driver call after the other, then iotlb_sync_map.        *)

RequestMap == \E r \in Requests, f \in Frames :
  /\ Go("idle", "map")
  /\ (r[1] .. (r[2] - 1)) \cap owned = {}
  /\ kind' = "map"
  /\ start' = r[1] /\ end' = r[2] /\ paddr' = f
  /\ at' = r[1] /\ lim' = r[2]
  /\ UNCHANGED <<tables, stop, cur, record>>

\* The frame that page p of the request is mapped to.
Image(p) == paddr + (p - start)

\* iommu_pgsize: the largest page size that fits and suits the alignment.
Fitting == {s \in PgSizes : at + s <= lim /\ at % s = 0}

FittingMap == {s \in Fitting : Image(at) % s = 0}

Largest(s, S) == s \in S /\ \A r \in S : r <= s

MapPiece == /\ at < lim
            /\ Go("map", "l1")
            /\ \E s \in PgSizes : /\ Largest(s, FittingMap)
                                  /\ stop' = at + s
            /\ cur' = at
            /\ UNCHANGED <<tables, request, at, lim, record>>

MapDone == /\ at = lim
           /\ Go("map", "syncmap")
           /\ UNCHANGED <<tables, request, at, stop, cur, lim, record>>

\* sunxi_pgtable_prepare_l1_tables: the loop runs to iova_end inclusive, so a
\* piece that ends at a table boundary also prepares the table that follows,
\* which is that of page 0 at the end of the address space.
PrepareL1 ==
  /\ pc = "l1" /\ cur <= stop
  /\ \/ /\ pgtable[Dir(cur)] # NoTable
        /\ UNCHANGED tables
     \/ /\ pgtable[Dir(cur)] = NoTable
        /\ \E t \in slab : /\ pgtable' = [pgtable EXCEPT ![Dir(cur)] = t]
                           /\ pte' = [pte EXCEPT ![t] = Zeroed]
                           /\ slab' = slab \ {t}
  /\ cur' = cur + Entries
  /\ UNCHANGED <<request, pc, at, stop, lim, record>>

\* No memory for a table: the driver leaves what it has prepared, and
\* iommu_map unmaps the pieces before this one.
PrepareL1Fails ==
  /\ cur <= stop
  /\ pgtable[Dir(cur)] = NoTable
  /\ MayFail \/ slab = {}
  /\ Go("l1", "unmap")
  /\ lim' = at
  /\ at' = start
  /\ UNCHANGED <<tables, request, stop, cur, record>>

\* Faulty variant: the tables of the last chunk are not prepared.
PrepareL1DoneEarly ==
  /\ cur + Entries > stop
  /\ Go("l1", "l2")
  /\ cur' = at
  /\ UNCHANGED <<tables, request, at, stop, lim, record>>

PrepareL1Done == /\ cur > stop
                 /\ Go("l1", "l2")
                 /\ cur' = at
                 /\ UNCHANGED <<tables, request, at, stop, lim, record>>

\* The table entries of the chunk of cur.
Chunk == {i \in 0 .. (Entries - 1) : Index(cur) <= i /\ i < Index(cur) + (ChunkEnd - cur)}

PrepareL2 ==
  /\ pc = "l2" /\ cur < stop
  /\ LET t == pgtable[Dir(cur)]
     IN  pte' = [pte EXCEPT ![t] = [i \in 0 .. (Entries - 1) |->
           IF i \in Chunk THEN PteFrame(Image(at), cur - at + i - Index(cur))
                          ELSE pte[t][i]]]
  /\ cur' = ChunkEnd
  /\ UNCHANGED <<pgtable, slab, request, pc, at, stop, lim, record>>

PrepareL2Done == /\ cur = stop
                 /\ Go("l2", "map")
                 /\ at' = stop
                 /\ UNCHANGED <<tables, request, stop, cur, lim, record>>

SyncMap == /\ Go("syncmap", "idle")
           /\ kind' = "idle"
           /\ owned' = owned \cup (start .. (end - 1))
           /\ UNCHANGED <<tables, start, end, paddr, at, stop, cur, lim, hole>>

-----------------------------------------------------------------------------
(* iommu_unmap: one driver call after the other, then iotlb_sync.          *)

RequestUnmap == \E r \in Requests :
  /\ Go("idle", "unmap")
  /\ Polite => r[1] .. (r[2] - 1) \subseteq owned
  /\ kind' = "unmap"
  /\ start' = r[1] /\ end' = r[2]
  /\ at' = r[1] /\ lim' = r[2]
  /\ UNCHANGED <<tables, paddr, stop, cur, record>>

UnmapPiece == /\ at < lim
              /\ Go("unmap", "inval")
              /\ \E s \in PgSizes : /\ Largest(s, Fitting)
                                    /\ stop' = at + s
              /\ cur' = at
              /\ UNCHANGED <<tables, request, at, lim, record>>

UnmapDone == /\ at = lim
             /\ Go("unmap", "sync")
             /\ UNCHANGED <<tables, request, at, stop, cur, lim, record>>

Invalidate == /\ Go("inval", "del")
              /\ UNCHANGED <<tables, request, at, stop, cur, lim, record>>

\* Faulty variant: one entry too few.
ClearedButLast(t) ==
  [i \in 0 .. (Entries - 1) |-> IF i \in Chunk /\ i + 1 \in Chunk THEN NoFrame ELSE pte[t][i]]

Cleared(t) == [i \in 0 .. (Entries - 1) |-> IF i \in Chunk THEN NoFrame ELSE pte[t][i]]

WholeTable == ChunkEnd - cur = Entries

\* Faulty variants: a table is freed and stays in the directory, or is freed
\* without being cleared.
DeleteL2KeepsDent ==
  /\ pc = "del" /\ cur < stop
  /\ LET t == pgtable[Dir(cur)]
     IN  /\ t # NoTable
         /\ pte' = [pte EXCEPT ![t] = Cleared(t)]
         /\ slab' = IF WholeTable THEN slab \cup {t} ELSE slab
  /\ pc' = "ptw"
  /\ UNCHANGED <<pgtable, request, at, stop, cur, lim, record>>

DeleteL2KeepsEntries ==
  /\ pc = "del" /\ cur < stop
  /\ LET t == pgtable[Dir(cur)]
     IN  /\ t # NoTable
         /\ pte' = [pte EXCEPT ![t] = IF WholeTable THEN @ ELSE Cleared(t)]
         /\ IF WholeTable
            THEN /\ pgtable' = [pgtable EXCEPT ![Dir(cur)] = NoTable]
                 /\ slab' = slab \cup {t}
            ELSE UNCHANGED <<pgtable, slab>>
  /\ pc' = "ptw"
  /\ UNCHANGED <<request, at, stop, cur, lim, record>>

\* sunxi_pgtable_delete_l2_tables: the entries of one chunk are cleared, and
\* the table is freed if the chunk was all of it.
DeleteL2 ==
  /\ pc = "del" /\ cur < stop
  /\ LET t == pgtable[Dir(cur)]
     IN  /\ t # NoTable
         /\ pte' = [pte EXCEPT ![t] = Cleared(t)]
         /\ IF WholeTable
            THEN /\ pgtable' = [pgtable EXCEPT ![Dir(cur)] = NoTable]
                 /\ slab' = slab \cup {t}
            ELSE UNCHANGED <<pgtable, slab>>
  /\ pc' = "ptw"
  /\ UNCHANGED <<request, at, stop, cur, lim, record>>

\* -EINVAL: as an unsigned size it ends the loop of sunxi_iommu_unmap.
DeleteL2Fails == /\ cur < stop
                 /\ pgtable[Dir(cur)] = NoTable
                 /\ Go("del", "ptwlast")
                 /\ hole' = TRUE
                 /\ UNCHANGED <<tables, request, at, stop, cur, lim, owned>>

\* Faulty variant: iova_start does not move on.
InvalidatePtwStays == /\ Go("ptw", "del")
                      /\ UNCHANGED <<tables, request, at, stop, cur, lim, record>>

InvalidatePtw == /\ Go("ptw", "del")
                 /\ cur' = ChunkEnd
                 /\ UNCHANGED <<tables, request, at, stop, lim, record>>

InvalidatePtwLast == /\ Go("ptwlast", "del")
                     /\ cur' = stop
                     /\ UNCHANGED <<tables, request, at, stop, lim, record>>

DeleteL2Done == /\ cur = stop
                /\ Go("del", "unmap")
                /\ at' = stop
                /\ UNCHANGED <<tables, request, stop, cur, lim, record>>

Sync == /\ Go("sync", "idle")
        /\ kind' = "idle"
        /\ owned' = owned \ (start .. (end - 1))
        /\ UNCHANGED <<tables, start, end, paddr, at, stop, cur, lim, hole>>

-----------------------------------------------------------------------------
\* sunxi_iommu_domain_free: under dt_lock sunxi_pgtable_clear empties every table
\* and gives it back.  Whoever frees the domain has stopped its devices, and
\* what its clients had mapped is gone with it.
DomainFree ==
  /\ Go("idle", "freed")
  /\ pgtable' = [d \in DOMAIN pgtable |-> NoTable]
  /\ pte' = [t \in Tables |-> IF \E d \in DOMAIN pgtable : pgtable[d] = t
                              THEN Zeroed ELSE pte[t]]
  /\ slab' = slab \cup {pgtable[d] : d \in {e \in DOMAIN pgtable : pgtable[e] # NoTable}}
  /\ owned' = {}
  /\ UNCHANGED <<request, at, stop, cur, lim, hole>>

-----------------------------------------------------------------------------
MapStep == MapPiece \/ PrepareL1 \/ PrepareL1Fails \/ PrepareL1Done
           \/ PrepareL2 \/ PrepareL2Done \/ MapDone \/ SyncMap

UnmapStep == UnmapPiece \/ Invalidate \/ DeleteL2 \/ DeleteL2Fails \/ InvalidatePtw
             \/ InvalidatePtwLast \/ DeleteL2Done \/ UnmapDone \/ Sync

Next == RequestMap \/ RequestUnmap \/ DomainFree \/ MapStep \/ UnmapStep

Spec == Init /\ [][Next]_vars

\* The thread that holds dt_lock, or loops in the kernel, keeps running.
FairSpec == Spec /\ WF_vars(MapStep \/ UnmapStep)

-----------------------------------------------------------------------------
(* Properties.                                                             *)

\* Every variable stays in its range; an entry fits its 32 bits.
TypeOK == /\ pgtable \in [0 .. (Dirs - 1) -> Tables \cup {NoTable}]
          /\ pte \in [Tables -> [0 .. (Entries - 1) -> (0 .. (Wrap - 1)) \cup {NoFrame}]]
          /\ slab \in SUBSET Tables
          /\ kind \in {"idle", "map", "unmap"}
          /\ pc \in Location
          /\ {start, end, paddr, at, stop, cur, lim} \subseteq Nat
          /\ owned \in SUBSET Pages
          /\ hole \in BOOLEAN

\* Every table is either free or in exactly one directory entry: none is
\* lost by a failed map or a partial unmap, and none serves two ranges.
TablesOwned ==
  /\ \A t \in Tables : t \in slab <=> \A d \in DOMAIN pgtable : pgtable[d] # t
  /\ \A d, e \in DOMAIN pgtable : pgtable[d] = pgtable[e] => d = e \/ pgtable[d] = NoTable

\* A table is only given back when nothing is mapped through it, whatever
\* was unmapped before and in which pieces.
FreeTablesEmpty == \A t \in slab : pte[t] = Zeroed

\* sunxi_pgtable_prepare_l2_tables writes through directory entries without
\* looking at them: the loop before it has made all it needs valid.
L2Ready ==
  pc = "l2" => \A p \in Pages : at <= p /\ p < stop => pgtable[Dir(p)] # NoTable

\* WARN_ON(*pent): an entry that is written was empty, so no mapping that is
\* in use is ever replaced, even after failed and partial requests.  An unmap
\* that meets a hole ends this: what lies after the hole stays mapped.
NoOverwrite ==
  [][PrepareL2 /\ ~hole => \A i \in Chunk : pte[pgtable[Dir(cur)]][i] = NoFrame]_vars

\* Every request returns, also when memory runs out in the middle of it.
RequestEnds == kind # "idle" ~> kind = "idle"

\* What iova_to_phys answers is an address space in which requests are
\* all-or-nothing and leave every other page alone, until an unmap meets a
\* hole and returns with some of its range still mapped.
AddressSpace == INSTANCE IommuAddressSpace
                  WITH space <- [p \in Pages |-> IovaToPhys(p)]

ImplementsAddressSpace ==
  AddressSpace!Init /\ [][AddressSpace!Next \/ hole']_(AddressSpace!vars)
=============================================================================
