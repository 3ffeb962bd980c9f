---------------------------- MODULE IommuTlbProofs ----------------------------
(***************************************************************************)
(* Theorems about IommuTlb, for tables of any size, any requests and any    *)
(* walks of the device, on platforms like that of the H616/H618: a version  *)
(* that invalidates ranges, and no prefetching.                             *)
(***************************************************************************)
EXTENDS IommuTlb, IommuPgtableProofs

\* Clients unmap what they have mapped, and the hardware is V12 or later with
\* tlb_prefetch off.
Supported == Polite /\ \A x \in Platforms : ~x.prefetch /\ x.version >= 12

\* The requests are as in IommuPgtable; the caches only watch.
LEMMA TablesAlike == [TlbNext]_tlbVars => [Next]_vars
BY DEF TlbNext, tlbVars, TableStep, TlbInvalidate, TlbInvalidatePtw, TlbSyncMap, TlbSync,
       TlbDomainFree, TlbHwInit, TlbIrq, Evict, Walk, Next, MapStep, UnmapStep

-----------------------------------------------------------------------------
(* Clients that unmap what they have mapped meet no hole.                   *)

NoHole == ~hole /\ (kind = "unmap" => \A p \in Nat : start <= p /\ p < end => p \in owned)

LEMMA NoHoleStep == Polite /\ Books /\ NoHole /\ [Next]_vars => NoHole'
<1> SUFFICES ASSUME Polite, Books, NoHole, [Next]_vars PROVE NoHole'
  OBVIOUS
<1>1. Context /\ Accounted /\ Extent /\ Typed /\ Prepared /\ ~hole
  BY DEF Books, Context, NoHole
<1>2. /\ start \in Nat /\ end \in Nat /\ at \in Nat /\ cur \in Nat /\ stop \in Nat
      /\ lim \in Nat /\ start <= at /\ kind \in {"idle", "map", "unmap"}
      /\ pc \in {"l2", "del"} => stop <= Dirs * Entries
  BY <1>1, Ranges DEF Typed, TypeOK
<1>3. ~DeleteL2Fails
  <2> SUFFICES ASSUME DeleteL2Fails PROVE FALSE
    OBVIOUS
  <2>1. /\ pc = "del" /\ cur < stop /\ pgtable[Dir(cur)] = NoTable
        /\ at <= cur /\ stop <= lim /\ lim <= end /\ kind # "idle"
    BY <1>1 DEF DeleteL2Fails, Go, Extent, Deleting
  <2>2. cur \in Pages
    <3> DEFINE n == Dirs * Entries
    <3>1. n \in Nat /\ cur < n
      BY <1>2, <2>1, Numbers
    <3> HIDE DEF n
    <3> QED BY <1>2, <3>1 DEF Pages, n
  <2>3. Held(cur)
    <3>1. CASE kind = "unmap"
      BY <1>2, <2>1, <3>1 DEF Held, Front, NoHole
    <3>2. CASE kind = "map"
      BY <1>2, <2>1, <3>2 DEF Held, Front, Preparing
    <3> QED BY <1>2, <2>1, <3>1, <3>2
  <2>4. Lookup(cur) # NoFrame
    BY <1>1, <2>2, <2>3 DEF Accounted
  <2> QED BY <2>1, <2>4 DEF Lookup
<1>a. CASE RequestUnmap
  <2>1. PICK r \in Requests : RequestUnmap!(r)
    BY <1>a DEF RequestUnmap
  <2>2. r[1] \in Nat /\ r[2] \in Nat
    BY IommuPgtableAssumption
  <2> QED BY <1>1, <2>1, <2>2 DEF NoHole, record
<1>b. CASE RequestMap
  BY <1>1, <1>b DEF RequestMap, NoHole, record
<1>c. CASE SyncMap \/ Sync
  BY <1>1, <1>c DEF SyncMap, Sync, NoHole
<1>d. CASE MapPiece \/ MapDone \/ PrepareL1 \/ PrepareL1Fails \/ PrepareL1Done
           \/ PrepareL2 \/ PrepareL2Done
  BY <1>1, <1>d DEF MapPiece, MapDone, PrepareL1, PrepareL1Fails, PrepareL1Done,
                    PrepareL2, PrepareL2Done, request, record, NoHole
<1>e. CASE UnmapPiece \/ UnmapDone \/ Invalidate \/ DeleteL2 \/ InvalidatePtw
           \/ InvalidatePtwLast \/ DeleteL2Done \/ UNCHANGED vars
  BY <1>1, <1>e DEF UnmapPiece, UnmapDone, Invalidate, DeleteL2, InvalidatePtw,
                    InvalidatePtwLast, DeleteL2Done, request, record, vars, NoHole
<1>f. CASE DomainFree
  <2>1. kind = "idle" /\ kind' = kind /\ hole' = hole
    BY <1>1, <1>f DEF DomainFree, Go, Extent, request
  <2> QED BY <1>1, <2>1 DEF NoHole
<1> QED BY <1>3, <1>a, <1>b, <1>c, <1>d, <1>e, <1>f DEF Next, MapStep, UnmapStep

\* A page whose device may be running is mapped, and no deletion is near it.
LEMMA UsedIsMapped ==
  ASSUME Books, NoHole, NEW p \in Pages, p \in InUse
  PROVE  /\ Lookup(p) # NoFrame
         /\ pc \in Deleting => p \notin Piece
<1>1. Context /\ Accounted /\ Extent /\ Typed /\ ~hole
  BY DEF Books, Context, NoHole
<1>2. /\ start \in Nat /\ end \in Nat /\ at \in Nat /\ cur \in Nat /\ stop \in Nat
      /\ lim \in Nat /\ start <= at /\ kind \in {"idle", "map", "unmap"} /\ p \in Nat
      /\ ChunkEnd \in Nat /\ (cur < stop => ChunkEnd <= stop)
  BY <1>1, Ranges DEF Typed, TypeOK
<1>3. p \in owned /\ (kind = "unmap" => ~(start <= p /\ p < end))
  BY <1>2 DEF InUse
<1>4. Front \in Nat /\ (kind = "unmap" => Front <= end)
  BY <1>1, <1>2 DEF Front, Extent, Deleting, Preparing
<1>5. Held(p)
  BY <1>2, <1>3, <1>4 DEF Held
<1>6. pc \in Deleting => stop <= end /\ kind # "idle"
  BY <1>1, <1>2 DEF Extent, Deleting
<1>7. kind = "map" => ~(start <= p /\ p < end)
  BY <1>1, <1>3 DEF Extent
<1> QED BY <1>1, <1>2, <1>3, <1>5, <1>6, <1>7 DEF Accounted, Piece
-----------------------------------------------------------------------------
(* The caches agree with the tables.                                        *)

Dents == 0 .. (Dirs - 1)

CacheTyped == /\ tlb \in [Pages -> Entry]
              /\ ptw \in [Dents -> Tables \cup {NoTable}]
              /\ ~Prefetch /\ Version \in Nat /\ Version >= 12

\* The TLB has the entries of the tables, and none that is about to be deleted.
TlbOk == \A p \in Pages : /\ tlb[p] \in {NoFrame, Lookup(p)}
                          /\ pc \in {"del", "ptw"} /\ p \in Piece => tlb[p] = NoFrame

\* All pages of directory entry d are about to be unmapped.
Whole(d) == \A p \in Pages : Dir(p) = d => p \in Piece

\* The page-walk cache has the entries of the directory.  Up to V13 it may have
\* the one of a table that was freed, until the invalidation that follows; from
\* V14 on such an entry is gone before.
PtwOk == \A d \in Dents :
  /\ \/ ptw[d] \in {NoTable, pgtable[d]}
     \/ pc = "ptw" /\ Version < 14 /\ d = Dir(cur) /\ pgtable[d] = NoTable
  /\ pc \in {"del", "ptw"} /\ Version >= 14 /\ Whole(d) => ptw[d] = NoTable

\* An invalidation takes entries out of the caches.
Shrunk == /\ tlb' \in [Pages -> Entry] /\ ptw' \in [Dents -> Tables \cup {NoTable}]
          /\ \A p \in Pages : tlb'[p] \in {NoFrame, tlb[p]}
          /\ \A d \in Dents : ptw'[d] \in {NoTable, ptw[d]}

LEMMA Without ==
  ASSUME CacheTyped, NEW S
  PROVE  /\ TlbWithout(S) \in [Pages -> Entry]
         /\ PtwWithout(S) \in [Dents -> Tables \cup {NoTable}]
         /\ \A p \in Pages : TlbWithout(S)[p] = IF p \in S THEN NoFrame ELSE tlb[p]
         /\ \A d \in Dents : PtwWithout(S)[d] = IF \E p \in S : Dir(p) = d THEN NoTable
                                                                      ELSE ptw[d]
<1>1. DOMAIN ptw = Dents
  BY DEF CacheTyped
<1> QED BY <1>1 DEF CacheTyped, TlbWithout, PtwWithout, Entry

\* The steps that invalidate, or make room, while the tables stay.
Shrinks == TlbInvalidate \/ TlbInvalidatePtw \/ TlbSyncMap \/ TlbSync \/ TlbHwInit
           \/ Evict \/ \E a \in Pages : TlbIrq(a)

LEMMA ShrinksShrink == ASSUME CacheTyped, Shrinks PROVE Shrunk /\ UNCHANGED plat_data
<1>1. CASE UNCHANGED caches
  BY <1>1 DEF caches, CacheTyped, Shrunk, Shrinks, TlbInvalidate, TlbInvalidatePtw,
              TlbSyncMap, TlbSync, TlbHwInit, TlbIrq, Evict
<1>2. ASSUME NEW a, NEW b, ZapTlb(a, b) PROVE Shrunk
  <2>1. PICK S, T : tlb' = TlbWithout(S) /\ ptw' = PtwWithout(T)
    BY <1>2, Zenon DEF ZapTlb
  <2> QED BY <2>1, Without DEF Shrunk
<1>3. CASE TlbInvalidate
  <2>1. /\ tlb' = TlbWithout(Piece) \/ tlb' = tlb
        /\ ptw' = PtwWithout(Piece) \/ ptw' = ptw
        /\ UNCHANGED plat_data
    BY <1>3 DEF TlbInvalidate
  <2> QED BY <2>1, Without DEF Shrunk, CacheTyped
<1>4. CASE TlbInvalidatePtw
  <2>1. /\ tlb' = tlb
        /\ ptw' = PtwWithout({cur}) \/ ptw' = ptw
        /\ UNCHANGED plat_data
    BY <1>4 DEF TlbInvalidatePtw
  <2> QED BY <2>1, Without DEF Shrunk, CacheTyped
<1>5. CASE TlbSyncMap \/ TlbSync
  BY <1>1, <1>2, <1>5 DEF TlbSyncMap, TlbSync
<1>6. CASE Evict
  BY <1>6 DEF Evict, CacheTyped, Shrunk, Entry
<1>7. CASE TlbHwInit
  BY <1>7, Without DEF TlbHwInit, Flushed, Shrunk
<1>8. CASE \E a \in Pages : TlbIrq(a)
  <2>1. PICK a \in Pages : TlbIrq(a)
    BY <1>8
  <2>2. PICK S, T : tlb' = TlbWithout(S) /\ ptw' = PtwWithout(T)
    BY <2>1, Zenon DEF TlbIrq
  <2> QED BY <2>1, <2>2, Without DEF Shrunk, TlbIrq
<1> QED BY <1>3, <1>4, <1>5, <1>6, <1>7, <1>8 DEF Shrinks

\* A walk for a page in use finds what the tables have.
LEMMA WalkFinds ==
  ASSUME Books, NoHole, PtwOk, NEW p \in Pages, p \in InUse
  PROVE  Walked(p) = Lookup(p) /\ Dir(p) \in Dents /\ pgtable[Dir(p)] # NoTable
<1>1. Lookup(p) # NoFrame
  BY UsedIsMapped
<1>2. pgtable[Dir(p)] # NoTable
  BY <1>1 DEF Lookup
<1>3. Dir(p) \in Dents
  <2>1. p \in Nat
    BY Numbers DEF Pages
  <2> QED BY <2>1, DirInTable DEF Dents
<1>4. ptw[Dir(p)] \in {NoTable, pgtable[Dir(p)]}
  BY <1>2, <1>3 DEF PtwOk
<1> QED BY <1>2, <1>3, <1>4 DEF Walked, Lookup

Caches == CacheTyped /\ TlbOk /\ PtwOk

LEMMA CachesInit == Supported /\ TlbInit => Caches
<1> SUFFICES ASSUME Supported, TlbInit PROVE Caches
  OBVIOUS
<1>1. plat_data \in [version : 10 .. 15, prefetch : BOOLEAN]
      /\ ~plat_data.prefetch /\ plat_data.version >= 12
  BY IommuTlbAssumption DEF Supported, TlbInit
<1>2. CacheTyped
  <2>1. Version \in Nat /\ Version >= 12 /\ ~Prefetch
    BY <1>1 DEF Version, Prefetch
  <2> QED BY <2>1 DEF TlbInit, CacheTyped, Entry, Dents
<1>3. TlbOk /\ PtwOk
  BY DEF TlbInit, Init, TlbOk, PtwOk, Dents
<1> QED BY <1>2, <1>3 DEF Caches

\* The device walks.
LEMMA CachesWalk ==
  ASSUME Books, NoHole, Caches, NEW p \in Pages, Walk(p)
  PROVE  Caches'
<1>1. CacheTyped /\ TlbOk /\ PtwOk /\ Typed
  BY DEF Caches, Books, Context
<1>2. p \in InUse
  BY <1>1 DEF Walk, CacheTyped
<1>3. Walked(p) = Lookup(p) /\ Dir(p) \in Dents /\ pgtable[Dir(p)] # NoTable
  BY <1>1, <1>2, WalkFinds
<1>4. /\ UNCHANGED vars /\ plat_data' = plat_data
      /\ tlb' = [tlb EXCEPT ![p] = Walked(p)]
      /\ ptw' = [ptw EXCEPT ![Dir(p)] = IF @ # NoTable THEN @ ELSE pgtable[Dir(p)]]
  BY DEF Walk
<1>5. /\ pgtable' = pgtable /\ pte' = pte /\ pc' = pc /\ cur' = cur /\ Piece' = Piece
  BY <1>4 DEF vars, tables, Piece, Pages
<1>6. Lookup(p) \in Entry /\ pgtable[Dir(p)] \in Tables
  <2>1. p \in Nat
    BY Numbers DEF Pages
  <2>2. Index(p) \in 0 .. (Entries - 1) /\ Dir(p) \in 0 .. (Dirs - 1)
    BY <2>1, DirInTable
  <2> QED BY <1>1, <1>3, <2>2 DEF Typed, TypeOK, Lookup, Entry
<1>7. CacheTyped'
  BY <1>1, <1>3, <1>4, <1>6 DEF CacheTyped, Version, Prefetch, Pages, Entry, Dents
<1>8. pc \in {"del", "ptw"} => p \notin Piece
  BY <1>2, UsedIsMapped DEF Deleting
<1>9. TlbOk'
  <2> SUFFICES ASSUME NEW q \in Pages
               PROVE  /\ tlb'[q] \in {NoFrame, Lookup(q)'}
                      /\ pc' \in {"del", "ptw"} /\ q \in Piece' => tlb'[q] = NoFrame
    BY DEF TlbOk, Pages
  <2>1. Lookup(q)' = Lookup(q)
    BY <1>5 DEF Lookup, Dir, Index
  <2>2. tlb'[q] = IF q = p THEN Lookup(p) ELSE tlb[q]
    BY <1>1, <1>3, <1>4 DEF CacheTyped
  <2> QED BY <1>1, <1>5, <1>8, <2>1, <2>2 DEF TlbOk
<1>10. PtwOk'
  <2> SUFFICES ASSUME NEW d \in Dents
               PROVE  /\ \/ ptw'[d] \in {NoTable, pgtable[d]}
                         \/ /\ pc = "ptw" /\ Version < 14 /\ d = Dir(cur)
                            /\ pgtable[d] = NoTable
                      /\ pc \in {"del", "ptw"} /\ Version >= 14 /\ Whole(d)
                           => ptw'[d] = NoTable
    BY <1>4, <1>5 DEF PtwOk, Dents, Version, Dir, Whole, Pages
  <2>1. ptw'[d] = IF d = Dir(p) /\ ptw[d] = NoTable THEN pgtable[d] ELSE ptw[d]
    BY <1>1, <1>3, <1>4 DEF CacheTyped
  <2>2. pc \in {"del", "ptw"} /\ Whole(d) => d # Dir(p)
    BY <1>8 DEF Whole
  <2> QED BY <1>1, <2>1, <2>2 DEF PtwOk
<1> QED BY <1>7, <1>9, <1>10 DEF Caches

\* Each directory entry serves some page.
LEMMA PageOf == ASSUME NEW d \in Dents PROVE \E p \in Pages : Dir(p) = d
<1> DEFINE p == d * Entries  n == Dirs * Entries
<1>1. d \in Nat /\ d < Dirs
  BY Numbers DEF Dents
<1>2. p \in Nat /\ n \in Nat /\ p < n
  BY <1>1, Numbers, SMT
<1>3. p \div Entries = d
  BY <1>1, Numbers, SMT
<1> HIDE DEF p, n
<1>4. p \in Pages
  BY <1>2 DEF Pages, n
<1>5. Dir(p) = d
  BY <1>2, <1>3, PageDir DEF n
<1> QED BY <1>4, <1>5

\* The steps that invalidate.  The one before a deletion empties the TLB of the
\* pages and, from V14 on, the page-walk cache of their tables; the one after
\* it empties the page-walk cache up to V13.
LEMMA CachesShrink ==
  ASSUME Books, NoHole, Caches, [Next]_vars, Shrinks
  PROVE  Caches'
<1>1. CacheTyped /\ TlbOk /\ PtwOk /\ Typed /\ Extent /\ ~hole /\ cur \in Nat
  BY DEF Caches, Books, Context, NoHole, Typed, TypeOK
<1>2. Shrunk /\ UNCHANGED plat_data
  BY <1>1, ShrinksShrink
<1>3. CacheTyped'
  BY <1>1, <1>2 DEF CacheTyped, Shrunk, Version, Prefetch, Pages, Entry, Dents
<1>4. Untouched
  BY DEF Shrinks, TlbInvalidate, TlbInvalidatePtw, TlbSyncMap, TlbSync, TlbHwInit, TlbIrq,
         Evict, Untouched
<1>5. pgtable' = pgtable
  BY <1>4, UntouchedTables
<1>6. ASSUME NEW p \in Pages PROVE Lookup(p)' = Lookup(p)
  BY <1>4, LookupKept DEF Books, Context
<1>7. ASSUME NEW p \in Pages PROVE tlb'[p] \in {NoFrame, Lookup(p)}
  BY <1>1, <1>2, <1>7 DEF Shrunk, TlbOk
<1>8. ASSUME NEW d \in Dents, ptw[d] \in {NoTable, pgtable[d]}
      PROVE  ptw'[d] \in {NoTable, pgtable[d]}
  BY <1>2, <1>8 DEF Shrunk
<1>a. CASE TlbInvalidate
  <2>1. pc = "inval" /\ pc' = "del" /\ Piece' = Piece
    BY <1>a DEF TlbInvalidate, Invalidate, Go, Piece, Pages
  <2>2. \A p \in Piece : tlb'[p] = NoFrame
    <3>1. tlb' = TlbWithout(Piece)
      BY <1>1, <1>a DEF TlbInvalidate, CacheTyped
    <3> QED BY <1>1, <3>1, Without DEF Piece
  <2>3. ASSUME NEW d \in Dents, Version >= 14, Whole(d) PROVE ptw'[d] = NoTable
    <3>1. ptw' = PtwWithout(Piece)
      BY <1>a, <2>3 DEF TlbInvalidate
    <3>2. PICK p \in Pages : Dir(p) = d
      BY PageOf
    <3>3. p \in Piece
      BY <2>3, <3>2 DEF Whole
    <3> QED BY <1>1, <3>1, <3>2, <3>3, Without
  <2>4. TlbOk'
    BY <1>6, <1>7, <2>1, <2>2 DEF TlbOk, Pages
  <2>5. PtwOk'
    <3> SUFFICES ASSUME NEW d \in Dents
                 PROVE  /\ ptw'[d] \in {NoTable, pgtable[d]}
                        /\ Version >= 14 /\ Whole(d) => ptw'[d] = NoTable
      BY <1>2, <1>5, <2>1 DEF PtwOk, Dents, Version, Dir, Whole, Pages
    <3>1. ptw[d] \in {NoTable, pgtable[d]}
      BY <1>1, <2>1 DEF PtwOk
    <3> QED BY <1>8, <2>3, <3>1
  <2> QED BY <1>3, <2>4, <2>5 DEF Caches
<1>b. CASE TlbInvalidatePtw
  <2>1. pc = "ptw" /\ pc' = "del" /\ Piece' = Piece /\ tlb' = tlb
    BY <1>1, <1>b DEF TlbInvalidatePtw, InvalidatePtw, InvalidatePtwLast, Go, Piece, Pages,
                      Extent
  <2>2. TlbOk'
    BY <1>1, <1>6, <2>1 DEF TlbOk, Pages
  <2>3. PtwOk'
    <3> SUFFICES ASSUME NEW d \in Dents
                 PROVE  /\ ptw'[d] \in {NoTable, pgtable[d]}
                        /\ Version >= 14 /\ Whole(d) => ptw'[d] = NoTable
      BY <1>2, <1>5, <2>1 DEF PtwOk, Dents, Version, Dir, Whole, Pages
    <3>1. CASE Version < 14
      <4>1. ptw'[d] = IF Dir(cur) = d THEN NoTable ELSE ptw[d]
        BY <1>1, <1>b, <3>1, Without DEF TlbInvalidatePtw
      <4> QED BY <1>1, <3>1, <4>1 DEF PtwOk, CacheTyped
    <3>2. CASE ~(Version < 14)
      <4>1. ptw'[d] = ptw[d] /\ Version >= 14
        BY <1>1, <1>b, <3>2 DEF TlbInvalidatePtw, CacheTyped
      <4> QED BY <1>1, <2>1, <3>2, <4>1 DEF PtwOk
    <3> QED BY <3>1, <3>2
  <2> QED BY <1>3, <2>2, <2>3 DEF Caches
<1>c. CASE TlbSyncMap \/ TlbSync
  <2>1. pc \notin {"del", "ptw"} /\ pc' = "idle"
    BY <1>c DEF TlbSyncMap, TlbSync, SyncMap, Sync, Go
  <2>2. TlbOk'
    BY <1>6, <1>7, <2>1 DEF TlbOk, Pages
  <2>3. PtwOk'
    BY <1>1, <1>5, <1>8, <2>1 DEF PtwOk, Dents
  <2> QED BY <1>3, <2>2, <2>3 DEF Caches
<1>d. CASE TlbHwInit \/ Evict \/ \E a \in Pages : TlbIrq(a)
  <2>1. UNCHANGED <<pc, cur, at, stop>> /\ Piece' = Piece
    BY <1>d DEF TlbHwInit, TlbIrq, Evict, vars, Piece, Pages
  <2>2. TlbOk'
    BY <1>1, <1>2, <1>6, <1>7, <2>1 DEF TlbOk, Pages, Shrunk
  <2>3. PtwOk'
    <3> SUFFICES ASSUME NEW d \in Dents
                 PROVE  /\ \/ ptw'[d] \in {NoTable, pgtable[d]}
                           \/ /\ pc = "ptw" /\ Version < 14 /\ d = Dir(cur)
                              /\ pgtable[d] = NoTable
                        /\ pc \in {"del", "ptw"} /\ Version >= 14 /\ Whole(d)
                             => ptw'[d] = NoTable
      BY <1>2, <1>5, <2>1 DEF PtwOk, Dents, Version, Dir, Whole, Pages
    <3> QED BY <1>1, <1>2, <1>8 DEF PtwOk, Shrunk
  <2> QED BY <1>3, <2>2, <2>3 DEF Caches
<1> QED BY <1>a, <1>b, <1>c, <1>d DEF Shrinks

\* The steps that change the tables leave the caches alone.
LEMMA CachesTable ==
  ASSUME Books, NoHole, Caches, [Next]_vars, TableStep \/ UNCHANGED tlbVars
  PROVE  Caches'
<1>1. /\ CacheTyped /\ TlbOk /\ PtwOk /\ Typed /\ Sound /\ Prepared /\ Extent /\ ~hole
      /\ Accounted /\ Context
  BY DEF Caches, Books, Context, NoHole
<1>2. UNCHANGED <<tlb, ptw, plat_data>>
  BY DEF TableStep, tlbVars, cacheVars, caches
<1>3. CacheTyped'
  BY <1>1, <1>2 DEF CacheTyped, Version, Prefetch, Pages, Entry, Dents
<1>4. /\ start \in Nat /\ at \in Nat /\ cur \in Nat /\ stop \in Nat /\ lim \in Nat
      /\ end \in Nat /\ start <= at /\ ChunkEnd \in Nat
      /\ cur < stop => cur < ChunkEnd /\ ChunkEnd <= stop
      /\ pc \in {"l1", "l2"} => at <= cur
      /\ pc \in {"l2", "del"} => stop <= Dirs * Entries
      /\ pgtable \in [Dents -> Tables \cup {NoTable}] /\ Dir(cur) \in Dents
  BY <1>1, Ranges, DirInTable DEF Typed, TypeOK, Dents
<1>a. CASE UNCHANGED tlbVars
  BY <1>1, <1>a DEF Caches, TlbOk, PtwOk, CacheTyped, tlbVars, cacheVars, caches, vars, tables,
     request, Lookup, Dir, Index, Piece, Pages, Whole, Dents, Version, Prefetch, Entry
<1>b. CASE PrepareL1
  <2>1. pc = "l1" /\ pc' = "l1"
    BY <1>b DEF PrepareL1
  <2>2. \A p \in Pages : Lookup(p)' = Lookup(p)
    BY <1>1, <1>b, LookupKept
  <2>3. TlbOk'
    BY <1>1, <1>2, <2>1, <2>2 DEF TlbOk, Pages
  <2>4. ASSUME NEW d \in Dents, pgtable[d] # NoTable PROVE pgtable'[d] = pgtable[d]
    <3>1. CASE UNCHANGED tables
      BY <3>1 DEF tables
    <3>2. CASE ~UNCHANGED tables
      <4>1. PICK t \in slab : /\ pgtable' = [pgtable EXCEPT ![Dir(cur)] = t]
                              /\ pgtable[Dir(cur)] = NoTable
        BY <1>b, <3>2 DEF PrepareL1
      <4> QED BY <1>4, <2>4, <4>1
    <3> QED BY <3>1, <3>2
  <2>5. PtwOk'
    BY <1>1, <1>2, <2>1, <2>4 DEF PtwOk, Dents
  <2> QED BY <1>3, <2>3, <2>5 DEF Caches
<1>c. CASE PrepareL2
  <2>1. pc = "l2" /\ pc' = "l2" /\ cur < stop /\ pgtable' = pgtable
    BY <1>c DEF PrepareL2
  <2>2. ASSUME NEW p \in Pages PROVE tlb'[p] \in {NoFrame, Lookup(p)'}
    <3>1. CASE cur <= p /\ p < ChunkEnd
      <4>1. p \in Nat /\ stop <= end /\ at <= cur /\ kind = "map"
        BY <1>1, <1>4, <2>1, Ranges DEF Extent, Preparing
      <4>2. p \notin owned
        BY <1>1, <1>4, <2>1, <3>1, <4>1 DEF Extent
      <4>3. ~Held(p)
        BY <1>4, <2>1, <3>1, <4>1, <4>2 DEF Held, Front, Preparing
      <4>4. Lookup(p) = NoFrame
        BY <1>1, <4>3 DEF Accounted
      <4> QED BY <1>1, <1>2, <4>4 DEF TlbOk
    <3>2. CASE ~(cur <= p /\ p < ChunkEnd)
      <4>1. Lookup(p)' = Lookup(p)
        BY <1>1, <1>4, <1>c, <2>1, <3>2, LookupMapped
      <4> QED BY <1>1, <1>2, <4>1 DEF TlbOk
    <3> QED BY <3>1, <3>2
  <2>3. TlbOk'
    BY <2>1, <2>2 DEF TlbOk, Pages
  <2>4. PtwOk'
    BY <1>1, <1>2, <2>1 DEF PtwOk, Dents
  <2> QED BY <1>3, <2>3, <2>4 DEF Caches
<1>d. CASE DeleteL2
  <2>1. /\ pc = "del" /\ pc' = "ptw" /\ cur < stop /\ cur' = cur /\ Piece' = Piece
        /\ at <= cur
        /\ \/ WholeTable /\ pgtable' = [pgtable EXCEPT ![Dir(cur)] = NoTable]
           \/ pgtable' = pgtable
    BY <1>1, <1>d DEF DeleteL2, Piece, Pages, Extent, Deleting
  <2>2. ASSUME NEW p \in Pages, cur <= p, p < ChunkEnd PROVE p \in Piece
    <3>1. p \in Nat
      BY Ranges, <1>1
    <3> QED BY <1>4, <2>1, <2>2, <3>1 DEF Piece
  <2>3. ASSUME NEW p \in Pages PROVE tlb'[p] \in {NoFrame, Lookup(p)'}
    <3>1. Lookup(p)' = IF cur <= p /\ p < ChunkEnd THEN NoFrame ELSE Lookup(p)
      BY <1>1, <1>4, <1>d, <2>1, LookupCleared
    <3> QED BY <1>1, <1>2, <2>1, <2>2, <3>1 DEF TlbOk
  <2>4. TlbOk'
    BY <1>1, <1>2, <2>1, <2>3 DEF TlbOk, Pages
  <2>5. ASSUME WholeTable PROVE Whole(Dir(cur))
    BY <1>4, <2>1, <2>2, <2>5, InChunk DEF Whole
  <2>6. ASSUME NEW d \in Dents
        PROVE  /\ \/ ptw[d] \in {NoTable, pgtable'[d]}
                  \/ Version < 14 /\ d = Dir(cur) /\ pgtable'[d] = NoTable
               /\ Version >= 14 /\ Whole(d) => ptw[d] = NoTable
    <3>1. ptw[d] \in {NoTable, pgtable[d]}
      BY <1>1, <2>1 DEF PtwOk
    <3>2. Version >= 14 /\ Whole(d) => ptw[d] = NoTable
      BY <1>1, <2>1 DEF PtwOk
    <3>3. CASE pgtable'[d] = pgtable[d]
      BY <3>1, <3>2, <3>3
    <3>4. CASE pgtable'[d] # pgtable[d]
      <4>1. WholeTable /\ d = Dir(cur) /\ pgtable'[d] = NoTable
        BY <1>4, <2>1, <3>4
      <4>2. Version < 14 \/ Version >= 14
        BY <1>1 DEF CacheTyped
      <4> QED BY <2>5, <3>2, <4>1, <4>2
    <3> QED BY <3>3, <3>4
  <2>7. PtwOk'
    BY <1>2, <2>1, <2>6 DEF PtwOk, Dents, Version, Dir, Whole, Pages
  <2> QED BY <1>3, <2>4, <2>7 DEF Caches
<1>e. CASE RequestMap \/ RequestUnmap \/ MapPiece \/ MapDone \/ PrepareL1Fails
           \/ PrepareL1Done \/ PrepareL2Done \/ UnmapPiece \/ DeleteL2Fails
           \/ DeleteL2Done \/ UnmapDone
  <2>1. pc # "ptw" /\ pc' \notin {"del", "ptw"}
    BY <1>e DEF RequestMap, RequestUnmap, MapPiece, MapDone, PrepareL1Fails, PrepareL1Done,
                PrepareL2Done, UnmapPiece, DeleteL2Fails, DeleteL2Done, UnmapDone, Go
  <2>2. Untouched
    BY <1>e DEF Untouched
  <2>3. pgtable' = pgtable /\ \A p \in Pages : Lookup(p)' = Lookup(p)
    BY <1>1, <2>2, UntouchedTables, LookupKept
  <2>4. TlbOk'
    BY <1>1, <1>2, <2>1, <2>3 DEF TlbOk, Pages
  <2>5. PtwOk'
    BY <1>1, <1>2, <2>1, <2>3 DEF PtwOk, Dents
  <2> QED BY <1>3, <2>4, <2>5 DEF Caches
<1> QED BY <1>a, <1>b, <1>c, <1>d, <1>e DEF TableStep

\* The domain is freed: all tables are gone, and all that was cached of them.
LEMMA CachesFreed ==
  ASSUME Books, Caches, TlbDomainFree
  PROVE  Caches'
<1>1. CacheTyped
  BY DEF Caches
<1>2. pc' = "freed"
  BY DEF TlbDomainFree, DomainFree, Go
<1>3. /\ tlb' \in [Pages -> Entry] /\ ptw' \in [Dents -> Tables \cup {NoTable}]
      /\ \A p \in Pages : tlb'[p] = NoFrame
      /\ \A d \in Dents : ptw'[d] = NoTable
  BY <1>1, Without, PageOf DEF TlbDomainFree, Flushed
<1>4. CacheTyped'
  BY <1>1, <1>3 DEF TlbDomainFree, CacheTyped, Version, Prefetch, Pages, Entry, Dents
<1>5. TlbOk'
  BY <1>2, <1>3 DEF TlbOk, Pages
<1>6. PtwOk'
  BY <1>2, <1>3 DEF PtwOk, Dents
<1> QED BY <1>4, <1>5, <1>6 DEF Caches

-----------------------------------------------------------------------------
(* The theorems.                                                            *)

TlbInv == Books /\ NoHole /\ Caches

LEMMA TlbInvInit == Supported /\ TlbInit => TlbInv
BY BooksInit, CachesInit DEF TlbInv, TlbInit, Init, NoHole

LEMMA TlbInvStep == Supported /\ TlbInv /\ [TlbNext]_tlbVars => TlbInv'
<1> SUFFICES ASSUME Supported, TlbInv, [TlbNext]_tlbVars PROVE TlbInv'
  OBVIOUS
<1>1. [Next]_vars /\ Books /\ NoHole /\ Caches
  BY TablesAlike DEF TlbInv
<1>2. Books' /\ NoHole'
  BY <1>1, BooksStep, NoHoleStep DEF Supported
<1>3. CASE TableStep \/ UNCHANGED tlbVars
  BY <1>1, <1>2, <1>3, CachesTable DEF TlbInv
<1>4. CASE Shrinks
  BY <1>1, <1>2, <1>4, CachesShrink DEF TlbInv
<1>5. CASE \E p \in Pages : Walk(p)
  BY <1>1, <1>2, <1>5, CachesWalk DEF TlbInv
<1>6. CASE TlbDomainFree
  BY <1>1, <1>2, <1>6, CachesFreed DEF TlbInv
<1> QED BY <1>3, <1>4, <1>5, <1>6 DEF TlbNext, Shrinks

\* The inductive invariant: caches, tables and the clients' account agree.
THEOREM TlbInvariance == ASSUME Supported PROVE TlbSpec => []TlbInv
BY TlbInvInit, TlbInvStep, PTL DEF TlbSpec

\* A device reaches the memory its client has mapped, at any moment of the
\* mapping and unmapping of other ranges.
THEOREM Translated == ASSUME Supported PROVE TlbSpec => []TranslationCorrect
<1>1. ASSUME TlbInv PROVE TranslationCorrect
  <2>a. owned \subseteq Pages
    BY <1>1, Ranges DEF TlbInv, Books, TypeOK
  <2>b. InUse \subseteq owned
    BY DEF InUse
  <2> SUFFICES ASSUME NEW p \in Pages, p \in InUse
               PROVE  DeviceSees(p) = Lookup(p) /\ Lookup(p) # NoFrame
    BY <2>a, <2>b DEF TranslationCorrect
  <2>1. Walked(p) = Lookup(p) /\ Lookup(p) # NoFrame
    BY <1>1, WalkFinds, UsedIsMapped DEF TlbInv, Caches
  <2> QED BY <1>1, <2>1 DEF DeviceSees, TlbInv, Caches, TlbOk
<1> QED BY <1>1, TlbInvariance, PTL

\* Between requests the page-walk cache leads to the tables of the directory.
THEOREM NoneFreed == ASSUME Supported PROVE TlbSpec => []NoFreedTable
<1>1. ASSUME TlbInv PROVE NoFreedTable
  <2>1. DOMAIN ptw = Dents
    BY <1>1 DEF TlbInv, Caches, CacheTyped
  <2>2. kind = "idle" => pc # "ptw"
    BY <1>1 DEF TlbInv, Books, Context, Extent
  <2> QED BY <1>1, <2>1, <2>2 DEF NoFreedTable, TlbInv, Caches, PtwOk
<1> QED BY <1>1, TlbInvariance, PTL

\* When an unmap has returned, no access reaches what was unmapped.
THEOREM Revoked == ASSUME Supported PROVE TlbSpec => []UnmapRevokes
<1>1. ASSUME TlbInv PROVE UnmapRevokes
  <2> SUFFICES ASSUME kind = "idle", NEW p \in Pages, p \notin owned
               PROVE  DeviceSees(p) = NoFrame
    BY DEF UnmapRevokes
  <2>1. pc \in {"idle", "freed"}
    BY <1>1 DEF TlbInv, Books, Context, Extent
  <2>2. Lookup(p) = NoFrame
    BY <1>1, <2>1 DEF TlbInv, Books, NoHole, Accounted, Held, Preparing
  <2>3. tlb[p] = NoFrame
    BY <1>1, <2>2 DEF TlbInv, Caches, TlbOk
  <2>4. Dir(p) \in Dents
    <3>1. p \in Nat
      BY Numbers DEF Pages
    <3> QED BY <3>1, DirInTable DEF Dents
  <2>5. ptw[Dir(p)] \in {NoTable, pgtable[Dir(p)]}
    BY <1>1, <2>1, <2>4 DEF TlbInv, Caches, PtwOk
  <2>6. Walked(p) = NoFrame
    BY <2>2, <2>5 DEF Walked, Lookup
  <2> QED BY <2>3, <2>6 DEF DeviceSees
<1> QED BY <1>1, TlbInvariance, PTL
=============================================================================
