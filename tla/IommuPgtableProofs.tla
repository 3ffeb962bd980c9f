------------------------- MODULE IommuPgtableProofs -------------------------
(***************************************************************************)
(* Theorems about IommuPgtable, for any number and size of tables, any      *)
(* requests and any failures: no table is lost, shared, freed with entries  *)
(* in it, or written before it is there.                                    *)
(***************************************************************************)
EXTENDS IommuPgtable, Integers, TLAPS

-----------------------------------------------------------------------------
(* Division with remainder.                                                 *)

LEMMA Remainder ==
  ASSUME NEW x \in Nat, NEW m \in Nat, m # 0
  PROVE  /\ x = (x \div m) * m + (x % m)
         /\ x \div m \in Nat
         /\ x % m \in Nat /\ x % m < m
  BY SMT

LEMMA DivMonotone ==
  ASSUME NEW x \in Nat, NEW y \in Nat, NEW m \in Nat, m # 0, x <= y
  PROVE  x \div m <= y \div m
  BY SMT

LEMMA DivNext ==
  ASSUME NEW x \in Nat, NEW m \in Nat, m # 0
  PROVE  (x + m) \div m = x \div m + 1 /\ (x + m) % m = x % m
<1>1. (x + m) \div m = x \div m + 1
  BY SMT
<1> DEFINE q == x \div m
<1>2. q \in Nat /\ x = q * m + (x % m) /\ x + m = (q + 1) * m + ((x + m) % m)
  BY <1>1, Remainder
<1>3. x % m \in Nat /\ (x + m) % m \in Nat
  BY Remainder
<1> HIDE DEF q
<1> QED BY <1>1, <1>2, <1>3, SMT DEF q

\* Below a multiple of m the quotient is smaller.
LEMMA DivBelow ==
  ASSUME NEW x \in Nat, NEW y \in Nat, NEW m \in Nat, m # 0, x < y, y % m = 0
  PROVE  x \div m < y \div m
<1> DEFINE q == x \div m  r == y \div m
<1>1. q \in Nat /\ r \in Nat /\ q * m <= x /\ y = r * m
  BY Remainder, SMT
<1> HIDE DEF q, r
<1>2. q * m < r * m
  BY <1>1, SMT
<1>3. q < r
  BY <1>1, <1>2, SMT
<1> QED BY <1>3 DEF q, r

\* A multiple of a multiple of m is one of m.
LEMMA MultipleOfMultiple ==
  ASSUME NEW x \in Nat, NEW s \in Nat, s # 0, NEW m \in Nat, m # 0,
         x % s = 0, s % m = 0
  PROVE  x % m = 0
<1> DEFINE a == x \div s  b == s \div m
<1>1. a \in Nat /\ b \in Nat /\ x = a * s /\ s = b * m
  BY Remainder, SMT
<1> HIDE DEF a, b
<1>2. x = (a * b) * m /\ a * b \in Nat
  BY <1>1, SMT
<1>3. \A k \in Nat : (k * m) % m = 0
  BY SMT
<1> QED BY <1>2, <1>3

-----------------------------------------------------------------------------
(* Where a request is.                                                      *)

\* The current driver call lies behind the first page of the request, and the
\* loops of the driver behind the first page of the call.
Located == /\ start <= at /\ end <= Dirs * Entries
           /\ pc \in {"l1", "l2", "inval", "del", "ptw", "ptwlast"} => at <= stop
           /\ pc \in {"l1", "l2"} => at <= cur

LEMMA Numbers == Entries \in Nat /\ Entries # 0 /\ Dirs \in Nat /\ Dirs # 0
BY IommuPgtableAssumption

LEMMA DirInTable ==
  ASSUME NEW p \in Nat
  PROVE  Dir(p) \in 0 .. (Dirs - 1) /\ Index(p) \in 0 .. (Entries - 1)
<1>1. p \div Entries \in Nat
  BY Numbers, Remainder
<1>2. (p \div Entries) % Dirs \in Nat /\ (p \div Entries) % Dirs < Dirs
  BY <1>1, Numbers, Remainder
<1>3. p % Entries \in Nat /\ p % Entries < Entries
  BY Numbers, Remainder
<1> QED BY <1>2, <1>3, Numbers, SMT DEF Dir, Index

\* A chunk is not empty and ends where its table or the call ends.
LEMMA ChunkBounds ==
  ASSUME cur \in Nat, stop \in Nat
  PROVE  /\ ChunkEnd \in Nat
         /\ cur < stop => cur < ChunkEnd /\ ChunkEnd <= stop
         /\ WholeTable => Index(cur) = 0
<1> DEFINE q == cur \div Entries  r == cur % Entries  e == (q + 1) * Entries
<1>1. cur = q * Entries + r /\ q \in Nat /\ r \in Nat /\ r < Entries
  BY Numbers, Remainder
<1>2. ChunkEnd = IF e > stop THEN stop ELSE e
  BY DEF ChunkEnd
<1>3. e = q * Entries + Entries /\ q * Entries \in Nat
  <2> HIDE DEF q
  <2> QED BY <1>1, Numbers, SMT
<1> DEFINE z == q * Entries
<1>4. cur = z + r /\ e = z + Entries /\ z \in Nat
  BY <1>1, <1>3
<1> HIDE DEF q, r, e, z
<1>5. ChunkEnd \in Nat /\ (cur < stop => cur < ChunkEnd /\ ChunkEnd <= stop)
  BY <1>1, <1>2, <1>4, Numbers, SMT
<1>6. ChunkEnd - cur = Entries => r = 0
  BY <1>1, <1>2, <1>4, Numbers, SMT
<1> QED BY <1>5, <1>6 DEF WholeTable, Index, r

LEMMA FrameInWindow ==
  ASSUME NEW f \in Nat, NEW n \in Nat
  PROVE  PteFrame(f, n) \in 0 .. (Wrap - 1)
<1>1. Wrap \in Nat /\ Wrap # 0
  BY IommuPgtableAssumption
<1>2. CpuPhyToIommuPhy(f) + n \in Nat
  BY <1>1 DEF CpuPhyToIommuPhy
<1>3. (CpuPhyToIommuPhy(f) + n) % Wrap \in Nat /\ (CpuPhyToIommuPhy(f) + n) % Wrap < Wrap
  BY <1>1, <1>2, Remainder
<1> QED BY <1>1, <1>3, SMT DEF PteFrame

\* What cpu_phy_to_iommu_phy and the 32 bits of an entry do to the address of
\* a page, iommu_phy_to_cpu_phy undoes, for all the memory that a device can
\* be told of, across the boundary of the window too.
THEOREM FrameRoundTrip ==
  ASSUME NEW f \in Nat, NEW n \in Nat, PhysOffset <= f, f + n < Wrap + PhysOffset
  PROVE  IommuPhyToCpuPhy(PteFrame(f, n)) = f + n
<1>1. Wrap \in Nat /\ PhysOffset \in Nat /\ 0 < PhysOffset /\ PhysOffset <= Wrap
  BY IommuPgtableAssumption
<1>2. CASE f + n < Wrap
  <2>1. CpuPhyToIommuPhy(f) + n = f + n
    BY <1>1, <1>2 DEF CpuPhyToIommuPhy
  <2>2. (f + n) % Wrap = f + n
    BY <1>1, <1>2, SMT
  <2> QED BY <1>1, <2>1, <2>2 DEF PteFrame, IommuPhyToCpuPhy
<1>3. CASE Wrap <= f + n
  <2> DEFINE k == f + n - Wrap
  <2>1. k \in Nat /\ k < PhysOffset /\ k < Wrap /\ f + n = k + Wrap
    BY <1>1, <1>3
  <2> HIDE DEF k
  <2>2. k % Wrap = k /\ (k + Wrap) % Wrap = k
    BY <1>1, <2>1, DivNext, SMT
  <2>3. CpuPhyToIommuPhy(f) + n = k \/ CpuPhyToIommuPhy(f) + n = k + Wrap
    BY <1>1, <2>1 DEF CpuPhyToIommuPhy
  <2>4. PteFrame(f, n) = k
    BY <2>2, <2>3 DEF PteFrame
  <2> QED BY <1>1, <2>1, <2>4 DEF IommuPhyToCpuPhy
<1> QED BY <1>1, <1>2, <1>3

\* An entry of the chunk lies behind the first page of the call.
LEMMA ChunkOffset ==
  ASSUME cur \in Nat, at \in Nat, at <= cur, NEW i \in Chunk
  PROVE  cur - at + i - Index(cur) \in Nat
<1>1. Index(cur) \in Nat /\ i \in Nat /\ Index(cur) <= i
  BY DirInTable, Numbers, SMT DEF Chunk
<1> QED BY <1>1, SMT

-----------------------------------------------------------------------------
(* Types.                                                                   *)

Typed == TypeOK /\ Located

Entry == (0 .. (Wrap - 1)) \cup {NoFrame}

\* Writing one table, whether it exists or not, keeps the type of all.
LEMMA WriteTable ==
  ASSUME pte \in [Tables -> [0 .. (Entries - 1) -> Entry]],
         NEW t, NEW f \in [0 .. (Entries - 1) -> Entry]
  PROVE  [pte EXCEPT ![t] = f] \in [Tables -> [0 .. (Entries - 1) -> Entry]]
OBVIOUS

LEMMA TypedInit == Init => Typed
<1> SUFFICES ASSUME Init PROVE Typed
  OBVIOUS
<1>1. Zeroed \in [0 .. (Entries - 1) -> Entry]
  BY DEF Zeroed, Entry
<1>2. /\ pgtable \in [0 .. (Dirs - 1) -> Tables \cup {NoTable}]
      /\ pte \in [Tables -> [0 .. (Entries - 1) -> Entry]]
  BY <1>1 DEF Init
<1>3. /\ slab \in SUBSET Tables /\ kind \in {"idle", "map", "unmap"}
      /\ pc \in Location /\ owned \in SUBSET Pages /\ hole \in BOOLEAN
  <2>1. slab \in SUBSET Tables /\ owned \in SUBSET Pages
    BY DEF Init
  <2>2. kind \in {"idle", "map", "unmap"} /\ pc \in Location /\ hole \in BOOLEAN
    BY Zenon DEF Init, Location
  <2> QED BY <2>1, <2>2
<1>7. {start, end, paddr, at, stop, cur, lim} \subseteq Nat
  BY DEF Init
<1>6. TypeOK
  BY <1>2, <1>3, <1>7 DEF TypeOK, Entry
<1>4. Dirs * Entries \in Nat
  BY Numbers
<1>5. Located
  BY <1>4 DEF Init, Located
<1> QED BY <1>6, <1>5 DEF Typed

LEMMA TypedStep == Typed /\ [Next]_vars => Typed'
<1> SUFFICES ASSUME Typed, [Next]_vars PROVE Typed'
  OBVIOUS
<1>1. /\ pgtable \in [0 .. (Dirs - 1) -> Tables \cup {NoTable}]
      /\ pte \in [Tables -> [0 .. (Entries - 1) -> Entry]]
      /\ slab \in SUBSET Tables
      /\ start \in Nat /\ end \in Nat /\ paddr \in Nat /\ at \in Nat
      /\ stop \in Nat /\ cur \in Nat /\ lim \in Nat
      /\ owned \in SUBSET Pages /\ hole \in BOOLEAN
      /\ kind \in {"idle", "map", "unmap"} /\ pc \in Location
      /\ start <= at /\ end <= Dirs * Entries
  BY DEF Typed, TypeOK, Located, Entry
<1>2. Located
  BY DEF Typed
<1>3. Zeroed \in [0 .. (Entries - 1) -> Entry]
  BY DEF Zeroed, Entry
<1>a. CASE RequestMap
  <2> PICK r \in Requests, f \in Frames : RequestMap!(r, f)
    BY <1>a DEF RequestMap
  <2>1. /\ r[1] \in Nat /\ r[2] \in Nat /\ r[2] <= Dirs * Entries /\ f \in Nat
    BY IommuPgtableAssumption
  <2>2. TypeOK'
    BY <1>1, <2>1 DEF TypeOK, Entry, Go, Location, tables, record
  <2>3. Located'
    BY <1>1, <1>2, <2>1 DEF Located, Go
  <2> QED BY <2>2, <2>3 DEF Typed
<1>b. CASE RequestUnmap
  <2> PICK r \in Requests : RequestUnmap!(r)
    BY <1>b DEF RequestUnmap
  <2>1. /\ r[1] \in Nat /\ r[2] \in Nat /\ r[2] <= Dirs * Entries
    BY IommuPgtableAssumption
  <2>2. TypeOK'
    BY <1>1, <2>1 DEF TypeOK, Entry, Go, Location, tables, record
  <2>3. Located'
    BY <1>1, <1>2, <2>1 DEF Located, Go
  <2> QED BY <2>2, <2>3 DEF Typed
<1>c. CASE MapPiece \/ UnmapPiece
  <2>1. PICK s \in PgSizes : stop' = at + s
    BY <1>c DEF MapPiece, UnmapPiece
  <2>2. s \in Nat
    BY IommuPgtableAssumption
  <2>3. TypeOK'
    BY <1>1, <1>c, <2>1, <2>2
       DEF TypeOK, Entry, Go, Location, tables, record, request, MapPiece, UnmapPiece
  <2>4. Located'
    BY <1>1, <1>2, <1>c, <2>1, <2>2 DEF Located, Go, request, MapPiece, UnmapPiece
  <2> QED BY <2>3, <2>4 DEF Typed
<1>d. CASE MapDone \/ UnmapDone \/ Invalidate
  <2>1. TypeOK'
    BY <1>1, <1>d DEF TypeOK, Entry, Go, Location, tables, record, request, MapDone,
                      UnmapDone, Invalidate
  <2>2. Located'
    BY <1>1, <1>2, <1>d DEF Located, Go, request, MapDone, UnmapDone, Invalidate
  <2> QED BY <2>1, <2>2 DEF Typed
<1>e. CASE PrepareL1
  <2>1. CASE UNCHANGED tables
    <3>1. TypeOK'
      BY <1>1, <1>e, <2>1, Numbers
         DEF TypeOK, Entry, Location, tables, record, request, PrepareL1
    <3>2. Located'
      BY <1>1, <1>2, <1>e, Numbers DEF Located, request, PrepareL1
    <3> QED BY <3>1, <3>2 DEF Typed
  <2>2. CASE ~ UNCHANGED tables
    <3>1. PICK t \in slab : /\ pgtable' = [pgtable EXCEPT ![Dir(cur)] = t]
                            /\ pte' = [pte EXCEPT ![t] = Zeroed]
                            /\ slab' = slab \ {t}
      BY <1>e, <2>2 DEF PrepareL1
    <3>2. /\ pgtable' \in [0 .. (Dirs - 1) -> Tables \cup {NoTable}]
          /\ slab' \in SUBSET Tables
      BY <1>1, <3>1
    <3>3. pte' \in [Tables -> [0 .. (Entries - 1) -> Entry]]
      BY <1>1, <1>3, <3>1, WriteTable
    <3>4. TypeOK'
      BY <1>1, <1>e, <3>2, <3>3, Numbers
         DEF TypeOK, Entry, Location, record, request, PrepareL1
    <3>5. Located'
      BY <1>1, <1>2, <1>e, Numbers DEF Located, request, PrepareL1
    <3> QED BY <3>4, <3>5 DEF Typed
  <2> QED BY <2>1, <2>2
<1>f. CASE PrepareL1Fails \/ PrepareL1Done
  <2>1. TypeOK'
    BY <1>1, <1>f DEF TypeOK, Entry, Go, Location, tables, record, request,
                      PrepareL1Fails, PrepareL1Done
  <2>2. Located'
    BY <1>1, <1>2, <1>f DEF Located, Go, request, PrepareL1Fails, PrepareL1Done
  <2> QED BY <2>1, <2>2 DEF Typed
<1>g. CASE PrepareL2
  <2> DEFINE t == pgtable[Dir(cur)]
             f == [i \in 0 .. (Entries - 1) |->
                     IF i \in Chunk THEN PteFrame(Image(at), cur - at + i - Index(cur))
                                    ELSE pte[t][i]]
  <2>1. pte' = [pte EXCEPT ![t] = f]
    BY <1>g DEF PrepareL2
  <2>2. at <= cur /\ cur < stop /\ Image(at) \in Nat
    BY <1>1, <1>2, <1>g DEF PrepareL2, Located, Image
  <2>3. ChunkEnd \in Nat /\ at <= ChunkEnd
    BY <1>1, <2>2, ChunkBounds
  <2>4. \A i \in Chunk : PteFrame(Image(at), cur - at + i - Index(cur)) \in Entry
    BY <1>1, <2>2, ChunkOffset, FrameInWindow DEF Entry
  <2>5. pte' \in [Tables -> [0 .. (Entries - 1) -> Entry]]
    <3>1. CASE t \in Tables
      <4>1. f \in [0 .. (Entries - 1) -> Entry]
        BY <1>1, <2>4, <3>1
      <4> HIDE DEF t, f
      <4> QED BY <1>1, <2>1, <4>1, WriteTable
    <3>2. CASE t \notin Tables
      <4> HIDE DEF t, f
      <4> QED BY <1>1, <2>1, <3>2
    <3> QED BY <3>1, <3>2
  <2>6. TypeOK'
    BY <1>1, <1>g, <2>3, <2>5 DEF TypeOK, Entry, Location, record, request, PrepareL2
  <2>7. Located'
    BY <1>1, <1>2, <1>g, <2>3 DEF Located, request, PrepareL2
  <2> QED BY <2>6, <2>7 DEF Typed
<1>h. CASE PrepareL2Done \/ DeleteL2Done
  <2>1. TypeOK'
    BY <1>1, <1>h DEF TypeOK, Entry, Go, Location, tables, record, request,
                      PrepareL2Done, DeleteL2Done
  <2>2. Located'
    BY <1>1, <1>2, <1>h DEF Located, Go, request, PrepareL2Done, DeleteL2Done
  <2> QED BY <2>1, <2>2 DEF Typed
<1>i. CASE SyncMap \/ Sync
  <2>1. owned' \in SUBSET Pages
    <3>1. start .. (end - 1) \subseteq Pages
      <4> DEFINE n == Dirs * Entries
      <4>1. n \in Nat /\ end <= n
        BY <1>1, Numbers
      <4> HIDE DEF n
      <4>2. start .. (end - 1) \subseteq 0 .. (n - 1)
        BY <1>1, <4>1
      <4> QED BY <4>2 DEF n, Pages
    <3> QED BY <1>1, <1>i, <3>1 DEF SyncMap, Sync
  <2>2. TypeOK'
    BY <1>1, <1>i, <2>1 DEF TypeOK, Entry, Go, Location, tables, SyncMap, Sync
  <2>3. Located'
    BY <1>1, <1>2, <1>i DEF Located, Go, SyncMap, Sync
  <2> QED BY <2>2, <2>3 DEF Typed
<1>j. CASE DeleteL2
  <2> DEFINE t == pgtable[Dir(cur)]
  <2>1. t \in Tables /\ pte' = [pte EXCEPT ![t] = Cleared(t)]
    BY <1>1, <1>j, DirInTable DEF DeleteL2
  <2>2. Cleared(t) \in [0 .. (Entries - 1) -> Entry]
    BY <1>1, <2>1 DEF Cleared, Entry
  <2>3. pte' \in [Tables -> [0 .. (Entries - 1) -> Entry]]
    BY <1>1, <2>1, <2>2, WriteTable
  <2>4. /\ pgtable' \in [0 .. (Dirs - 1) -> Tables \cup {NoTable}]
        /\ slab' \in SUBSET Tables
    BY <1>1, <1>j, <2>1 DEF DeleteL2
  <2>5. TypeOK'
    BY <1>1, <1>j, <2>3, <2>4 DEF TypeOK, Entry, Location, record, request, DeleteL2
  <2>6. Located'
    BY <1>1, <1>2, <1>j DEF Located, request, DeleteL2
  <2> QED BY <2>5, <2>6 DEF Typed
<1>k. CASE DeleteL2Fails \/ InvalidatePtw \/ InvalidatePtwLast
  <2>1. ChunkEnd \in Nat
    BY <1>1, ChunkBounds
  <2>2. TypeOK'
    BY <1>1, <1>k, <2>1 DEF TypeOK, Entry, Go, Location, tables, record, request,
                      DeleteL2Fails, InvalidatePtw, InvalidatePtwLast
  <2>3. Located'
    BY <1>1, <1>2, <1>k DEF Located, Go, request, DeleteL2Fails, InvalidatePtw,
                            InvalidatePtwLast
  <2> QED BY <2>2, <2>3 DEF Typed
<1>l. CASE UNCHANGED vars
  <2>1. TypeOK' /\ Located'
    BY <1>1, <1>2, <1>l DEF TypeOK, Entry, Located, vars, tables, record, request
  <2> QED BY <2>1 DEF Typed
<1>m. CASE DomainFree
  <2>1. /\ pgtable' \in [0 .. (Dirs - 1) -> Tables \cup {NoTable}]
        /\ slab' \in SUBSET Tables
    BY <1>1, <1>m DEF DomainFree
  <2>2. pte' \in [Tables -> [0 .. (Entries - 1) -> Entry]]
    BY <1>1, <1>3, <1>m DEF DomainFree
  <2>3. TypeOK'
    BY <1>1, <1>m, <2>1, <2>2 DEF TypeOK, Entry, Go, Location, request, DomainFree
  <2>4. Located'
    BY <1>1, <1>2, <1>m DEF Located, Go, request, DomainFree
  <2> QED BY <2>3, <2>4 DEF Typed
<1> QED BY <1>a, <1>b, <1>c, <1>d, <1>e, <1>f, <1>g, <1>h, <1>i, <1>j, <1>k, <1>l, <1>m
        DEF Next, MapStep, UnmapStep

\* The variables stay in their ranges; in particular every entry that is
\* written fits the address window of the IOMMU.
THEOREM TypeCorrect == Spec => []TypeOK
<1>1. Typed => TypeOK
  BY DEF Typed
<1> QED BY <1>1, TypedInit, TypedStep, PTL DEF Spec

-----------------------------------------------------------------------------
(* No table is lost or shared, and none is freed with entries in it.        *)

Sound == TablesOwned /\ FreeTablesEmpty

\* Most steps leave the tables alone.
Untouched == RequestMap \/ RequestUnmap \/ MapPiece \/ MapDone \/ PrepareL1Fails
             \/ PrepareL1Done \/ PrepareL2Done \/ SyncMap \/ UnmapPiece \/ UnmapDone
             \/ Invalidate \/ DeleteL2Fails \/ InvalidatePtw \/ InvalidatePtwLast
             \/ DeleteL2Done \/ Sync \/ UNCHANGED vars

LEMMA UntouchedTables ==
  ASSUME Untouched
  PROVE  UNCHANGED <<pgtable, pte, slab>>
BY DEF Untouched, RequestMap, RequestUnmap, MapPiece, MapDone, PrepareL1Fails,
       PrepareL1Done, PrepareL2Done, SyncMap, UnmapPiece, UnmapDone, Invalidate,
       DeleteL2Fails, InvalidatePtw, InvalidatePtwLast, DeleteL2Done, Sync, tables, vars

LEMMA Steps ==
  ASSUME [Next]_vars
  PROVE  Untouched \/ PrepareL1 \/ PrepareL2 \/ DeleteL2 \/ DomainFree
BY DEF Next, MapStep, UnmapStep, Untouched

\* A chunk that is a whole table clears all of it.
LEMMA WholeCleared ==
  ASSUME cur \in Nat, stop \in Nat, WholeTable, NEW t
  PROVE  Cleared(t) = Zeroed
<1>1. Index(cur) = 0 /\ ChunkEnd - cur = Entries
  BY ChunkBounds DEF WholeTable
<1>2. Chunk = 0 .. (Entries - 1)
  BY <1>1, Numbers, SMT DEF Chunk
<1> QED BY <1>2 DEF Cleared, Zeroed

LEMMA SoundInit == Init => Sound
<1>1. NoTable \notin Tables
  BY IommuPgtableAssumption
<1>2. Init => TablesOwned
  BY <1>1 DEF Init, TablesOwned
<1>3. Init => FreeTablesEmpty
  BY DEF Init, FreeTablesEmpty
<1> QED BY <1>2, <1>3 DEF Sound

LEMMA SoundStep == Typed /\ Sound /\ [Next]_vars => Sound'
<1> SUFFICES ASSUME Typed, Sound, [Next]_vars PROVE Sound'
  OBVIOUS
<1>1. /\ pgtable \in [0 .. (Dirs - 1) -> Tables \cup {NoTable}]
      /\ pte \in [Tables -> [0 .. (Entries - 1) -> Entry]]
      /\ slab \in SUBSET Tables /\ NoTable \notin Tables
      /\ cur \in Nat /\ stop \in Nat
  BY IommuPgtableAssumption DEF Typed, TypeOK, Entry
<1>2. /\ \A t \in Tables : t \in slab <=> \A d \in 0 .. (Dirs - 1) : pgtable[d] # t
      /\ \A d, e \in 0 .. (Dirs - 1) :
           pgtable[d] = pgtable[e] => d = e \/ pgtable[d] = NoTable
      /\ \A t \in slab : pte[t] = Zeroed
  BY <1>1 DEF Sound, TablesOwned, FreeTablesEmpty
<1> DEFINE d0 == Dir(cur)
<1>3. d0 \in 0 .. (Dirs - 1)
  BY <1>1, DirInTable
<1>a. CASE Untouched
  <2>1. UNCHANGED <<pgtable, pte, slab>>
    BY <1>a, UntouchedTables
  <2> QED BY <2>1 DEF Sound, TablesOwned, FreeTablesEmpty, Zeroed
<1>b. CASE PrepareL1
  <2>1. CASE UNCHANGED tables
    BY <2>1 DEF Sound, TablesOwned, FreeTablesEmpty, tables, Zeroed
  <2>2. CASE ~ UNCHANGED tables
    <3>1. PICK t \in slab : /\ pgtable' = [pgtable EXCEPT ![d0] = t]
                            /\ pte' = [pte EXCEPT ![t] = Zeroed]
                            /\ slab' = slab \ {t}
                            /\ pgtable[d0] = NoTable
      BY <1>b, <2>2 DEF PrepareL1
    <3> HIDE DEF d0
    <3>2. /\ pgtable' \in [0 .. (Dirs - 1) -> Tables \cup {NoTable}]
          /\ pgtable'[d0] = t
          /\ \A d \in 0 .. (Dirs - 1) : d # d0 => pgtable'[d] = pgtable[d]
      BY <1>1, <1>3, <3>1
    <3>3. \A d \in 0 .. (Dirs - 1) : pgtable[d] # t
      BY <1>1, <1>2
    <3>4. ASSUME NEW u \in Tables
          PROVE  u \in slab' <=> \A d \in 0 .. (Dirs - 1) : pgtable'[d] # u
      BY <1>1, <1>2, <1>3, <3>1, <3>2
    <3>5. ASSUME NEW d \in 0 .. (Dirs - 1), NEW e \in 0 .. (Dirs - 1),
                 pgtable'[d] = pgtable'[e]
          PROVE  d = e \/ pgtable'[d] = NoTable
      BY <1>2, <3>2, <3>3, <3>5
    <3>6. TablesOwned'
      BY <3>2, <3>4, <3>5 DEF TablesOwned
    <3>7. FreeTablesEmpty'
      BY <1>1, <1>2, <3>1 DEF FreeTablesEmpty, Zeroed
    <3> QED BY <3>6, <3>7 DEF Sound
  <2> QED BY <2>1, <2>2
<1>c. CASE PrepareL2
  <2> DEFINE t == pgtable[d0]
  <2>1. PICK f : pte' = [pte EXCEPT ![t] = f] /\ pgtable' = pgtable /\ slab' = slab
    BY <1>c DEF PrepareL2
  <2>2. t \notin slab
    BY <1>1, <1>2, <1>3
  <2>3. TablesOwned'
    BY <2>1 DEF Sound, TablesOwned
  <2> HIDE DEF t
  <2>4. \A u \in slab : pte'[u] = pte[u]
    BY <1>1, <2>1, <2>2
  <2>5. FreeTablesEmpty'
    BY <1>2, <2>1, <2>4 DEF FreeTablesEmpty, Zeroed
  <2> QED BY <2>3, <2>5 DEF Sound
<1>d. CASE DeleteL2
  <2> DEFINE t == pgtable[d0]
  <2>1. /\ t \in Tables
        /\ pte' = [pte EXCEPT ![t] = Cleared(t)]
        /\ \/ /\ WholeTable
              /\ pgtable' = [pgtable EXCEPT ![d0] = NoTable]
              /\ slab' = slab \cup {t}
           \/ ~ WholeTable /\ pgtable' = pgtable /\ slab' = slab
    BY <1>1, <1>3, <1>d DEF DeleteL2
  <2>2. t \notin slab
    BY <1>1, <1>2, <1>3
  <2>3. /\ pgtable[d0] = t
        /\ \A d \in 0 .. (Dirs - 1) : pgtable[d] = t => d = d0
    BY <1>1, <1>2, <1>3, <2>1
  <2> HIDE DEF t, d0
  <2>4. \A u \in slab : pte'[u] = pte[u]
    BY <1>1, <2>1, <2>2
  <2>5. CASE ~ WholeTable
    BY <1>2, <2>1, <2>4, <2>5 DEF Sound, TablesOwned, FreeTablesEmpty, Zeroed
  <2>6. CASE WholeTable
    <3>1. /\ pgtable' \in [0 .. (Dirs - 1) -> Tables \cup {NoTable}]
          /\ pgtable'[d0] = NoTable
          /\ \A d \in 0 .. (Dirs - 1) : d # d0 => pgtable'[d] = pgtable[d]
      BY <1>1, <1>3, <2>1, <2>6
    <3>2. ASSUME NEW u \in Tables
          PROVE  u \in slab' <=> \A d \in 0 .. (Dirs - 1) : pgtable'[d] # u
      BY <1>1, <1>2, <1>3, <2>1, <2>3, <2>6, <3>1
    <3>3. ASSUME NEW d \in 0 .. (Dirs - 1), NEW e \in 0 .. (Dirs - 1),
                 pgtable'[d] = pgtable'[e]
          PROVE  d = e \/ pgtable'[d] = NoTable
      BY <1>2, <3>1, <3>3
    <3>4. TablesOwned'
      BY <3>1, <3>2, <3>3 DEF TablesOwned
    <3>5. pte'[t] = Zeroed
      BY <1>1, <2>1, <2>6, WholeCleared
    <3>6. \A u \in slab' : pte'[u] = Zeroed
      <4>1. slab' = slab \cup {t}
        BY <2>1, <2>6
      <4> QED BY <1>2, <2>4, <3>5, <4>1
    <3>7. FreeTablesEmpty'
      BY <3>6 DEF FreeTablesEmpty, Zeroed
    <3> QED BY <3>4, <3>7 DEF Sound
  <2> QED BY <2>5, <2>6
<1>e. CASE DomainFree
  <2>1. /\ pgtable' = [d \in 0 .. (Dirs - 1) |-> NoTable]
        /\ slab' = slab \cup {pgtable[d] : d \in {e \in 0 .. (Dirs - 1) : pgtable[e] # NoTable}}
        /\ pte' = [t \in Tables |-> IF \E d \in 0 .. (Dirs - 1) : pgtable[d] = t
                                    THEN Zeroed ELSE pte[t]]
    BY <1>1, <1>e DEF DomainFree
  <2>2. ASSUME NEW t \in Tables PROVE t \in slab' /\ pte'[t] = Zeroed
    BY <1>1, <1>2, <2>1
  <2>3. TablesOwned'
    BY <1>1, <2>1, <2>2 DEF TablesOwned
  <2>4. slab' \subseteq Tables
    BY <1>1, <2>1
  <2>5. FreeTablesEmpty'
    BY <2>2, <2>4 DEF FreeTablesEmpty, Zeroed
  <2> QED BY <2>3, <2>5 DEF Sound
<1> QED BY <1>a, <1>b, <1>c, <1>d, <1>e, Steps

\* Every table is either free or in exactly one directory entry, whatever
\* fails and however the requests cut the tables into pieces.
THEOREM NoTableLost == Spec => []TablesOwned
<1>1. Sound => TablesOwned
  BY DEF Sound
<1> QED BY <1>1, TypedInit, TypedStep, SoundInit, SoundStep, PTL DEF Spec

\* A table that sunxi_pgtable_delete_l2_tables gives back has no entry left.
THEOREM FreedEmpty == Spec => []FreeTablesEmpty
<1>1. Sound => FreeTablesEmpty
  BY DEF Sound
<1> QED BY <1>1, TypedInit, TypedStep, SoundInit, SoundStep, PTL DEF Spec

-----------------------------------------------------------------------------
(* Every table is there before it is written.                               *)

\* The loop of sunxi_pgtable_prepare_l1_tables steps over one directory entry
\* at a time, from the one of at.  Behind it, and after it, all are valid.
Prepared ==
  /\ pc = "l1" => /\ \E s \in PgSizes : at % s = 0 /\ stop = at + s
                 /\ cur % Entries = at % Entries
                 /\ \A p \in Nat : /\ at <= p /\ p < stop
                                   /\ p \div Entries < cur \div Entries
                                   => pgtable[Dir(p)] # NoTable
  /\ pc = "l2" => \A p \in Nat : at <= p /\ p < stop => pgtable[Dir(p)] # NoTable

LEMMA SameDir ==
  ASSUME NEW p \in Nat, NEW q \in Nat, p \div Entries = q \div Entries
  PROVE  Dir(p) = Dir(q)
BY DEF Dir

\* When the loop is past the call, it has been to the table of every page.
LEMMA LoopCovers ==
  ASSUME at \in Nat, cur \in Nat, stop \in Nat, stop < cur,
         NEW s \in PgSizes, at % s = 0, stop = at + s,
         cur % Entries = at % Entries,
         NEW p \in Nat, at <= p, p < stop
  PROVE  p \div Entries < cur \div Entries
<1>1. s \in Nat /\ s # 0 /\ (Entries % s = 0 \/ s % Entries = 0)
  BY IommuPgtableAssumption
<1>2. CASE Entries % s = 0
  <2>1. p \div Entries = at \div Entries
    <3> DEFINE a == at \div s  k == Entries \div s  q == at \div Entries
               r == at % Entries
    <3>1. /\ a \in Nat /\ k \in Nat /\ q \in Nat /\ r \in Nat
          /\ at = a * s /\ Entries = k * s /\ at = q * Entries + r /\ r < Entries
      BY <1>1, <1>2, Numbers, Remainder, SMT
    <3>2. p \in Nat /\ at <= p /\ p < at + s /\ Entries \in Nat
      BY Numbers
    <3> HIDE DEF a, k, q, r
    <3>3. r = (a - q * k) * s
      <4>1. q * Entries = (q * k) * s
        BY <1>1, <3>1, SMT
      <4>2. r = a * s - (q * k) * s
        BY <3>1, <4>1, SMT
      <4>3. q * k \in Nat
        BY <3>1, SMT
      <4> QED BY <1>1, <3>1, <4>2, <4>3, SMT
    <3>4. r + s <= Entries
      <4> DEFINE c == a - q * k
      <4>1. c \in Int /\ c * s < k * s
        BY <3>1, <3>3, SMT
      <4> HIDE DEF c
      <4>2. c < k
        BY <1>1, <3>1, <4>1, SMT
      <4>3. c * s + s <= k * s
        BY <1>1, <3>1, <4>1, <4>2, SMT
      <4> QED BY <3>1, <3>3, <4>3 DEF c
    <3>5. /\ p = q * Entries + (p - q * Entries)
          /\ p - q * Entries \in Nat /\ p - q * Entries < Entries
      BY <1>1, <3>1, <3>2, <3>4, SMT
    <3>6. \A d \in Nat : d < Entries => (q * Entries + d) \div Entries = q
      BY <3>1, <3>2, SMT
    <3>7. p \div Entries = q
      BY <3>5, <3>6
    <3> QED BY <3>7 DEF q
  <2> DEFINE a == at \div Entries  c == cur \div Entries  r == at % Entries
  <2>2. /\ a \in Nat /\ c \in Nat /\ r \in Nat
        /\ at = a * Entries + r /\ cur = c * Entries + r
    BY Numbers, Remainder
  <2>3. at < cur
    BY <1>1
  <2>4. a <= c
    BY <2>3, Numbers, DivMonotone
  <2> HIDE DEF a, c, r
  <2>5. a # c
    BY <2>2, <2>3
  <2>6. a < c
    BY <2>2, <2>4, <2>5
  <2> QED BY <2>1, <2>6 DEF a, c
<1>3. CASE s % Entries = 0
  <2>1. cur % Entries = 0
    BY <1>1, <1>3, Numbers, MultipleOfMultiple
  <2> QED BY <2>1, Numbers, DivBelow
<1> QED BY <1>1, <1>2, <1>3

LEMMA PreparedStep == Typed /\ Prepared /\ [Next]_vars => Prepared'
<1> SUFFICES ASSUME Typed, Prepared, [Next]_vars PROVE Prepared'
  OBVIOUS
<1>1. /\ pgtable \in [0 .. (Dirs - 1) -> Tables \cup {NoTable}]
      /\ slab \in SUBSET Tables /\ NoTable \notin Tables
      /\ at \in Nat /\ cur \in Nat /\ stop \in Nat
  BY IommuPgtableAssumption DEF Typed, TypeOK
<1>a. CASE MapPiece
  <2>1. PICK s \in PgSizes : stop' = at + s /\ s \in Fitting
    BY <1>a DEF MapPiece, Largest, FittingMap
  <2>2. at % s = 0
    BY <2>1 DEF Fitting
  <2>3. pc' = "l1" /\ at' = at /\ cur' = at
    BY <1>a DEF MapPiece, Go
  <2>4. ASSUME NEW p \in Nat, at <= p, p \div Entries < at \div Entries
        PROVE  FALSE
    <3>1. /\ at \div Entries <= p \div Entries
          /\ at \div Entries \in Nat /\ p \div Entries \in Nat
      BY <1>1, <2>4, Numbers, DivMonotone, Remainder
    <3> QED BY <2>4, <3>1
  <2> QED BY <2>1, <2>2, <2>3, <2>4 DEF Prepared
<1>b. CASE PrepareL1
  <2> DEFINE d0 == Dir(cur)
  <2>1. /\ pc = "l1" /\ pc' = "l1" /\ at' = at /\ stop' = stop /\ cur' = cur + Entries
    BY <1>b DEF PrepareL1
  <2>2. /\ (cur + Entries) \div Entries = cur \div Entries + 1
        /\ (cur + Entries) % Entries = cur % Entries
    BY <1>1, Numbers, DivNext
  <2>3. /\ pgtable'[d0] # NoTable
        /\ \A p \in Nat : pgtable[Dir(p)] # NoTable => pgtable'[Dir(p)] # NoTable
    <3>1. d0 \in 0 .. (Dirs - 1) /\ \A p \in Nat : Dir(p) \in 0 .. (Dirs - 1)
      BY <1>1, DirInTable
    <3>2. CASE UNCHANGED tables
      <4>1. pgtable' = pgtable /\ slab' = slab
        BY <3>2 DEF tables
      <4>2. pgtable[d0] # NoTable
        <5>1. ASSUME NEW t \in slab, slab' = slab \ {t} PROVE FALSE
          BY <4>1, <5>1
        <5> QED BY <1>b, <5>1 DEF PrepareL1
      <4> QED BY <4>1, <4>2
    <3>3. CASE ~ UNCHANGED tables
      <4>1. PICK t \in slab : pgtable' = [pgtable EXCEPT ![d0] = t]
        BY <1>b, <3>3 DEF PrepareL1
      <4> HIDE DEF d0
      <4> QED BY <1>1, <3>1, <4>1
    <3> QED BY <3>2, <3>3
  <2>4. ASSUME NEW p \in Nat, at <= p, p < stop, p \div Entries < cur \div Entries + 1
        PROVE  pgtable'[Dir(p)] # NoTable
    <3>1. p \div Entries \in Nat /\ cur \div Entries \in Nat
      BY <1>1, Numbers, Remainder
    <3>2. CASE p \div Entries < cur \div Entries
      BY <2>1, <2>3, <2>4, <3>2 DEF Prepared
    <3>3. CASE p \div Entries = cur \div Entries
      <4>1. Dir(p) = Dir(cur)
        BY <1>1, <3>3, SameDir
      <4> QED BY <2>3, <4>1
    <3>4. p \div Entries < cur \div Entries \/ p \div Entries = cur \div Entries
      BY <2>4, <3>1
    <3> QED BY <3>2, <3>3, <3>4
  <2>5. \E s \in PgSizes : at % s = 0 /\ stop = at + s
    BY <2>1 DEF Prepared
  <2>6. cur % Entries = at % Entries
    BY <2>1 DEF Prepared
  <2> QED BY <2>1, <2>2, <2>4, <2>5, <2>6 DEF Prepared, Dir
<1>c. CASE PrepareL1Done
  <2>1. /\ pc = "l1" /\ pc' = "l2" /\ at' = at /\ stop' = stop /\ pgtable' = pgtable
        /\ stop < cur
    BY <1>1, <1>c DEF PrepareL1Done, Go, tables
  <2>2. PICK s \in PgSizes : at % s = 0 /\ stop = at + s
    BY <2>1 DEF Prepared
  <2>3. cur % Entries = at % Entries
    BY <2>1 DEF Prepared
  <2>4. ASSUME NEW p \in Nat, at <= p, p < stop
        PROVE  pgtable[Dir(p)] # NoTable
    <3>1. p \div Entries < cur \div Entries
      BY <1>1, <2>1, <2>2, <2>3, <2>4, LoopCovers
    <3> QED BY <2>1, <2>4, <3>1 DEF Prepared
  <2> QED BY <2>1, <2>4 DEF Prepared, Dir
<1>d. CASE PrepareL2
  <2>1. UNCHANGED <<pc, at, stop, pgtable>> /\ pc = "l2"
    BY <1>d DEF PrepareL2
  <2> QED BY <2>1 DEF Prepared, Dir
<1>e. CASE UNCHANGED vars
  BY <1>e DEF Prepared, Dir, vars, tables
<1>f. CASE RequestMap \/ RequestUnmap \/ MapDone \/ PrepareL1Fails \/ PrepareL2Done
           \/ SyncMap \/ UnmapStep \/ DomainFree
  <2>1. pc' # "l1" /\ pc' # "l2"
    BY <1>f DEF DomainFree, Go, RequestMap, RequestUnmap, MapDone, PrepareL1Fails, PrepareL2Done,
                SyncMap, UnmapStep, UnmapPiece, Invalidate, DeleteL2, DeleteL2Fails,
                InvalidatePtw, InvalidatePtwLast, DeleteL2Done, UnmapDone, Sync
  <2> QED BY <2>1 DEF Prepared
<1> QED BY <1>a, <1>b, <1>c, <1>d, <1>e, <1>f DEF Next, MapStep

\* sunxi_pgtable_prepare_l2_tables never follows an invalid directory entry:
\* the loop before it has been to every table of the call, for every page
\* size that is a part or a multiple of what a table maps.
THEOREM TablesThere == Spec => []L2Ready
<1>1. Init => Prepared
  BY DEF Init, Prepared
<1>2. Prepared => L2Ready
  <2> SUFFICES ASSUME Prepared, pc = "l2", NEW p \in Pages, at <= p, p < stop
               PROVE  pgtable[Dir(p)] # NoTable
    BY DEF L2Ready
  <2>1. p \in Nat
    BY Numbers DEF Pages
  <2> QED BY <2>1 DEF Prepared
<1> QED BY <1>1, <1>2, TypedInit, TypedStep, PreparedStep, PTL DEF Spec

-----------------------------------------------------------------------------
(* What is mapped at each moment of a request.                              *)

Preparing == {"map", "l1", "l2", "syncmap"}

Deleting == {"inval", "del", "ptw", "ptwlast"}

\* How far the loops of the kernel and of the driver are, and that a map
\* request has pages that nobody owns and frames that the IOMMU can address.
Extent ==
  /\ at <= lim /\ lim <= end
  /\ kind = "idle" <=> pc \in {"idle", "freed"}
  /\ pc \in Preparing => kind = "map"
  /\ kind = "unmap" \/ pc \in Preparing => lim = end
  /\ pc \in {"l1", "l2"} \cup Deleting => stop <= lim
  /\ pc \in Deleting => at <= cur
  /\ pc \in {"l2"} \cup Deleting => cur <= stop
  /\ pc = "ptw" => cur < stop
  /\ pc \in {"syncmap", "sync"} => at = lim
  /\ pc = "ptwlast" => hole
  /\ kind = "map" => /\ \A p \in owned : ~(start <= p /\ p < end)
                     /\ PhysOffset <= paddr
                     /\ paddr + (end - start) <= Wrap + PhysOffset

LEMMA ExtentInit == Init => Extent
<1> SUFFICES ASSUME Init PROVE Extent
  OBVIOUS
<1>1. kind = "idle" /\ pc = "idle" /\ at = 0 /\ lim = 0 /\ end = 0
  BY DEF Init
<1> QED BY <1>1 DEF Extent, Preparing, Deleting

LEMMA ExtentStep == Typed /\ Extent /\ [Next]_vars => Extent'
<1> SUFFICES ASSUME Typed, Extent, [Next]_vars PROVE Extent'
  OBVIOUS
<1>1. /\ start \in Nat /\ end \in Nat /\ paddr \in Nat /\ at \in Nat
      /\ stop \in Nat /\ cur \in Nat /\ lim \in Nat /\ start <= at
      /\ owned \in SUBSET Pages /\ Pages \subseteq Nat
      /\ pc \in {"l1", "l2"} => at <= cur
      /\ PhysOffset \in Nat /\ Wrap \in Nat
      /\ pc \in {"l1", "l2", "inval", "del", "ptw", "ptwlast"} => at <= stop
  BY IommuPgtableAssumption, Numbers DEF Typed, TypeOK, Located, Pages
<1> USE DEF Preparing, Deleting
<1>a. CASE RequestMap
  <2> PICK r \in Requests, f \in Frames : RequestMap!(r, f)
    BY <1>a DEF RequestMap
  <2>1. /\ r[1] \in Nat /\ r[2] \in Nat /\ r[1] < r[2] /\ f \in Nat
        /\ PhysOffset <= f /\ f + (r[2] - r[1]) <= Wrap + PhysOffset
    BY IommuPgtableAssumption
  <2>2. \A p \in owned : ~(r[1] <= p /\ p < r[2])
    BY <1>1, <2>1
  <2> QED BY <1>1, <2>1, <2>2 DEF Extent, Go, record
<1>b. CASE RequestUnmap
  <2> PICK r \in Requests : RequestUnmap!(r)
    BY <1>b DEF RequestUnmap
  <2>1. r[1] \in Nat /\ r[2] \in Nat /\ r[1] < r[2]
    BY IommuPgtableAssumption
  <2> QED BY <1>1, <2>1 DEF Extent, Go, record
<1>c. CASE MapPiece \/ UnmapPiece
  <2>1. PICK s \in Fitting : stop' = at + s
    BY <1>c DEF MapPiece, UnmapPiece, Largest, FittingMap
  <2>2. s \in Nat /\ at + s <= lim
    BY <2>1, IommuPgtableAssumption DEF Fitting
  <2>3. CASE MapPiece
    BY <1>1, <2>1, <2>2, <2>3 DEF Extent, Go, request, record, MapPiece
  <2>4. CASE UnmapPiece
    BY <1>1, <2>1, <2>2, <2>4 DEF Extent, Go, request, record, UnmapPiece
  <2> QED BY <1>c, <2>3, <2>4
<1>d. CASE MapDone \/ UnmapDone \/ Invalidate \/ PrepareL1Done
  BY <1>1, <1>d DEF Extent, Go, request, record, MapDone, UnmapDone, Invalidate,
                    PrepareL1Done
<1>e. CASE PrepareL1
  BY <1>1, <1>e DEF Extent, request, record, PrepareL1
<1>f. CASE PrepareL1Fails
  BY <1>1, <1>f DEF Extent, Go, request, record, PrepareL1Fails
<1>g. CASE PrepareL2
  <2>1. ChunkEnd \in Nat /\ ChunkEnd <= stop
    BY <1>1, <1>g, ChunkBounds DEF PrepareL2
  <2> QED BY <1>1, <1>g, <2>1 DEF Extent, request, record, PrepareL2
<1>h. CASE PrepareL2Done \/ DeleteL2Done
  BY <1>1, <1>h DEF Extent, Go, request, record, PrepareL2Done, DeleteL2Done
<1>i. CASE SyncMap \/ Sync
  BY <1>1, <1>i DEF Extent, Go, SyncMap, Sync
<1>j. CASE DeleteL2
  BY <1>1, <1>j DEF Extent, request, record, DeleteL2
<1>k. CASE DeleteL2Fails
  BY <1>1, <1>k DEF Extent, Go, request, record, DeleteL2Fails
<1>n. CASE InvalidatePtwLast
  BY <1>1, <1>n DEF Extent, Go, request, record, InvalidatePtwLast
<1>m. CASE InvalidatePtw
  <2>1. ChunkEnd \in Nat /\ cur < ChunkEnd /\ ChunkEnd <= stop
    BY <1>1, <1>m, ChunkBounds DEF InvalidatePtw, Go, Extent
  <2> QED BY <1>1, <1>m, <2>1 DEF Extent, Go, request, record, InvalidatePtw
<1>o. CASE DomainFree
  BY <1>1, <1>o DEF Extent, Go, request, DomainFree
<1>l. CASE UNCHANGED vars
  BY <1>l DEF Extent, vars, tables, record, request
<1> QED BY <1>a, <1>b, <1>c, <1>d, <1>e, <1>f, <1>g, <1>h, <1>i, <1>j, <1>k, <1>l, <1>m, <1>n,
           <1>o
        DEF Next, MapStep, UnmapStep

\* What has been done of the request lies before Front, the rest behind it.
Front == IF pc \in {"l2", "inval", "del", "ptwlast"} THEN cur
         ELSE IF pc = "ptw" THEN ChunkEnd ELSE at

\* Page p is mapped: it is owned and not unmapped yet, or mapped already by
\* the map under way and not yet taken back.
Held(p) == IF kind = "unmap" THEN p \in owned /\ ~(start <= p /\ p < Front)
           ELSE \/ p \in owned
                \/ pc \in Preparing /\ start <= p /\ p < Front
                \/ pc \notin Preparing /\ kind = "map" /\ Front <= p /\ p < lim

Accounted == ~hole => \A p \in Pages : Lookup(p) # NoFrame <=> Held(p)

\* The pages mapped so far lead where the request says.
Placed == pc \in Preparing /\ ~hole =>
            \A p \in Pages : start <= p /\ p < Front => IovaToPhys(p) = Image(p)

LEMMA PageDir ==
  ASSUME NEW p \in Nat, p < Dirs * Entries
  PROVE  Dir(p) = p \div Entries
<1> DEFINE q == p \div Entries  r == p % Entries  d == Dirs
<1>1. q \in Nat /\ r \in Nat /\ p = q * Entries + r
  BY Numbers, Remainder
<1>2. d \in Nat /\ d # 0 /\ Entries \in Nat /\ Entries # 0 /\ p < d * Entries
  BY Numbers
<1> HIDE DEF q, r, d
<1>3. q * Entries < d * Entries
  BY <1>1, <1>2, SMT
<1>4. q < d
  BY <1>1, <1>2, <1>3, SMT
<1>5. q % d = q
  BY <1>1, <1>2, <1>4, SMT
<1> QED BY <1>5 DEF Dir, q, d

\* The pages of a chunk are those whose entries it takes from the table of cur.
LEMMA InChunk ==
  ASSUME cur \in Nat, stop \in Nat, cur < stop, stop <= Dirs * Entries,
         NEW p \in Pages
  PROVE  /\ Dir(p) = Dir(cur) /\ Index(p) \in Chunk <=> cur <= p /\ p < ChunkEnd
         /\ cur <= p /\ p < ChunkEnd => Index(p) - Index(cur) = p - cur
         /\ WholeTable /\ Dir(p) = Dir(cur) => cur <= p /\ p < ChunkEnd
<1> DEFINE n == Dirs * Entries
           q == cur \div Entries  r == cur % Entries  z == q * Entries
           u == p \div Entries    v == p % Entries    w == u * Entries
           e == (q + 1) * Entries
<1>1. n \in Nat /\ p \in Nat /\ p < n /\ cur < n
  <2>1. n \in Nat /\ stop <= n /\ p \in 0 .. (n - 1)
    BY Numbers DEF Pages
  <2> HIDE DEF n
  <2> QED BY <2>1
<1>2. Dir(p) = u /\ Dir(cur) = q
  BY <1>1, PageDir
<1>3. /\ q \in Nat /\ r \in Nat /\ r < Entries /\ cur = z + r
      /\ u \in Nat /\ v \in Nat /\ v < Entries /\ p = w + v
  BY <1>1, Numbers, Remainder
<1>4. z \in Nat /\ w \in Nat /\ e = z + Entries
  <2> HIDE DEF q, u
  <2> QED BY <1>3, Numbers, SMT
<1>5. u < q => w + Entries <= z
  <2> HIDE DEF q, u
  <2> QED BY <1>3, Numbers, SMT
<1>6. q < u => z + Entries <= w
  <2> HIDE DEF q, u
  <2> QED BY <1>3, Numbers, SMT
<1>7. ChunkEnd = IF e > stop THEN stop ELSE e
  BY DEF ChunkEnd
<1>8. Index(cur) = r /\ Index(p) = v
  BY DEF Index
<1>9. v \in Chunk <=> r <= v /\ v < r + (ChunkEnd - cur)
  BY <1>3, <1>8, Numbers DEF Chunk
<1>10. u = q => w = z
  OBVIOUS
<1>11. Entries \in Nat /\ Entries # 0
  BY Numbers
<1> HIDE DEF n, q, r, z, u, v, w, e
<1>12. CASE u = q
  <2>1. w = z
    BY <1>10, <1>12
  <2> QED BY <1>2, <1>3, <1>4, <1>7, <1>8, <1>9, <1>11, <1>12, <2>1 DEF WholeTable
<1>13. CASE u < q
  BY <1>2, <1>3, <1>4, <1>5, <1>7, <1>8, <1>11, <1>13 DEF WholeTable
<1>14. CASE q < u
  BY <1>2, <1>3, <1>4, <1>6, <1>7, <1>8, <1>11, <1>14 DEF WholeTable
<1> QED BY <1>3, <1>12, <1>13, <1>14

\* A new table is empty, as was the directory entry it is put in.
LEMMA LookupKept ==
  ASSUME Typed, Sound, Untouched \/ PrepareL1, NEW p \in Pages
  PROVE  Lookup(p)' = Lookup(p)
<1>1. /\ pgtable \in [0 .. (Dirs - 1) -> Tables \cup {NoTable}]
      /\ pte \in [Tables -> [0 .. (Entries - 1) -> Entry]]
      /\ slab \in SUBSET Tables /\ NoTable \notin Tables /\ cur \in Nat
  BY IommuPgtableAssumption DEF Typed, TypeOK, Entry
<1>2. CASE UNCHANGED <<pgtable, pte>>
  BY <1>2 DEF Lookup, Dir, Index
<1>3. CASE PrepareL1 /\ ~UNCHANGED tables
  <2> DEFINE d0 == Dir(cur)  d == Dir(p)  i == Index(p)
  <2>1. PICK t \in slab : /\ pgtable' = [pgtable EXCEPT ![d0] = t]
                          /\ pte' = [pte EXCEPT ![t] = Zeroed]
                          /\ pgtable[d0] = NoTable
    BY <1>3 DEF PrepareL1
  <2>2. d0 \in 0 .. (Dirs - 1) /\ d \in 0 .. (Dirs - 1) /\ i \in 0 .. (Entries - 1)
    <3>1. p \in Nat
      BY Numbers DEF Pages
    <3> QED BY <1>1, <3>1, DirInTable
  <2>3. pgtable[d] # t
    BY <1>1, <2>2 DEF Sound, TablesOwned
  <2>4. Zeroed[i] = NoFrame
    BY <2>2 DEF Zeroed
  <2>5. Lookup(p) = IF pgtable[d] = NoTable THEN NoFrame ELSE pte[pgtable[d]][i]
    BY DEF Lookup
  <2>6. Lookup(p)' = IF pgtable'[d] = NoTable THEN NoFrame ELSE pte'[pgtable'[d]][i]
    BY DEF Lookup, Dir, Index
  <2> HIDE DEF d0, d, i
  <2>7. CASE d = d0
    <3>1. pgtable'[d] = t /\ pte'[t] = Zeroed
      BY <1>1, <2>1, <2>2, <2>7
    <3> QED BY <2>1, <2>4, <2>5, <2>6, <2>7, <3>1
  <2>8. CASE d # d0
    <3>1. pgtable'[d] = pgtable[d]
      BY <1>1, <2>1, <2>2, <2>8
    <3>2. pgtable[d] # NoTable => pte'[pgtable[d]] = pte[pgtable[d]]
      BY <1>1, <2>1, <2>2, <2>3
    <3> QED BY <2>5, <2>6, <3>1, <3>2
  <2> QED BY <2>7, <2>8
<1> QED BY <1>2, <1>3, UntouchedTables DEF tables

\* A chunk is written, and nothing else, since no other directory entry leads to
\* its table.
LEMMA LookupMapped ==
  ASSUME Typed, Sound, Prepared, PrepareL2, stop <= Dirs * Entries, NEW p \in Pages
  PROVE  Lookup(p)' = IF cur <= p /\ p < ChunkEnd THEN PteFrame(Image(at), p - at)
                                                  ELSE Lookup(p)
<1>1. /\ pgtable \in [0 .. (Dirs - 1) -> Tables \cup {NoTable}]
      /\ pte \in [Tables -> [0 .. (Entries - 1) -> Entry]]
      /\ NoTable \notin Tables /\ cur \in Nat /\ stop \in Nat /\ at \in Nat
      /\ cur < stop /\ pc = "l2" /\ at <= cur
  BY IommuPgtableAssumption DEF Typed, TypeOK, Entry, PrepareL2, Located
<1> DEFINE d0 == Dir(cur)  d == Dir(p)  i == Index(p)  t == pgtable[d0]
           f == [j \in 0 .. (Entries - 1) |->
                   IF j \in Chunk THEN PteFrame(Image(at), cur - at + j - Index(cur))
                                  ELSE pte[t][j]]
<1>2. pgtable' = pgtable /\ pte' = [pte EXCEPT ![t] = f]
  BY DEF PrepareL2
<1>3. /\ d0 \in 0 .. (Dirs - 1) /\ d \in 0 .. (Dirs - 1) /\ i \in 0 .. (Entries - 1)
      /\ p \in Nat /\ i \in Nat /\ Index(cur) \in Nat
  <2>1. p \in Nat
    BY Numbers DEF Pages
  <2>2. Index(p) \in 0 .. (Entries - 1) /\ Index(cur) \in 0 .. (Entries - 1)
    BY <1>1, <2>1, DirInTable
  <2> QED BY <1>1, <2>1, <2>2, DirInTable, Numbers
<1>4. t \in Tables
  BY <1>1, <1>3 DEF Prepared
<1>5. \A e \in 0 .. (Dirs - 1) : pgtable[e] = t => e = d0
  BY <1>1, <1>3, <1>4 DEF Sound, TablesOwned
<1>6. Lookup(p) = IF pgtable[d] = NoTable THEN NoFrame ELSE pte[pgtable[d]][i]
  BY DEF Lookup
<1>7. Lookup(p)' = IF pgtable[d] = NoTable THEN NoFrame ELSE pte'[pgtable[d]][i]
  BY <1>2 DEF Lookup, Dir, Index
<1>8. /\ d = d0 /\ i \in Chunk <=> cur <= p /\ p < ChunkEnd
      /\ cur <= p /\ p < ChunkEnd => i - Index(cur) = p - cur
  BY <1>1, InChunk
<1>9. CASE d # d0
  <2>1. pgtable[d] # NoTable => pte'[pgtable[d]] = pte[pgtable[d]]
    <3> HIDE DEF t, d0, d, f
    <3> QED BY <1>1, <1>2, <1>3, <1>5, <1>9
  <2> QED BY <1>6, <1>7, <1>8, <1>9, <2>1
<1>10. CASE d = d0
  <2>1. Lookup(p)' = f[i] /\ Lookup(p) = pte[t][i]
    <3> HIDE DEF f
    <3> QED BY <1>1, <1>2, <1>4, <1>6, <1>7, <1>10
  <2>2. f[i] = IF i \in Chunk THEN PteFrame(Image(at), cur - at + i - Index(cur))
                              ELSE pte[t][i]
    BY <1>3
  <2>3. cur <= p /\ p < ChunkEnd => cur - at + i - Index(cur) = p - at
    <3> HIDE DEF i
    <3> QED BY <1>1, <1>3, <1>8
  <2> HIDE DEF f
  <2> QED BY <1>8, <1>10, <2>1, <2>2, <2>3
<1> QED BY <1>9, <1>10

\* A chunk is cleared, and nothing else: a table that is freed has no other page.
LEMMA LookupCleared ==
  ASSUME Typed, Sound, DeleteL2, stop <= Dirs * Entries, NEW p \in Pages
  PROVE  Lookup(p)' = IF cur <= p /\ p < ChunkEnd THEN NoFrame ELSE Lookup(p)
<1>1. /\ pgtable \in [0 .. (Dirs - 1) -> Tables \cup {NoTable}]
      /\ pte \in [Tables -> [0 .. (Entries - 1) -> Entry]]
      /\ NoTable \notin Tables /\ cur \in Nat /\ stop \in Nat /\ cur < stop
  BY IommuPgtableAssumption DEF Typed, TypeOK, Entry, DeleteL2
<1> DEFINE d0 == Dir(cur)  d == Dir(p)  i == Index(p)  t == pgtable[d0]
<1>2. /\ t # NoTable /\ pte' = [pte EXCEPT ![t] = Cleared(t)]
      /\ \/ WholeTable /\ pgtable' = [pgtable EXCEPT ![d0] = NoTable]
         \/ ~WholeTable /\ pgtable' = pgtable
  BY DEF DeleteL2
<1>3. /\ d0 \in 0 .. (Dirs - 1) /\ d \in 0 .. (Dirs - 1) /\ i \in 0 .. (Entries - 1)
  <2>1. p \in Nat
    BY Numbers DEF Pages
  <2> QED BY <1>1, <2>1, DirInTable
<1>4. t \in Tables
  BY <1>1, <1>2, <1>3
<1>5. \A e \in 0 .. (Dirs - 1) : pgtable[e] = t => e = d0
  BY <1>1, <1>3, <1>4 DEF Sound, TablesOwned
<1>6. Lookup(p) = IF pgtable[d] = NoTable THEN NoFrame ELSE pte[pgtable[d]][i]
  BY DEF Lookup
<1>7. Lookup(p)' = IF pgtable'[d] = NoTable THEN NoFrame ELSE pte'[pgtable'[d]][i]
  BY DEF Lookup, Dir, Index
<1>8. /\ d = d0 /\ i \in Chunk <=> cur <= p /\ p < ChunkEnd
      /\ WholeTable /\ d = d0 => cur <= p /\ p < ChunkEnd
  BY <1>1, InChunk
<1>9. CASE d # d0
  <2>1. /\ pgtable'[d] = pgtable[d]
        /\ pgtable[d] # NoTable => pte'[pgtable[d]] = pte[pgtable[d]]
    <3> HIDE DEF t, d0, d
    <3> QED BY <1>1, <1>2, <1>3, <1>5, <1>9
  <2> QED BY <1>6, <1>7, <1>8, <1>9, <2>1
<1>10. CASE d = d0 /\ WholeTable
  <2>1. pgtable'[d] = NoTable
    <3> HIDE DEF t, d0, d
    <3> QED BY <1>1, <1>2, <1>3, <1>10
  <2> QED BY <1>7, <1>8, <1>10, <2>1
<1>11. CASE d = d0 /\ ~WholeTable
  <2>1. Lookup(p)' = Cleared(t)[i] /\ Lookup(p) = pte[t][i]
    <3>1. pgtable'[d] = t /\ pgtable[d] = t /\ t # NoTable
      BY <1>2, <1>11
    <3>2. pte'[t] = Cleared(t)
      <4> HIDE DEF t
      <4> QED BY <1>1, <1>2, <1>4
    <3> QED BY <1>6, <1>7, <3>1, <3>2
  <2>2. Cleared(t)[i] = IF i \in Chunk THEN NoFrame ELSE pte[t][i]
    BY <1>3 DEF Cleared
  <2> HIDE DEF i, t
  <2> QED BY <1>8, <1>11, <2>1, <2>2
<1> QED BY <1>9, <1>10, <1>11

Context == Typed /\ Sound /\ Prepared /\ Extent

\* Nothing is found in the tables of a domain that is freed.
LEMMA LookupFreed ==
  ASSUME Typed, DomainFree, NEW p \in Pages
  PROVE  Lookup(p)' = NoFrame
<1>1. Dir(p) \in 0 .. (Dirs - 1)
  <2>1. p \in Nat
    BY Numbers DEF Pages
  <2> QED BY <2>1, DirInTable
<1>2. pgtable' = [d \in 0 .. (Dirs - 1) |-> NoTable]
  BY DEF Typed, TypeOK, DomainFree
<1>3. pgtable'[Dir(p)] = NoTable
  BY <1>1, <1>2
<1> QED BY <1>3 DEF Lookup, Dir

LEMMA Ranges ==
  ASSUME Context
  PROVE  /\ start \in Nat /\ end \in Nat /\ paddr \in Nat /\ at \in Nat
         /\ stop \in Nat /\ cur \in Nat /\ lim \in Nat /\ start <= at
         /\ owned \in SUBSET Pages /\ Pages \subseteq Nat
         /\ pc \in {"l1", "l2"} => at <= cur
         /\ ChunkEnd \in Nat
         /\ cur < stop => cur < ChunkEnd /\ ChunkEnd <= stop
         /\ pc \in {"l2", "del"} => stop <= Dirs * Entries
<1> DEFINE n == Dirs * Entries
<1>1. n \in Nat /\ end <= n
  BY Numbers DEF Context, Typed, Located
<1> HIDE DEF n
<1>2. pc \in {"l2", "del"} => stop <= n
  BY <1>1 DEF Context, Typed, TypeOK, Extent, Deleting
<1> QED BY <1>2, Numbers, ChunkBounds DEF n, Context, Typed, TypeOK, Located, Pages

LEMMA HoleStays == [Next]_vars /\ hole => hole'
BY DEF Next, MapStep, UnmapStep, RequestMap, RequestUnmap, MapPiece, MapDone, PrepareL1,
       PrepareL1Fails, PrepareL1Done, PrepareL2, PrepareL2Done, SyncMap, UnmapPiece,
       UnmapDone, Invalidate, DeleteL2, DeleteL2Fails, InvalidatePtw, InvalidatePtwLast,
       DeleteL2Done, Sync, DomainFree, record, vars

\* The loops move on, and nothing else changes: the same pages are held.
LEMMA HeldKept ==
  ASSUME Context, [Next]_vars, ~hole', Untouched \/ PrepareL1, NEW p \in Pages
  PROVE  Held(p)' <=> Held(p)
<1>1. /\ start \in Nat /\ end \in Nat /\ paddr \in Nat /\ at \in Nat
      /\ stop \in Nat /\ cur \in Nat /\ lim \in Nat /\ start <= at /\ ChunkEnd \in Nat
      /\ p \in Nat
  BY Ranges
<1>2. Extent
  BY DEF Context
<1> USE DEF Held, Front, Preparing, Deleting
<1>a. CASE RequestMap
  BY <1>1, <1>2, <1>a, IommuPgtableAssumption DEF RequestMap, Go, Extent, record
<1>b. CASE RequestUnmap
  BY <1>1, <1>2, <1>b, IommuPgtableAssumption DEF RequestUnmap, Go, Extent, record
<1>c. CASE MapPiece \/ MapDone
  BY <1>1, <1>2, <1>c DEF MapPiece, MapDone, Go, Extent, record, request
<1>d. CASE UnmapPiece \/ UnmapDone \/ Invalidate
  BY <1>1, <1>2, <1>d DEF UnmapPiece, UnmapDone, Invalidate, Go, Extent, record, request
<1>e. CASE PrepareL1 \/ PrepareL1Done
  BY <1>1, <1>2, <1>e DEF PrepareL1, PrepareL1Done, Go, Extent, record, request
<1>f. CASE PrepareL1Fails
  BY <1>1, <1>2, <1>f DEF PrepareL1Fails, Go, Extent, record, request
<1>g. CASE PrepareL2Done \/ DeleteL2Done
  BY <1>1, <1>2, <1>g DEF PrepareL2Done, DeleteL2Done, Go, Extent, record, request
<1>h. CASE SyncMap
  BY <1>1, <1>2, <1>h DEF SyncMap, Go, Extent
<1>i. CASE Sync
  <2>1. pc = "sync" /\ kind' = "idle" /\ pc' = "idle" /\ at = lim
    BY <1>2, <1>i DEF Sync, Go, Extent
  <2>2. owned' = owned \ (start .. (end - 1))
    BY <1>i DEF Sync
  <2>3. CASE kind = "unmap"
    BY <1>1, <1>2, <2>1, <2>2, <2>3 DEF Extent
  <2>4. CASE kind = "map"
    BY <1>1, <1>2, <2>1, <2>2, <2>4 DEF Extent
  <2>5. kind \in {"map", "unmap"}
    BY <1>2, <2>1 DEF Extent, Context, Typed, TypeOK
  <2> QED BY <2>3, <2>4, <2>5
<1>j. CASE DeleteL2Fails \/ InvalidatePtwLast
  BY <1>1, <1>2, <1>j DEF DeleteL2Fails, InvalidatePtwLast, Go, Extent, record
<1>k. CASE InvalidatePtw
  BY <1>1, <1>2, <1>k DEF InvalidatePtw, Go, Extent, record, request
<1>l. CASE UNCHANGED vars
  BY <1>l DEF vars, tables, request, record, ChunkEnd
<1> QED BY <1>a, <1>b, <1>c, <1>d, <1>e, <1>f, <1>g, <1>h, <1>i, <1>j, <1>k, <1>l
        DEF Untouched

LEMMA AccountedStep == Context /\ Accounted /\ [Next]_vars => Accounted'
<1> SUFFICES ASSUME Context, Accounted, [Next]_vars, ~hole', NEW p \in Pages
             PROVE  Lookup(p)' # NoFrame <=> Held(p)'
  BY DEF Accounted, Pages
<1>1. Lookup(p) # NoFrame <=> Held(p)
  BY HoleStays DEF Accounted
<1>2. /\ start \in Nat /\ end \in Nat /\ paddr \in Nat /\ at \in Nat
      /\ stop \in Nat /\ cur \in Nat /\ lim \in Nat /\ start <= at /\ ChunkEnd \in Nat
      /\ p \in Nat /\ NoFrame \notin Nat
      /\ cur < stop => cur < ChunkEnd /\ ChunkEnd <= stop
      /\ pc \in {"l1", "l2"} => at <= cur
  BY Ranges, IommuPgtableAssumption
<1>3. Typed /\ Sound /\ Prepared /\ Extent
  BY DEF Context
<1>a. CASE Untouched \/ PrepareL1
  <2>1. Lookup(p)' = Lookup(p)
    BY <1>3, <1>a, LookupKept
  <2>2. Held(p)' <=> Held(p)
    BY <1>a, HeldKept
  <2> QED BY <1>1, <2>1, <2>2
<1>b. CASE PrepareL2
  <2>1. /\ pc = "l2" /\ pc' = "l2" /\ cur < stop /\ cur' = ChunkEnd
        /\ UNCHANGED <<kind, start, at, lim, owned>>
    BY <1>b DEF PrepareL2, request, record
  <2>2. Lookup(p)' = IF cur <= p /\ p < ChunkEnd THEN PteFrame(Image(at), p - at)
                                                 ELSE Lookup(p)
    BY <1>3, <1>b, <2>1, Ranges, LookupMapped
  <2>3. cur <= p /\ p < ChunkEnd => PteFrame(Image(at), p - at) # NoFrame
    <3> SUFFICES ASSUME cur <= p PROVE PteFrame(Image(at), p - at) # NoFrame
      OBVIOUS
    <3>1. Image(at) \in Nat /\ p - at \in Nat
      BY <1>2, <2>1 DEF Image
    <3>2. PteFrame(Image(at), p - at) \in 0 .. (Wrap - 1) /\ Wrap \in Nat
      BY <3>1, FrameInWindow, IommuPgtableAssumption
    <3> QED BY <1>2, <3>2
  <2>4. Held(p)' <=> Held(p) \/ (cur <= p /\ p < ChunkEnd)
    BY <1>2, <1>3, <2>1 DEF Held, Front, Preparing, Extent
  <2> QED BY <1>1, <2>2, <2>3, <2>4
<1>c. CASE DeleteL2
  <2>1. /\ pc = "del" /\ pc' = "ptw" /\ cur < stop /\ ChunkEnd' = ChunkEnd
        /\ UNCHANGED <<kind, start, at, lim, owned>>
    BY <1>c DEF DeleteL2, request, record, ChunkEnd
  <2>2. Lookup(p)' = IF cur <= p /\ p < ChunkEnd THEN NoFrame ELSE Lookup(p)
    BY <1>3, <1>c, <2>1, Ranges, LookupCleared
  <2>3. Held(p)' <=> Held(p) /\ ~(cur <= p /\ p < ChunkEnd)
    <3>1. /\ at <= cur /\ stop <= lim /\ lim <= end /\ kind \in {"map", "unmap"}
          /\ kind = "map" /\ p \in owned => ~(start <= p /\ p < end)
      BY <1>3, <2>1 DEF Typed, TypeOK, Deleting, Extent
    <3>2. Front = cur /\ Front' = ChunkEnd
      BY <2>1 DEF Front
    <3>3. CASE kind = "unmap"
      BY <1>2, <2>1, <3>1, <3>2, <3>3 DEF Held
    <3>4. CASE kind = "map"
      BY <1>2, <2>1, <3>1, <3>2, <3>4 DEF Held, Preparing
    <3> QED BY <3>1, <3>3, <3>4
  <2> QED BY <1>1, <2>2, <2>3
<1>d. CASE DomainFree
  <2>1. Lookup(p)' = NoFrame
    BY <1>3, <1>d, LookupFreed
  <2>2. pc' = "freed" /\ owned' = {} /\ kind' = "idle"
    BY <1>3, <1>d DEF DomainFree, Go, Extent, request
  <2>3. ~Held(p)'
    BY <2>2 DEF Held, Preparing
  <2> QED BY <2>1, <2>3
<1> QED BY <1>a, <1>b, <1>c, <1>d, Steps

\* While pages are being mapped, the other steps do not move the front.
LEMMA FrontKept ==
  ASSUME Context, [Next]_vars, Untouched \/ PrepareL1, pc' \in Preparing
  PROVE  \/ Front' = start'
         \/ pc \in Preparing /\ Front' = Front /\ UNCHANGED <<start, paddr>>
<1>1. Extent
  BY DEF Context
<1> USE DEF Front, Preparing
<1>a. CASE RequestMap
  BY <1>a DEF RequestMap, Go
<1>b. CASE MapPiece \/ MapDone \/ PrepareL1 \/ PrepareL1Done \/ PrepareL2Done
  BY <1>1, <1>b DEF MapPiece, MapDone, PrepareL1, PrepareL1Done, PrepareL2Done, Go,
                    request, Extent
<1>c. CASE RequestUnmap \/ PrepareL1Fails \/ SyncMap \/ UnmapPiece \/ UnmapDone
           \/ Invalidate \/ DeleteL2Fails \/ InvalidatePtw \/ InvalidatePtwLast
           \/ DeleteL2Done \/ Sync
  BY <1>c DEF RequestUnmap, PrepareL1Fails, SyncMap, UnmapPiece, UnmapDone, Invalidate,
              DeleteL2Fails, InvalidatePtw, InvalidatePtwLast, DeleteL2Done, Sync, Go
<1>d. CASE UNCHANGED vars
  BY <1>d DEF vars, request
<1> QED BY <1>a, <1>b, <1>c, <1>d DEF Untouched

\* A page of a chunk leads to the frame that the request names for it.
LEMMA ChunkPlaced ==
  ASSUME Context, PrepareL2, NEW p \in Pages, cur <= p, p < ChunkEnd
  PROVE  IovaToPhys(p)' = Image(p) /\ Image(p) \in Nat
<1>1. /\ start \in Nat /\ end \in Nat /\ paddr \in Nat /\ at \in Nat /\ p \in Nat
      /\ cur \in Nat /\ start <= at /\ NoFrame \notin Nat
      /\ pc \in {"l1", "l2"} => at <= cur
      /\ pc \in {"l2", "del"} => stop <= Dirs * Entries
      /\ cur < stop => ChunkEnd <= stop
      /\ stop \in Nat /\ lim \in Nat /\ ChunkEnd \in Nat
  BY Ranges, IommuPgtableAssumption
<1>2. pc = "l2" /\ cur < stop
  BY DEF PrepareL2
<1>3. /\ kind = "map" /\ stop <= lim /\ lim <= end /\ PhysOffset <= paddr
      /\ paddr + (end - start) <= Wrap + PhysOffset
  BY <1>2 DEF Context, Extent, Preparing
<1>4. Lookup(p)' = PteFrame(Image(at), p - at)
  BY <1>1, <1>2, LookupMapped DEF Context
<1>5. Wrap \in Nat /\ PhysOffset \in Nat
  BY IommuPgtableAssumption
<1>6. /\ Image(at) \in Nat /\ p - at \in Nat /\ PhysOffset <= Image(at)
      /\ Image(at) + (p - at) < Wrap + PhysOffset /\ Image(at) + (p - at) = Image(p)
      /\ Image(p) \in Nat
  BY <1>1, <1>2, <1>3, <1>5 DEF Image
<1>7. IommuPhyToCpuPhy(PteFrame(Image(at), p - at)) = Image(p)
  BY <1>6, FrameRoundTrip
<1>8. Lookup(p)' # NoFrame
  BY <1>1, <1>4, <1>5, <1>6, FrameInWindow
<1> QED BY <1>4, <1>6, <1>7, <1>8 DEF IovaToPhys

LEMMA PlacedStep == Context /\ Placed /\ [Next]_vars => Placed'
<1> SUFFICES ASSUME Context, Placed, [Next]_vars, pc' \in Preparing, ~hole',
                    NEW p \in Pages, start' <= p, p < Front'
             PROVE  IovaToPhys(p)' = Image(p)'
  BY DEF Placed, Preparing, Pages
<1>1. pc \in Preparing /\ start <= p /\ p < Front => IovaToPhys(p) = Image(p)
  BY HoleStays DEF Placed
<1>a. CASE Untouched \/ PrepareL1
  <2>1. Lookup(p)' = Lookup(p)
    BY <1>a, LookupKept DEF Context
  <2>2. pc \in Preparing /\ Front' = Front /\ UNCHANGED <<start, paddr>>
    <3>1. start' \in Nat /\ p \in Nat
      BY TypedStep, Ranges DEF Context, Typed, TypeOK
    <3> QED BY <1>a, <3>1, FrontKept
  <2> QED BY <1>1, <2>1, <2>2 DEF IovaToPhys, Image
<1>b. CASE PrepareL2
  <2>1. /\ pc = "l2" /\ pc' = "l2" /\ cur < stop /\ cur' = ChunkEnd
        /\ UNCHANGED <<start, paddr>>
    BY <1>b DEF PrepareL2, request
  <2>2. CASE cur <= p
    <3>1. p < ChunkEnd
      BY <2>1 DEF Front
    <3> QED BY <1>b, <2>1, <2>2, <3>1, ChunkPlaced DEF Image
  <2>3. CASE ~(cur <= p)
    <3>1. Lookup(p)' = Lookup(p)
      BY <1>b, <2>1, <2>3, Ranges, LookupMapped DEF Context
    <3>2. p < Front
      BY <2>1, <2>3, Ranges DEF Front
    <3> QED BY <1>1, <2>1, <3>1, <3>2 DEF IovaToPhys, Image, Preparing
  <2> QED BY <2>2, <2>3
<1>c. CASE DeleteL2 \/ DomainFree
  BY <1>c DEF DeleteL2, DomainFree, Go, Preparing
<1> QED BY <1>a, <1>b, <1>c, Steps

\* All of it, which is inductive.
Books == Context /\ Accounted /\ Placed

LEMMA BooksInit == Init => Books
<1> SUFFICES ASSUME Init PROVE Books
  OBVIOUS
<1>1. Context
  BY TypedInit, SoundInit, ExtentInit DEF Context, Init, Prepared
<1>2. Accounted
  <2> SUFFICES ASSUME NEW p \in Pages PROVE Lookup(p) = NoFrame /\ ~Held(p)
    BY DEF Accounted
  <2>1. Dir(p) \in 0 .. (Dirs - 1)
    <3>1. p \in Nat
      BY Numbers DEF Pages
    <3> QED BY <3>1, DirInTable
  <2> QED BY <2>1 DEF Init, Lookup, Held, Preparing
<1>3. Placed
  BY DEF Init, Placed, Preparing
<1> QED BY <1>1, <1>2, <1>3 DEF Books

LEMMA BooksStep == Books /\ [Next]_vars => Books'
BY TypedStep, SoundStep, PreparedStep, ExtentStep, AccountedStep, PlacedStep
   DEF Books, Context

\* What clients and driver keep account of is what is mapped, at each moment
\* of a request, until an unmap meets a hole.
THEOREM BooksKept == Spec => []Books
BY BooksInit, BooksStep, PTL DEF Spec

\* An entry that is written was empty (WARN_ON(*pent) in
\* sunxi_pgtable_prepare_l2_tables is never met) until an unmap meets a hole.
THEOREM NothingReplaced == Spec => NoOverwrite
<1>1. ASSUME Books, PrepareL2, ~hole, NEW i \in Chunk
      PROVE  pte[pgtable[Dir(cur)]][i] = NoFrame
  <2> DEFINE p == cur + (i - Index(cur))  n == Dirs * Entries
  <2>1. /\ pc = "l2" /\ cur < stop
    BY <1>1 DEF PrepareL2
  <2>2. Context /\ Accounted
    BY <1>1 DEF Books
  <2>3. /\ cur \in Nat /\ stop \in Nat /\ ChunkEnd \in Nat /\ ChunkEnd <= stop /\ stop <= n
        /\ start \in Nat /\ at \in Nat /\ start <= at /\ at <= cur /\ n \in Nat
        /\ lim \in Nat /\ end \in Nat
    BY <2>1, <2>2, Ranges, Numbers
  <2>4. /\ i \in 0 .. (Entries - 1) /\ Index(cur) <= i /\ i < Index(cur) + (ChunkEnd - cur)
        /\ Index(cur) \in Nat
    BY <2>3, DirInTable, Numbers DEF Chunk
  <2>5. p \in Nat /\ cur <= p /\ p < ChunkEnd /\ i = Index(cur) + (p - cur)
    BY <2>3, <2>4
  <2> HIDE DEF p, n
  <2>6. p \in Pages
    BY <2>3, <2>5 DEF Pages, n
  <2>7. Dir(p) = Dir(cur) /\ Index(p) - Index(cur) = p - cur
    BY <2>1, <2>3, <2>5, <2>6, InChunk DEF n
  <2>8. Index(p) = i
    <3>1. Index(p) \in Nat
      BY <2>5, DirInTable, Numbers
    <3> QED BY <2>3, <2>4, <2>5, <2>7, <3>1
  <2>9. p \notin owned /\ kind = "map" /\ stop <= lim /\ lim <= end
    BY <2>1, <2>2, <2>3, <2>5 DEF Context, Extent, Preparing
  <2>10. ~Held(p)
    BY <2>1, <2>3, <2>5, <2>9 DEF Held, Front, Preparing
  <2>11. Lookup(p) = NoFrame
    BY <1>1, <2>2, <2>6, <2>10 DEF Accounted
  <2>12. pgtable[Dir(p)] # NoTable
    BY <2>1, <2>2, <2>3, <2>5 DEF Context, Prepared
  <2> QED BY <2>7, <2>8, <2>11, <2>12 DEF Lookup
<1>2. Books /\ [Next]_vars =>
        [PrepareL2 /\ ~hole => \A i \in Chunk : pte[pgtable[Dir(cur)]][i] = NoFrame]_vars
  BY <1>1
<1> QED BY <1>2, BooksKept, PTL DEF Spec, NoOverwrite

-----------------------------------------------------------------------------
(* The tables implement the address space.                                  *)

LEMMA RefinementInit == Init => AddressSpace!Init
<1> SUFFICES ASSUME Init PROVE AddressSpace!Init
  OBVIOUS
<1>1. ASSUME NEW p \in Pages PROVE IovaToPhys(p) = NoFrame
  <2>1. Dir(p) \in 0 .. (Dirs - 1)
    <3>1. p \in Nat
      BY Numbers DEF Pages
    <3> QED BY <3>1, DirInTable
  <2> QED BY <2>1 DEF Init, IovaToPhys, Lookup
<1> QED BY <1>1 DEF Init, AddressSpace!Init

LEMMA SpaceTyped ==
  ASSUME Typed, NEW p \in Pages
  PROVE  IovaToPhys(p) \in Nat \cup {NoFrame}
<1>1. p \in Nat /\ PhysOffset \in Nat /\ Wrap \in Nat
  BY IommuPgtableAssumption, Numbers DEF Pages
<1>2. Dir(p) \in 0 .. (Dirs - 1) /\ Index(p) \in 0 .. (Entries - 1)
  BY <1>1, DirInTable
<1>3. Lookup(p) \in (0 .. (Wrap - 1)) \cup {NoFrame}
  BY <1>1, <1>2 DEF Typed, TypeOK, Lookup
<1> QED BY <1>1, <1>3 DEF IovaToPhys, IommuPhyToCpuPhy

LEMMA RefinementStep ==
  Books /\ [Next]_vars => [AddressSpace!Next \/ hole']_(AddressSpace!vars)
<1> SUFFICES ASSUME Books, [Next]_vars, ~hole'
             PROVE  [AddressSpace!Next]_(AddressSpace!vars)
  OBVIOUS
<1> DEFINE space == [p \in Pages |-> IovaToPhys(p)]
<1>1. Context /\ Accounted /\ Placed /\ Extent /\ Typed /\ Sound /\ Prepared /\ ~hole
  BY HoleStays DEF Books, Context
<1>2. /\ start \in Nat /\ end \in Nat /\ at \in Nat /\ lim \in Nat /\ start <= at
      /\ owned \in SUBSET Pages /\ Pages \subseteq Nat
      /\ kind \in {"idle", "map", "unmap"}
  BY <1>1, Ranges DEF Typed, TypeOK
<1>3. ASSUME NEW p \in Pages, ~Held(p) PROVE space[p] = NoFrame
  BY <1>1, <1>3 DEF Accounted, IovaToPhys
<1>4. Untouched \/ PrepareL1 => space' = space
  <2> SUFFICES ASSUME Untouched \/ PrepareL1, NEW p \in Pages
               PROVE  IovaToPhys(p)' = IovaToPhys(p)
    BY DEF Pages
  <2>1. Lookup(p)' = Lookup(p)
    BY <1>1, LookupKept
  <2> QED BY <2>1 DEF IovaToPhys
<1>a. CASE RequestMap
  <2>1. PICK r \in Requests, f \in Frames : RequestMap!(r, f)
    BY <1>a DEF RequestMap
  <2>2. r[1] \in Nat /\ r[2] \in Nat /\ f \in Nat
    BY IommuPgtableAssumption
  <2>3. kind = "idle" /\ pc = "idle"
    BY <1>1, <2>1 DEF Extent, Go
  <2>4. ASSUME NEW p \in Pages, start' <= p, p < end' PROVE space[p] = NoFrame
    <3>1. p \notin owned
      BY <1>2, <2>1, <2>2, <2>4
    <3> QED BY <1>3, <2>3, <3>1 DEF Held, Preparing
  <2>5. space' = space
    BY <1>4, <1>a DEF Untouched
  <2>6. /\ kind' = "map" /\ start' \in Nat /\ end' \in Nat /\ paddr' \in Nat
    BY <2>1, <2>2
  <2>7. \A p \in AddressSpace!Range' : space[p] = NoFrame
    BY <2>4 DEF AddressSpace!Range, Pages
  <2> HIDE DEF space
  <2> QED BY <2>3, <2>5, <2>6, <2>7 DEF AddressSpace!Map, AddressSpace!Next, space
<1>b. CASE RequestUnmap
  <2>1. PICK r \in Requests : RequestUnmap!(r)
    BY <1>b DEF RequestUnmap
  <2>2. r[1] \in Nat /\ r[2] \in Nat
    BY IommuPgtableAssumption
  <2>3. kind = "idle"
    BY <1>1, <2>1 DEF Extent, Go
  <2>4. space' = space
    BY <1>4, <1>b DEF Untouched
  <2> QED BY <2>1, <2>2, <2>3, <2>4 DEF AddressSpace!Unmap, AddressSpace!Next
<1>c. CASE SyncMap
  <2>1. pc = "syncmap" /\ kind = "map" /\ at = lim /\ lim = end /\ Front = at
    BY <1>1, <1>c DEF SyncMap, Go, Extent, Preparing, Front
  <2>2. \A p \in Pages : start <= p /\ p < end => space[p] = AddressSpace!Image(p)
    BY <1>1, <2>1 DEF Placed, Preparing, Image, AddressSpace!Image
  <2>3. space' = space /\ kind' = "idle" /\ UNCHANGED <<start, end, paddr>>
    BY <1>4, <1>c DEF Untouched, SyncMap
  <2>4. AddressSpace!Mapped
    BY <2>2 DEF AddressSpace!Mapped, AddressSpace!Range
  <2> QED BY <2>1, <2>3, <2>4 DEF AddressSpace!Finish, AddressSpace!Next
<1>d. CASE Sync
  <2>1. pc = "sync" /\ kind # "idle" /\ at = lim /\ Front = at
    BY <1>1, <1>d DEF Sync, Go, Extent, Front
  <2>2. ASSUME NEW p \in Pages, start <= p, p < end PROVE space[p] = NoFrame
    <3>1. CASE kind = "unmap"
      <4>1. lim = end
        BY <1>1, <3>1 DEF Extent
      <4> QED BY <1>3, <2>1, <2>2, <3>1, <4>1 DEF Held
    <3>2. CASE kind = "map"
      <4>1. p \notin owned
        BY <1>1, <2>2, <3>2 DEF Extent
      <4>2. ~Held(p)
        BY <1>2, <2>1, <3>2, <4>1 DEF Held, Preparing
      <4> QED BY <1>3, <4>2
    <3> QED BY <1>2, <2>1, <3>1, <3>2
  <2>3. space' = space /\ kind' = "idle" /\ UNCHANGED <<start, end, paddr>>
    BY <1>4, <1>d DEF Untouched, Sync
  <2>4. AddressSpace!Unmapped
    BY <2>2 DEF AddressSpace!Unmapped, AddressSpace!Range
  <2> QED BY <1>2, <2>1, <2>3, <2>4 DEF AddressSpace!Finish, AddressSpace!Next
<1>e. CASE PrepareL2 \/ DeleteL2
  <2>1. /\ pc = IF PrepareL2 THEN "l2" ELSE "del"
        /\ cur < stop /\ UNCHANGED <<kind, start, end, paddr>> /\ kind # "idle"
        /\ PrepareL2 => kind = "map"
    BY <1>1, <1>e DEF PrepareL2, DeleteL2, request, Extent, Preparing
  <2>2. /\ stop <= Dirs * Entries /\ cur \in Nat /\ ChunkEnd \in Nat /\ ChunkEnd <= stop
        /\ stop \in Nat /\ start <= cur /\ stop <= end
    <3>1. at <= cur /\ stop <= lim /\ lim <= end
      BY <1>1, <2>1, Ranges DEF Extent, Deleting
    <3> QED BY <1>1, <1>2, <2>1, <3>1, Ranges
  <2>3. ASSUME NEW p \in Pages
        PROVE  \/ space'[p] = space[p]
               \/ p \in AddressSpace!Range /\ space'[p] = NoFrame
               \/ /\ p \in AddressSpace!Range /\ kind = "map"
                  /\ space'[p] = AddressSpace!Image(p)
    <3>1. space'[p] = IovaToPhys(p)' /\ space[p] = IovaToPhys(p)
      BY DEF Pages
    <3>2. CASE cur <= p /\ p < ChunkEnd
      <4>1. p \in AddressSpace!Range
        BY <1>2, <2>2, <3>2 DEF AddressSpace!Range
      <4>2. CASE PrepareL2
        <5>1. IovaToPhys(p)' = Image(p)
          BY <1>1, <3>2, <4>2, ChunkPlaced
        <5> QED BY <2>1, <3>1, <4>1, <4>2, <5>1 DEF AddressSpace!Image, Image
      <4>3. CASE DeleteL2
        <5>1. Lookup(p)' = NoFrame
          BY <1>1, <2>2, <3>2, <4>3, LookupCleared
        <5> QED BY <3>1, <4>1, <5>1 DEF IovaToPhys
      <4> QED BY <1>e, <4>2, <4>3
    <3>3. CASE ~(cur <= p /\ p < ChunkEnd)
      <4>1. Lookup(p)' = Lookup(p)
        BY <1>1, <1>e, <2>2, <3>3, LookupMapped, LookupCleared
      <4> QED BY <3>1, <4>1 DEF IovaToPhys
    <3> QED BY <3>2, <3>3
  <2>4. space' \in [Pages -> Nat \cup {NoFrame}]
    <3>1. \A p \in Pages : IovaToPhys(p)' \in Nat \cup {NoFrame}
      <4>1. \A p \in Pages : IovaToPhys(p) \in Nat \cup {NoFrame}
        BY <1>1, SpaceTyped
      <4> SUFFICES ASSUME NEW p \in Pages
                   PROVE  space'[p] \in Nat \cup {NoFrame}
        BY DEF Pages
      <4>2. AddressSpace!Range \subseteq Pages /\ space[p] \in Nat \cup {NoFrame}
        BY <4>1 DEF AddressSpace!Range
      <4>3. p \in AddressSpace!Range => AddressSpace!Image(p) \in Nat
        <5>1. paddr \in Nat
          BY <1>1, Ranges
        <5> QED BY <1>2, <5>1 DEF AddressSpace!Range, AddressSpace!Image
      <4> QED BY <2>3, <4>2, <4>3
    <3> QED BY <3>1 DEF Pages
  <2>5. AddressSpace!Progress
    BY <2>1, <2>3, <2>4 DEF AddressSpace!Progress
  <2> QED BY <2>5 DEF AddressSpace!Next
<1>f. CASE /\ Untouched \/ PrepareL1
           /\ ~(RequestMap \/ RequestUnmap \/ SyncMap \/ Sync)
  <2>1. UNCHANGED <<kind, start, end, paddr>>
    BY <1>f DEF Untouched, MapPiece, MapDone, PrepareL1, PrepareL1Fails, PrepareL1Done,
                PrepareL2Done, UnmapPiece, UnmapDone, Invalidate, DeleteL2Fails,
                InvalidatePtw, InvalidatePtwLast, DeleteL2Done, request, vars
  <2> QED BY <1>4, <1>f, <2>1 DEF AddressSpace!vars
<1>g. CASE DomainFree
  <2>1. kind = "idle" /\ UNCHANGED <<kind, start, end, paddr>>
    BY <1>1, <1>g DEF DomainFree, Go, Extent, request
  <2>2. \A p \in Pages : IovaToPhys(p)' = NoFrame
    BY <1>1, <1>g, LookupFreed DEF IovaToPhys
  <2>3. space' = [p \in Pages |-> NoFrame]
    BY <2>2 DEF Pages
  <2> QED BY <2>1, <2>3 DEF AddressSpace!Clear, AddressSpace!Next
<1> QED BY <1>a, <1>b, <1>c, <1>d, <1>e, <1>f, <1>g, Steps

\* The tables, entry by entry, with failing allocations and in whichever pieces,
\* implement an address space whose requests are all-or-nothing and touch no
\* page but their own, until an unmap meets a hole.
THEOREM Refinement == Spec => ImplementsAddressSpace
BY RefinementInit, RefinementStep, BooksKept, PTL DEF Spec, ImplementsAddressSpace
=============================================================================
