---------------------------- MODULE VeDmaBufProofs ----------------------------
(***************************************************************************)
(* Theorems about VeDmaBuf, for any processes, descriptors and buffers: the *)
(* accounts of what is referenced, attached and mapped, and what clients    *)
(* know of the list of mappings.  Both count places of a list, calls and    *)
(* descriptors; the first sections say how such counts change.              *)
(***************************************************************************)
EXTENDS VeDmaBuf, SequenceTheorems, FiniteSetTheorems, TLAPS

\* Two finite sets that differ in one element at most.
LEMMA CountAt ==
  ASSUME NEW A, NEW B, NEW x, IsFiniteSet(A), A \ {x} = B \ {x}
  PROVE  /\ IsFiniteSet(B)
         /\ Cardinality(A) \in Nat /\ Cardinality(B) \in Nat
         /\ Cardinality(B) = Cardinality(A) - (IF x \in A THEN 1 ELSE 0)
                                            + (IF x \in B THEN 1 ELSE 0)
<1>1. IsFiniteSet(A \ {x}) BY FS_RemoveElement
<1>2. B \subseteq (A \ {x}) \cup {x} OBVIOUS
<1>3. IsFiniteSet(B) BY <1>1, <1>2, FS_AddElement, FS_Subset
<1>4. Cardinality(A) \in Nat /\ Cardinality(B) \in Nat BY <1>3, FS_CardinalityType
<1>5. Cardinality(A \ {x}) = Cardinality(A) - (IF x \in A THEN 1 ELSE 0)
  BY <1>4, FS_RemoveElement
<1>6. Cardinality(B \ {x}) = Cardinality(B) - (IF x \in B THEN 1 ELSE 0)
  BY <1>3, <1>4, FS_RemoveElement
<1> QED BY <1>3, <1>4, <1>5, <1>6

\* The places of a sequence whose elements are in T.
Places(s, T) == {i \in DOMAIN s : s[i] \in T}

LEMMA PlacesFinite ==
  ASSUME NEW R, NEW s \in Seq(R), NEW T
  PROVE  /\ IsFiniteSet(Places(s, T)) /\ Cardinality(Places(s, T)) \in Nat
         /\ Places(s, T) # {} => Cardinality(Places(s, T)) > 0
<1>1. DOMAIN s = 1 .. Len(s) /\ Len(s) \in Nat BY LenProperties
<1>2. IsFiniteSet(DOMAIN s) BY <1>1, FS_Interval
<1>3. IsFiniteSet(Places(s, T)) BY <1>2, FS_Subset DEF Places
<1> QED BY <1>3, FS_CardinalityType, FS_EmptySet

\* One more element, one more place if it is in T.
LEMMA PlacesAppend ==
  ASSUME NEW R, NEW s \in Seq(R), NEW e \in R, NEW T
  PROVE  /\ Append(s, e) \in Seq(R)
         /\ Cardinality(Places(Append(s, e), T))
              = Cardinality(Places(s, T)) + (IF e \in T THEN 1 ELSE 0)
<1> DEFINE n == Len(s) + 1
<1>1. /\ Append(s, e) \in Seq(R) /\ n \in Nat /\ DOMAIN s = 1 .. Len(s)
      /\ DOMAIN Append(s, e) = (1 .. Len(s)) \cup {n} /\ n \notin DOMAIN s
      /\ \A i \in 1 .. Len(s) : Append(s, e)[i] = s[i]
      /\ Append(s, e)[n] = e
  BY AppendProperties, LenProperties
<1> HIDE DEF n
<1>2. Places(s, T) \ {n} = Places(Append(s, e), T) \ {n} BY <1>1 DEF Places
<1>3. n \notin Places(s, T) /\ (n \in Places(Append(s, e), T) <=> e \in T) BY <1>1 DEF Places
<1>4. IsFiniteSet(Places(s, T)) /\ Cardinality(Places(s, T)) \in Nat BY PlacesFinite
<1>5. Cardinality(Places(Append(s, e), T))
        = Cardinality(Places(s, T)) - (IF n \in Places(s, T) THEN 1 ELSE 0)
                                    + (IF n \in Places(Append(s, e), T) THEN 1 ELSE 0)
  BY <1>2, <1>4, CountAt
<1> QED BY <1>1, <1>3, <1>4, <1>5

\* Where the elements of a sequence are once element k is removed.
LEMMA RemoveAtIs ==
  ASSUME NEW R, NEW s \in Seq(R), NEW k \in 1 .. Len(s)
  PROVE  /\ RemoveAt(s, k) \in Seq(R)
         /\ DOMAIN RemoveAt(s, k) = 1 .. Len(s) - 1
         /\ \A j \in 1 .. Len(s) - 1 : RemoveAt(s, k)[j] = s[IF j < k THEN j ELSE j + 1]
<1>1. Len(s) \in Nat BY LenProperties
<1> DEFINE a == SubSeq(s, 1, k - 1)
           z == SubSeq(s, k + 1, Len(s))
<1>2. /\ a \in Seq(R) /\ Len(a) = k - 1 /\ \A j \in 1 .. k - 1 : a[j] = s[j]
  <2>1. k - 1 \in 1 - 1 .. Len(s) /\ 1 \in 1 .. Len(s) + 1 BY <1>1
  <2> QED BY <1>1, <2>1, SubSeqProperties
<1>3. /\ z \in Seq(R) /\ Len(z) = Len(s) - k /\ \A j \in 1 .. Len(s) - k : z[j] = s[j + k]
  <2>1. k + 1 \in 1 .. Len(s) + 1 /\ Len(s) \in (k + 1) - 1 .. Len(s) BY <1>1
  <2>2. /\ z \in Seq(R) /\ Len(z) = IF k + 1 <= Len(s) THEN Len(s) - (k + 1) + 1 ELSE 0
        /\ \A j \in 1 .. Len(s) - (k + 1) + 1 : z[j] = s[k + 1 + j - 1]
    BY <1>1, <2>1, SubSeqProperties
  <2> QED BY <1>1, <2>2
<1> HIDE DEF a, z
<1>4. /\ a \o z \in Seq(R) /\ Len(a \o z) = Len(s) - 1
      /\ \A j \in 1 .. k - 1 : (a \o z)[j] = s[j]
      /\ \A j \in k .. Len(s) - 1 : (a \o z)[j] = s[j + 1]
  <2>1. a \o z \in Seq(R) /\ Len(a \o z) = Len(a) + Len(z) /\
        \A i \in 1 .. Len(a) + Len(z) : (a \o z)[i] = IF i <= Len(a) THEN a[i] ELSE z[i - Len(a)]
    BY <1>2, <1>3, ConcatProperties
  <2>2. ASSUME NEW j \in k .. Len(s) - 1 PROVE (a \o z)[j] = s[j + 1]
    <3>1. (a \o z)[j] = z[j - (k - 1)] BY <1>1, <1>2, <1>3, <2>1, <2>2
    <3>2. j - (k - 1) \in 1 .. Len(s) - k /\ j - (k - 1) + k = j + 1 BY <1>1, <2>2
    <3> QED BY <1>3, <3>1, <3>2
  <2> QED BY <1>1, <1>2, <1>3, <2>1, <2>2
<1>5. RemoveAt(s, k) = a \o z BY DEF RemoveAt, a, z
<1>6. DOMAIN RemoveAt(s, k) = 1 .. Len(s) - 1 BY <1>1, <1>4, <1>5, LenProperties
<1>7. ASSUME NEW j \in 1 .. Len(s) - 1
      PROVE  RemoveAt(s, k)[j] = s[IF j < k THEN j ELSE j + 1]
  <2>1. CASE j < k
    <3>1. j \in 1 .. k - 1 BY <1>1, <2>1
    <3> QED BY <1>4, <1>5, <2>1, <3>1
  <2>2. CASE ~(j < k)
    <3>1. j \in k .. Len(s) - 1 BY <1>1, <2>2
    <3> QED BY <1>4, <1>5, <2>2, <3>1
  <2> QED BY <2>1, <2>2
<1> QED BY <1>4, <1>5, <1>6, <1>7

\* One element less, one place less if it was in T.
LEMMA PlacesRemoveAt ==
  ASSUME NEW R, NEW s \in Seq(R), NEW k \in 1 .. Len(s), NEW T
  PROVE  Cardinality(Places(RemoveAt(s, k), T))
           = Cardinality(Places(s, T)) - (IF s[k] \in T THEN 1 ELSE 0)
<1> DEFINE r == RemoveAt(s, k)
           A == Places(r, T)
           B == Places(s, T) \ {k}
           g == [j \in A |-> IF j < k THEN j ELSE j + 1]
<1>1. /\ Len(s) \in Nat /\ DOMAIN s = 1 .. Len(s) BY LenProperties
<1>2. /\ r \in Seq(R) /\ DOMAIN r = 1 .. Len(s) - 1
      /\ \A j \in 1 .. Len(s) - 1 : r[j] = s[IF j < k THEN j ELSE j + 1]
  BY RemoveAtIs
<1> HIDE DEF r
<1>3. A \subseteq 1 .. Len(s) - 1 /\ B \subseteq 1 .. Len(s) BY <1>1, <1>2 DEF Places
<1>4. g \in [A -> B]
  <2> SUFFICES ASSUME NEW j \in A PROVE (IF j < k THEN j ELSE j + 1) \in B
    OBVIOUS
  <2>1. CASE j < k BY <1>1, <1>2, <1>3, <2>1 DEF Places
  <2>2. CASE ~(j < k) BY <1>1, <1>2, <1>3, <2>2 DEF Places
  <2> QED BY <2>1, <2>2
<1>5. \A i, j \in A : g[i] = g[j] => i = j
  BY <1>1, <1>3
<1>6. \A m \in B : \E j \in A : g[j] = m
  <2> SUFFICES ASSUME NEW m \in B PROVE \E j \in A : g[j] = m
    OBVIOUS
  <2>1. CASE m < k
    <3>1. m \in A BY <1>1, <1>2, <1>3, <2>1 DEF Places
    <3> QED BY <2>1, <3>1
  <2>2. CASE ~(m < k)
    <3>1. m - 1 \in 1 .. Len(s) - 1 /\ ~(m - 1 < k) /\ m - 1 + 1 = m BY <1>1, <1>3, <2>2
    <3>2. m - 1 \in A BY <1>1, <1>2, <3>1 DEF Places
    <3>3. g[m - 1] = m BY <3>1, <3>2
    <3> QED BY <3>2, <3>3
  <2> QED BY <2>1, <2>2
<1>7. g \in Bijection(A, B)
  <2> HIDE DEF g, A, B
  <2> QED BY <1>4, <1>5, <1>6 DEF Bijection, Injection, Surjection, IsInjective
<1>8. IsFiniteSet(A) /\ IsFiniteSet(Places(s, T)) /\ Cardinality(Places(s, T)) \in Nat
  BY <1>2, PlacesFinite
<1>9. Cardinality(B) = Cardinality(A)
  <2> HIDE DEF A, B, g
  <2>1. ExistsBijection(A, B) BY <1>7 DEF ExistsBijection
  <2> QED BY <1>8, <2>1, FS_Bijection
<1>10. Cardinality(B) = Cardinality(Places(s, T)) - (IF k \in Places(s, T) THEN 1 ELSE 0)
  <2> DEFINE P == Places(s, T)
  <2>1. IsFiniteSet(P) /\ Cardinality(P) \in Nat BY <1>8
  <2> HIDE DEF P, A, g
  <2>2. Cardinality(P \ {k}) = IF k \in P THEN Cardinality(P) - 1 ELSE Cardinality(P)
    BY <2>1, FS_RemoveElement
  <2>3. Cardinality(P \ {k}) = Cardinality(P) - (IF k \in P THEN 1 ELSE 0)
    BY <2>1, <2>2
  <2> QED BY <2>3 DEF P
<1>11. k \in Places(s, T) <=> s[k] \in T BY <1>1 DEF Places
<1> QED BY <1>9, <1>10, <1>11 DEF r

-----------------------------------------------------------------------------
(* The counts of the model, step by step.                                   *)

MapEntry == [fd : Fds, buf : Bufs, p_id : Processes, filp : {FilpOf[c] : c \in Processes}]

DmaTypeOK ==
  /\ fds \in [Processes -> [Fds -> Bufs \cup {NoBuf}]]
  /\ file_count \in [Bufs -> Int] /\ attached \in [Bufs -> Int] /\ mapped \in [Bufs -> Int]
  /\ freed \subseteq Bufs
  /\ mem_list \in Seq(MapEntry)
  /\ map_pc \in [Processes -> MapLocation]
  /\ map_fd \in [Processes -> Fds \cup {-1}]
  /\ map_buf \in [Processes -> Bufs \cup {NoBuf}]
  /\ told \in [Processes -> [Fds -> Nat]]
  /\ strays \subseteq Processes

\* The entries that buffer b has.
OfBuf(b) == {e \in MapEntry : e.buf = b}

LEMMA EntriesArePlaces ==
  ASSUME NEW b, mem_list \in Seq(MapEntry)
  PROVE  Entries(b) = Cardinality(Places(mem_list, OfBuf(b)))
<1>1. \A i \in DOMAIN mem_list : mem_list[i] \in MapEntry BY LenProperties
<1>2. {i \in DOMAIN mem_list : mem_list[i].buf = b} = Places(mem_list, OfBuf(b))
  BY <1>1 DEF Places, OfBuf
<1> QED BY <1>2 DEF Entries

\* The counts are numbers, and positive where there is something to count.
LEMMA CountsTyped ==
  ASSUME DmaTypeOK, NEW b
  PROVE  /\ Entries(b) \in Nat
         /\ Descriptors(b) \in Nat
         /\ \A pcs : Calls(b, pcs) \in Nat
         /\ \A pcs : \A c \in Processes : map_buf[c] = b /\ map_pc[c] \in pcs => Calls(b, pcs) > 0
         /\ \A c \in Processes, n \in Fds : fds[c][n] = b => Descriptors(b) > 0
         /\ \A i \in DOMAIN mem_list : mem_list[i].buf = b => Entries(b) > 0
<1>1. Entries(b) \in Nat BY EntriesArePlaces, PlacesFinite DEF DmaTypeOK
<1>2. Descriptors(b) \in Nat /\ \A c \in Processes, n \in Fds : fds[c][n] = b => Descriptors(b) > 0
  <2> DEFINE D == {d \in Processes \X Fds : fds[d[1]][d[2]] = b}
  <2>1. IsFiniteSet(Processes \X Fds) BY VeDmaBufAssumption, FS_Product
  <2>2. IsFiniteSet(D) BY <2>1, FS_Subset
  <2>3. \A c \in Processes, n \in Fds : fds[c][n] = b => <<c, n>> \in D OBVIOUS
  <2> HIDE DEF D
  <2>4. Cardinality(D) \in Nat /\ (D # {} => Cardinality(D) > 0)
    BY <2>2, FS_CardinalityType, FS_EmptySet
  <2>5. Descriptors(b) = Cardinality(D) BY DEF Descriptors, D
  <2> QED BY <2>3, <2>4, <2>5
<1>3. ASSUME NEW pcs
      PROVE  /\ Calls(b, pcs) \in Nat
             /\ \A c \in Processes : map_buf[c] = b /\ map_pc[c] \in pcs => Calls(b, pcs) > 0
  <2> DEFINE K == {c \in Processes : map_buf[c] = b /\ map_pc[c] \in pcs}
  <2>1. IsFiniteSet(K) BY VeDmaBufAssumption, FS_Subset
  <2>2. Cardinality(K) \in Nat /\ (K # {} => Cardinality(K) > 0)
    BY <2>1, FS_CardinalityType, FS_EmptySet
  <2>3. Calls(b, pcs) = Cardinality(K) BY DEF Calls
  <2> QED BY <2>2, <2>3
<1>4. \A i \in DOMAIN mem_list : mem_list[i].buf = b => Entries(b) > 0
  <2> SUFFICES ASSUME NEW i \in DOMAIN mem_list, mem_list[i].buf = b PROVE Entries(b) > 0
    OBVIOUS
  <2>1. mem_list[i] \in MapEntry BY LenProperties DEF DmaTypeOK
  <2>2. i \in Places(mem_list, OfBuf(b)) BY <2>1 DEF Places, OfBuf
  <2> QED BY <2>2, EntriesArePlaces, PlacesFinite DEF DmaTypeOK
<1> QED BY <1>1, <1>2, <1>3, <1>4

LEMMA CountsTypedAll ==
  DmaTypeOK => \A b \in Bufs : Entries(b) \in Nat /\ Descriptors(b) \in Nat
BY CountsTyped

LEMMA CountsTypedNext ==
  DmaTypeOK' => \A b \in Bufs : Entries(b)' \in Nat /\ Descriptors(b)' \in Nat
<1>1. DmaTypeOK' => (\A b \in Bufs : Entries(b) \in Nat /\ Descriptors(b) \in Nat)'
  BY CountsTypedAll, PTL
<1> QED BY <1>1

\* A step of one call.
LEMMA CallsMove ==
  ASSUME DmaTypeOK, NEW c \in Processes, NEW b, NEW pcs,
         \A d \in Processes \ {c} : map_pc'[d] = map_pc[d] /\ map_buf'[d] = map_buf[d]
  PROVE  Calls(b, pcs)' = Calls(b, pcs)
            - (IF map_buf[c] = b /\ map_pc[c] \in pcs THEN 1 ELSE 0)
            + (IF map_buf'[c] = b /\ map_pc'[c] \in pcs THEN 1 ELSE 0)
<1> DEFINE K == {d \in Processes : map_buf[d] = b /\ map_pc[d] \in pcs}
           L == {d \in Processes : map_buf'[d] = b /\ map_pc'[d] \in pcs}
<1>1. IsFiniteSet(K) BY VeDmaBufAssumption, FS_Subset
<1>2. K \ {c} = L \ {c} OBVIOUS
<1>3. /\ c \in K <=> map_buf[c] = b /\ map_pc[c] \in pcs
      /\ c \in L <=> map_buf'[c] = b /\ map_pc'[c] \in pcs
  OBVIOUS
<1>4. Calls(b, pcs) = Cardinality(K) /\ Calls(b, pcs)' = Cardinality(L) BY DEF Calls
<1> HIDE DEF K, L
<1>5. Cardinality(L) = Cardinality(K) - (IF c \in K THEN 1 ELSE 0) + (IF c \in L THEN 1 ELSE 0)
  BY <1>1, <1>2, CountAt
<1> QED BY <1>3, <1>4, <1>5

\* Descriptor n of process c names another buffer, or none.
LEMMA DescriptorsMove ==
  ASSUME DmaTypeOK, NEW c \in Processes, NEW n \in Fds, NEW x, NEW b,
         fds'[c][n] = x,
         \A e \in Processes, m \in Fds : e # c \/ m # n => fds'[e][m] = fds[e][m]
  PROVE  Descriptors(b)' = Descriptors(b) - (IF fds[c][n] = b THEN 1 ELSE 0)
                                          + (IF x = b THEN 1 ELSE 0)
<1> DEFINE K == {d \in Processes \X Fds : fds[d[1]][d[2]] = b}
           L == {d \in Processes \X Fds : fds'[d[1]][d[2]] = b}
<1>1. IsFiniteSet(Processes \X Fds) BY VeDmaBufAssumption, FS_Product
<1>2. IsFiniteSet(K) BY <1>1, FS_Subset
<1>4. K \ {<<c, n>>} = L \ {<<c, n>>} OBVIOUS
<1>5. (<<c, n>> \in K <=> fds[c][n] = b) /\ (<<c, n>> \in L <=> x = b) OBVIOUS
<1>6. Descriptors(b) = Cardinality(K) /\ Descriptors(b)' = Cardinality(L) BY DEF Descriptors
<1> HIDE DEF K, L
<1>7. Cardinality(L) = Cardinality(K) - (IF <<c, n>> \in K THEN 1 ELSE 0)
                                      + (IF <<c, n>> \in L THEN 1 ELSE 0)
  BY <1>2, <1>4, CountAt
<1> QED BY <1>5, <1>6, <1>7

\* Process c closes all its descriptors.
LEMMA DescriptorsDie ==
  ASSUME DmaTypeOK, NEW c \in Processes, NEW b \in Bufs,
         fds' = [fds EXCEPT ![c] = [n \in Fds |-> NoBuf]]
  PROVE  LET k == Cardinality({n \in Fds : fds[c][n] = b})
         IN  k \in Nat /\ Descriptors(b)' = Descriptors(b) - k
<1> DEFINE D == {d \in Processes \X Fds : fds[d[1]][d[2]] = b}
           L == {d \in Processes \X Fds : fds'[d[1]][d[2]] = b}
           N == {n \in Fds : fds[c][n] = b}
           K == {d \in D : d[1] = c}
           g == [n \in N |-> <<c, n>>]
<1>1. IsFiniteSet(Processes \X Fds) BY VeDmaBufAssumption, FS_Product
<1>2. IsFiniteSet(D) BY <1>1, FS_Subset
<1>3. IsFiniteSet(N) /\ Cardinality(N) \in Nat
  BY VeDmaBufAssumption, FS_Subset, FS_CardinalityType
<1>4. \A e \in Processes, m \in Fds : fds'[e][m] = IF e = c THEN NoBuf ELSE fds[e][m]
  BY DEF DmaTypeOK
<1>5. L = D \ K BY <1>4, VeDmaBufAssumption
<1>6. \A n \in N : <<c, n>> \in K OBVIOUS
<1>7. \A d \in K : \E n \in N : d = <<c, n>> OBVIOUS
<1>8. K \subseteq D OBVIOUS
<1>9. Descriptors(b) = Cardinality(D) /\ Descriptors(b)' = Cardinality(L) BY DEF Descriptors
<1> HIDE DEF D, L, N, K
<1>10. g \in Bijection(N, K)
  BY <1>6, <1>7 DEF Bijection, Injection, Surjection, IsInjective
<1>11. ExistsBijection(N, K) BY <1>10 DEF ExistsBijection
<1>12. Cardinality(K) = Cardinality(N) BY <1>3, <1>11, FS_Bijection
<1>13. Cardinality(D \ K) = Cardinality(D) - Cardinality(D \cap K) BY <1>2, FS_Difference
<1>14. D \cap K = K BY <1>8
<1> QED BY <1>3, <1>5, <1>9, <1>12, <1>13, <1>14 DEF N

\* Any non-empty set of natural numbers has a first one.
LEMMA FirstOfNat ==
  ASSUME NEW S, S \subseteq Nat, S # {}
  PROVE  Min(S) \in S
<1> DEFINE Less == {ss \in Nat \X Nat : ss[1] < ss[2]}
<1>2. IsWellFoundedOn(Less, Nat)
  BY NatLessThanWellFounded DEF OpToRel
<1>3. \A i, j \in Nat : i < j => <<i, j>> \in Less
  OBVIOUS
<1> HIDE DEF Less
<1>4. PICK n \in S : \A m \in S : ~(<<m, n>> \in Less)
  BY <1>2, WFMin
<1>5. \A m \in S : n <= m
  <2>1. ASSUME NEW m \in S, m < n PROVE FALSE
    BY <1>3, <1>4, <2>1
  <2> QED BY <1>4, <2>1
<1> QED BY <1>5 DEF Min

\* What unmap_dma_buf_addr finds: an entry of the descriptor and the process.
LEMMA EntryFound ==
  ASSUME mem_list \in Seq(MapEntry), NEW c, NEW n
  PROVE  LET i == EntryOf(c, n) IN
         IF \E j \in 1 .. Len(mem_list) : Matches(mem_list[j], c, n)
         THEN i \in 1 .. Len(mem_list) /\ Matches(mem_list[i], c, n)
         ELSE i = 0
<1> DEFINE I == {j \in 1 .. Len(mem_list) : Matches(mem_list[j], c, n)}
<1>1. EntryOf(c, n) = IF I # {} THEN Min(I) ELSE 0
  BY DEF EntryOf, SelectInSeq
<1>2. Len(mem_list) \in Nat BY LenProperties
<1>3. I # {} => Min(I) \in I BY FirstOfNat
<1> QED BY <1>1, <1>2, <1>3

-----------------------------------------------------------------------------
(* The inductive invariant.                                                 *)

\* A call has a descriptor from its entry to its return, and a buffer between
\* the reference it takes and the list.
CallsUnderWay ==
  \A c \in Processes :
    /\ map_fd[c] \in Fds <=> map_pc[c] \in {"get", "attach", "map", "add", "answer"}
    /\ map_buf[c] \in Bufs <=> map_pc[c] \in {"attach", "map", "add"}

\* The first three conjuncts of EveryRefAccounted.
Accounted(b) ==
  /\ mapped[b] = Entries(b) + Calls(b, {"add"})
  /\ attached[b] = mapped[b] + Calls(b, {"map"})
  /\ file_count[b] = attached[b] + Calls(b, {"attach"}) + Descriptors(b)

\* A buffer that has been freed has no reference and never gets one.
FreedUnused == \A b \in freed : file_count[b] = 0

RefInv == /\ DmaTypeOK /\ CallsUnderWay /\ FreedUnused
          /\ \A b \in Bufs : Accounted(b)

\* References are put that are there to be put.
LEMMA PutRefsKeeps ==
  ASSUME DmaTypeOK, FreedUnused, NEW n \in [Bufs -> Nat], PutRefs(n),
         \A b \in Bufs : n[b] <= file_count[b]
  PROVE  /\ FreedUnused'
         /\ file_count' \in [Bufs -> Int] /\ freed' \subseteq Bufs
         /\ \A b \in Bufs : file_count'[b] = file_count[b] - n[b]
BY DEF DmaTypeOK, FreedUnused, PutRefs

LEMMA PutRefKeeps ==
  ASSUME DmaTypeOK, FreedUnused, NEW x \in Bufs, PutRef(x), file_count[x] > 0,
         \A b \in Bufs : file_count[b] >= 0
  PROVE  /\ FreedUnused'
         /\ file_count' \in [Bufs -> Int] /\ freed' \subseteq Bufs
         /\ \A b \in Bufs : file_count'[b] = file_count[b] - (IF b = x THEN 1 ELSE 0)
<1>1. One(x) \in [Bufs -> Nat] /\ \A b \in Bufs : One(x)[b] = IF b = x THEN 1 ELSE 0
  BY DEF One
<1>2. ASSUME NEW b \in Bufs PROVE One(x)[b] <= file_count[b]
  <2>1. file_count[b] \in Int BY DEF DmaTypeOK
  <2>2. CASE b = x BY <1>1, <2>1, <2>2
  <2>3. CASE b # x BY <1>1, <2>1, <2>3
  <2> QED BY <2>2, <2>3
<1> HIDE DEF One
<1>3. PutRefs(One(x)) BY DEF PutRef
<1> QED BY <1>1, <1>2, <1>3, PutRefsKeeps

LEMMA GetRefKeeps ==
  ASSUME DmaTypeOK, FreedUnused, NEW x \in Bufs \ freed, GetRef(x)
  PROVE  /\ FreedUnused'
         /\ file_count' \in [Bufs -> Int] /\ freed' \subseteq Bufs
         /\ \A b \in Bufs : file_count'[b] = file_count[b] + (IF b = x THEN 1 ELSE 0)
BY DEF DmaTypeOK, FreedUnused, GetRef

\* The references of a buffer are no fewer than what they are counted by.
LEMMA AccountedBounds ==
  ASSUME RefInv, NEW b \in Bufs
  PROVE  /\ file_count[b] \in Nat /\ attached[b] \in Nat /\ mapped[b] \in Nat
         /\ Descriptors(b) <= file_count[b] /\ Calls(b, {"attach"}) <= file_count[b]
         /\ attached[b] <= file_count[b]
         /\ mapped[b] <= attached[b] /\ Calls(b, {"map"}) <= attached[b]
         /\ Entries(b) <= mapped[b] /\ Calls(b, {"add"}) <= mapped[b]
<1>1. DmaTypeOK /\ Accounted(b) BY DEF RefInv
<1>2. /\ Entries(b) \in Nat /\ Descriptors(b) \in Nat
      /\ Calls(b, {"attach"}) \in Nat /\ Calls(b, {"map"}) \in Nat /\ Calls(b, {"add"}) \in Nat
  BY <1>1, CountsTyped
<1> QED BY <1>1, <1>2 DEF Accounted

Accounts == FreedUnused /\ \A b \in Bufs : Accounted(b)

\* What the call of c contributes to the count of calls of b at s.
Holds(c, b, s) == IF map_buf[c] = b /\ map_pc[c] = s THEN 1 ELSE 0

\* In a step of c alone each count changes by what c contributes.
LEMMA AccountedGo ==
  ASSUME DmaTypeOK, DmaTypeOK', NEW c \in Processes, NEW b \in Bufs, Accounted(b),
         \A d \in Processes \ {c} : map_pc'[d] = map_pc[d] /\ map_buf'[d] = map_buf[d],
         mapped'[b] - Entries(b)' - Holds(c, b, "add")'
            = mapped[b] - Entries(b) - Holds(c, b, "add"),
         attached'[b] - mapped'[b] - Holds(c, b, "map")'
            = attached[b] - mapped[b] - Holds(c, b, "map"),
         file_count'[b] - attached'[b] - Descriptors(b)' - Holds(c, b, "attach")'
            = file_count[b] - attached[b] - Descriptors(b) - Holds(c, b, "attach")
  PROVE  Accounted(b)'
<1>1. Calls(b, {"add"})' = Calls(b, {"add"}) - Holds(c, b, "add") + Holds(c, b, "add")'
  BY CallsMove DEF Holds
<1>2. Calls(b, {"map"})' = Calls(b, {"map"}) - Holds(c, b, "map") + Holds(c, b, "map")'
  BY CallsMove DEF Holds
<1>3. Calls(b, {"attach"})' = Calls(b, {"attach"}) - Holds(c, b, "attach") + Holds(c, b, "attach")'
  BY CallsMove DEF Holds
<1>4. /\ Calls(b, {"attach"}) \in Nat /\ Calls(b, {"map"}) \in Nat /\ Calls(b, {"add"}) \in Nat
      /\ Entries(b) \in Nat /\ Descriptors(b) \in Nat
  BY CountsTyped
<1>5. Entries(b)' \in Nat /\ Descriptors(b)' \in Nat
  BY CountsTypedNext
<1>6. /\ file_count[b] \in Int /\ attached[b] \in Int /\ mapped[b] \in Int
      /\ file_count'[b] \in Int /\ attached'[b] \in Int /\ mapped'[b] \in Int
  BY DEF DmaTypeOK
<1>7. \A s : Holds(c, b, s) \in {0, 1} /\ Holds(c, b, s)' \in {0, 1} BY DEF Holds
<1>8. /\ mapped[b] = Entries(b) + Calls(b, {"add"})
      /\ attached[b] = mapped[b] + Calls(b, {"map"})
      /\ file_count[b] = attached[b] + Calls(b, {"attach"}) + Descriptors(b)
  BY DEF Accounted
<1>9. mapped'[b] = Entries(b)' + Calls(b, {"add"})'
  BY <1>1, <1>4, <1>5, <1>6, <1>7, <1>8
<1>10. attached'[b] = mapped'[b] + Calls(b, {"map"})'
  BY <1>2, <1>4, <1>6, <1>7, <1>8
<1>11. file_count'[b] = attached'[b] + Calls(b, {"attach"})' + Descriptors(b)'
  BY <1>3, <1>4, <1>5, <1>6, <1>7, <1>8
<1> QED BY <1>9, <1>10, <1>11 DEF Accounted

LEMMA PutRefsTyped ==
  ASSUME DmaTypeOK, NEW n, PutRefs(n), \A b \in Bufs : n[b] \in Int
  PROVE  file_count' \in [Bufs -> Int] /\ freed' \subseteq Bufs
BY DEF PutRefs, DmaTypeOK

LEMMA PutRefTyped ==
  ASSUME DmaTypeOK, NEW x, PutRef(x)
  PROVE  file_count' \in [Bufs -> Int] /\ freed' \subseteq Bufs
<1>1. \A b \in Bufs : One(x)[b] \in Int BY DEF One
<1> QED BY <1>1, PutRefsTyped DEF PutRef

\* The variables stay in their ranges.
LEMMA DmaTypeStep ==
  ASSUME DmaTypeOK, CallsUnderWay, [DmaNext]_dmaVars
  PROVE  DmaTypeOK' /\ CallsUnderWay'
<1> DEFINE Goal == DmaTypeOK' /\ CallsUnderWay'
<1> USE VeDmaBufAssumption DEF CallsUnderWay, MapGo, MapLocation, ListVars, CallVars, ClientVars
<1>1. ASSUME NEW c \in Processes, NEW n \in Fds, NEW b \in Bufs, Import(c, n, b) PROVE Goal
  BY <1>1 DEF DmaTypeOK, Import, GetRef
<1>2. ASSUME NEW c \in Processes, NEW n \in Fds, CloseFd(c, n) PROVE Goal
  <2>1. file_count' \in [Bufs -> Int] /\ freed' \subseteq Bufs
    BY <1>2, PutRefTyped DEF CloseFd
  <2>2. strays' \subseteq Processes BY <1>2 DEF CloseFd, DmaTypeOK
  <2> QED BY <1>2, <2>1, <2>2 DEF DmaTypeOK, CloseFd
<1>3. ASSUME NEW c \in Processes, DmaDie(c) PROVE Goal
  <2> DEFINE k == [b \in Bufs |-> Cardinality({n \in Fds : fds[c][n] = b})]
  <2>1. ASSUME NEW b \in Bufs PROVE k[b] \in Int
    BY FS_Subset, FS_CardinalityType
  <2>2. PutRefs(k) BY <1>3 DEF DmaDie
  <2> HIDE DEF k
  <2>3. file_count' \in [Bufs -> Int] /\ freed' \subseteq Bufs
    BY <2>1, <2>2, PutRefsTyped
  <2> QED BY <1>3, <2>3 DEF DmaTypeOK, DmaDie
<1>4. ASSUME NEW c \in Processes, NEW n \in Fds, MapDmaBuf(c, n) PROVE Goal
  BY <1>4 DEF DmaTypeOK, MapDmaBuf
<1>5. ASSUME NEW c \in Processes, MapRefused(c) PROVE Goal
  BY <1>5 DEF DmaTypeOK, MapRefused
<1>6. ASSUME NEW c \in Processes, MapGet(c) PROVE Goal
  <2>1. map_fd[c] \in Fds BY <1>6 DEF MapGet
  <2>2. fds[c][map_fd[c]] \in Bufs
    <3>1. fds[c][map_fd[c]] # NoBuf /\ fds \in [Processes -> [Fds -> Bufs \cup {NoBuf}]]
      BY <1>6 DEF DmaTypeOK, MapGet
    <3> QED BY ONLY <2>1, <3>1
  <2> QED BY <1>6, <2>2 DEF DmaTypeOK, MapGet, GetRef
<1>7. ASSUME NEW c \in Processes, MapGetFails(c) PROVE Goal
  BY <1>7 DEF DmaTypeOK, MapGetFails, MapReturns
<1>8. ASSUME NEW c \in Processes, MapAttach(c) PROVE Goal
  BY <1>8 DEF DmaTypeOK, MapAttach
<1>9. ASSUME NEW c \in Processes, MapAttachFails(c) PROVE Goal
  <2>1. file_count' \in [Bufs -> Int] /\ freed' \subseteq Bufs
    BY <1>9, PutRefTyped DEF MapAttachFails
  <2> QED BY <1>9, <2>1 DEF DmaTypeOK, MapAttachFails, MapReturns
<1>10. ASSUME NEW c \in Processes, MapMap(c) PROVE Goal
  BY <1>10 DEF DmaTypeOK, MapMap
<1>11. ASSUME NEW c \in Processes, MapMapFails(c) PROVE Goal
  <2>1. file_count' \in [Bufs -> Int] /\ freed' \subseteq Bufs
    BY <1>11, PutRefTyped DEF MapMapFails
  <2>2. attached' \in [Bufs -> Int]
    <3>1. /\ attached \in [Bufs -> Int] /\ attached' = [attached EXCEPT ![map_buf[c]] = @ - 1]
          /\ map_buf[c] \in Bufs
      BY <1>11 DEF DmaTypeOK, MapMapFails, MapReturns
    <3> QED BY ONLY <3>1
  <2> QED BY <1>11, <2>1, <2>2 DEF DmaTypeOK, MapMapFails, MapReturns
<1>12. ASSUME NEW c \in Processes, MapAdd(c) PROVE Goal
  <2>1. [fd |-> map_fd[c], buf |-> map_buf[c], p_id |-> c, filp |-> FilpOf[c]] \in MapEntry
    BY <1>12 DEF DmaTypeOK, MapAdd, MapEntry
  <2>2. mem_list' \in Seq(MapEntry) BY <1>12, <2>1, AppendProperties DEF DmaTypeOK, MapAdd
  <2> QED BY <1>12, <2>2 DEF DmaTypeOK, MapAdd
<1>13. ASSUME NEW c \in Processes, MapAnswer(c) PROVE Goal
  <2>1. map_fd[c] \in Fds BY <1>13 DEF MapAnswer
  <2>2. told' \in [Processes -> [Fds -> Nat]]
    <3>1. told \in [Processes -> [Fds -> Nat]] /\ told' = [told EXCEPT ![c][map_fd[c]] = @ + 1]
      BY <1>13 DEF DmaTypeOK, MapAnswer
    <3> QED BY ONLY <2>1, <3>1
  <2> QED BY <1>13, <2>2 DEF DmaTypeOK, MapAnswer
<1>14. ASSUME NEW c \in Processes, MapAnswerFails(c) PROVE Goal
  BY <1>14 DEF DmaTypeOK, MapAnswerFails
<1>15. ASSUME NEW c \in Processes, NEW n \in Fds, UnmapDmaBuf(c, n) PROVE Goal
  <2>1. file_count' \in [Bufs -> Int] /\ freed' \subseteq Bufs
    BY <1>15, PutRefTyped DEF UnmapDmaBuf
  <2>2. mem_list \in Seq(MapEntry) BY DEF DmaTypeOK
  <2>3. EntryOf(c, n) \in 1 .. Len(mem_list) BY <1>15, <2>2, EntryFound DEF UnmapDmaBuf
  <2>4. mem_list' \in Seq(MapEntry) BY <1>15, <2>2, <2>3, RemoveAtIs DEF UnmapDmaBuf
  <2>5. attached' \in [Bufs -> Int] /\ mapped' \in [Bufs -> Int]
    <3> DEFINE x == mem_list[EntryOf(c, n)].buf
    <3>1. /\ attached \in [Bufs -> Int] /\ attached' = [attached EXCEPT ![x] = @ - 1]
          /\ mapped \in [Bufs -> Int] /\ mapped' = [mapped EXCEPT ![x] = @ - 1]
      BY <1>15 DEF DmaTypeOK, UnmapDmaBuf
    <3>2. x \in Bufs
      <4>1. mem_list[EntryOf(c, n)] \in MapEntry BY ONLY <2>2, <2>3, LenProperties
      <4> QED BY ONLY <4>1 DEF MapEntry
    <3> HIDE DEF x
    <3> QED BY ONLY <3>1, <3>2
  <2>6. told' \in [Processes -> [Fds -> Nat]] BY <1>15 DEF DmaTypeOK, UnmapDmaBuf
  <2> QED BY <1>15, <2>1, <2>4, <2>5, <2>6 DEF DmaTypeOK, UnmapDmaBuf
<1>16. CASE UNCHANGED dmaVars
  BY <1>16 DEF DmaTypeOK, dmaVars
<1> QED
  BY <1>1, <1>2, <1>3, <1>4, <1>5, <1>6, <1>7, <1>8, <1>9, <1>10, <1>11, <1>12, <1>13,
     <1>14, <1>15, <1>16 DEF DmaNext, DmaProcess

-----------------------------------------------------------------------------
(* Each step keeps the accounts.                                            *)

LEMMA ImportAccounts ==
  ASSUME RefInv, DmaTypeOK', NEW c \in Processes, NEW n \in Fds, NEW x \in Bufs, Import(c, n, x)
  PROVE  Accounts'
<1>1. /\ GetRef(x) /\ x \notin freed /\ fds[c][n] = NoBuf
      /\ fds' = [fds EXCEPT ![c][n] = x]
      /\ UNCHANGED <<attached, mapped, mem_list, map_pc, map_buf>>
  BY DEF Import, ListVars, CallVars
<1>2. /\ FreedUnused'
      /\ \A b \in Bufs : file_count'[b] = file_count[b] + (IF b = x THEN 1 ELSE 0)
  BY <1>1, GetRefKeeps DEF RefInv
<1>3. ASSUME NEW b \in Bufs PROVE Accounted(b)'
  <2>1. DmaTypeOK /\ Accounted(b) BY DEF RefInv
  <2>2. Entries(b)' = Entries(b) /\ \A s : Holds(c, b, s)' = Holds(c, b, s)
    BY <1>1 DEF Entries, Holds
  <2>3. Descriptors(b)' = Descriptors(b) + (IF x = b THEN 1 ELSE 0)
    <3>1. Descriptors(b)' = Descriptors(b) - (IF fds[c][n] = b THEN 1 ELSE 0) + (IF x = b THEN 1 ELSE 0)
      <4>1. fds'[c][n] = x BY <1>1, <2>1 DEF DmaTypeOK
      <4>2. \A e \in Processes, m \in Fds : e # c \/ m # n => fds'[e][m] = fds[e][m]
        BY <1>1, <2>1 DEF DmaTypeOK
      <4> QED BY <2>1, <4>1, <4>2, DescriptorsMove
    <3>2. Descriptors(b) \in Nat BY <2>1, CountsTyped
    <3> QED BY <1>1, <3>1, <3>2, VeDmaBufAssumption
  <2>4. mapped'[b] - Entries(b)' - Holds(c, b, "add")' = mapped[b] - Entries(b) - Holds(c, b, "add")
    BY <1>1, <2>2
  <2>5. attached'[b] - mapped'[b] - Holds(c, b, "map")' = attached[b] - mapped[b] - Holds(c, b, "map")
    BY <1>1, <2>2
  <2>6. file_count'[b] - attached'[b] - Descriptors(b)' - Holds(c, b, "attach")'
          = file_count[b] - attached[b] - Descriptors(b) - Holds(c, b, "attach")
    <3>1. Descriptors(b) \in Nat /\ file_count[b] \in Int /\ attached[b] \in Int
          /\ Holds(c, b, "attach") \in {0, 1}
      BY <2>1, CountsTyped DEF DmaTypeOK, Holds
    <3> QED BY <1>1, <1>2, <2>2, <2>3, <3>1
  <2> QED BY <1>1, <2>1, <2>4, <2>5, <2>6, AccountedGo
<1> QED BY <1>2, <1>3 DEF Accounts

LEMMA CloseFdAccounts ==
  ASSUME RefInv, DmaTypeOK', NEW c \in Processes, NEW n \in Fds, CloseFd(c, n)
  PROVE  Accounts'
<1> PICK x \in Bufs : x = fds[c][n]
  BY DEF CloseFd, RefInv, DmaTypeOK
<1>1. /\ PutRef(x) /\ fds' = [fds EXCEPT ![c][n] = NoBuf]
      /\ UNCHANGED <<attached, mapped, mem_list, map_pc, map_buf>>
  BY DEF CloseFd, ListVars, CallVars
<1>2. /\ FreedUnused'
      /\ \A b \in Bufs : file_count'[b] = file_count[b] - (IF b = x THEN 1 ELSE 0)
  <2>1. Descriptors(x) > 0 /\ Descriptors(x) \in Nat BY CountsTyped DEF RefInv
  <2>2. file_count[x] > 0 /\ \A b \in Bufs : file_count[b] >= 0 BY <2>1, AccountedBounds
  <2> QED BY <1>1, <2>2, PutRefKeeps DEF RefInv
<1>3. ASSUME NEW b \in Bufs PROVE Accounted(b)'
  <2>1. DmaTypeOK /\ Accounted(b) BY DEF RefInv
  <2>2. Entries(b)' = Entries(b) /\ \A s : Holds(c, b, s)' = Holds(c, b, s)
    BY <1>1 DEF Entries, Holds
  <2>3. Descriptors(b)' = Descriptors(b) - (IF x = b THEN 1 ELSE 0)
    <3>1. fds'[c][n] = NoBuf BY <1>1, <2>1 DEF DmaTypeOK
    <3>2. \A e \in Processes, m \in Fds : e # c \/ m # n => fds'[e][m] = fds[e][m]
      BY <1>1, <2>1 DEF DmaTypeOK
    <3>3. Descriptors(b)' = Descriptors(b) - (IF fds[c][n] = b THEN 1 ELSE 0)
                                           + (IF NoBuf = b THEN 1 ELSE 0)
      BY <2>1, <3>1, <3>2, DescriptorsMove
    <3>4. Descriptors(b) \in Nat BY <2>1, CountsTyped
    <3> QED BY <3>3, <3>4, VeDmaBufAssumption
  <2>4. mapped'[b] - Entries(b)' - Holds(c, b, "add")' = mapped[b] - Entries(b) - Holds(c, b, "add")
    BY <1>1, <2>2
  <2>5. attached'[b] - mapped'[b] - Holds(c, b, "map")' = attached[b] - mapped[b] - Holds(c, b, "map")
    BY <1>1, <2>2
  <2>6. file_count'[b] - attached'[b] - Descriptors(b)' - Holds(c, b, "attach")'
          = file_count[b] - attached[b] - Descriptors(b) - Holds(c, b, "attach")
    <3>1. Descriptors(b) \in Nat /\ file_count[b] \in Int /\ attached[b] \in Int
          /\ Holds(c, b, "attach") \in {0, 1}
      BY <2>1, CountsTyped DEF DmaTypeOK, Holds
    <3> QED BY <1>1, <1>2, <2>2, <2>3, <3>1
  <2> QED BY <1>1, <2>1, <2>4, <2>5, <2>6, AccountedGo
<1> QED BY <1>2, <1>3 DEF Accounts

LEMMA DmaDieAccounts ==
  ASSUME RefInv, DmaTypeOK', NEW c \in Processes, DmaDie(c)
  PROVE  Accounts'
<1> DEFINE k == [b \in Bufs |-> Cardinality({n \in Fds : fds[c][n] = b})]
<1>1. /\ PutRefs(k) /\ fds' = [fds EXCEPT ![c] = [n \in Fds |-> NoBuf]]
      /\ UNCHANGED <<attached, mapped, mem_list, map_buf>>
      /\ map_pc[c] = "user" /\ map_pc' = [map_pc EXCEPT ![c] = "gone"]
  BY DEF DmaDie, ListVars
<1>2. \A b \in Bufs : k[b] \in Nat /\ Descriptors(b)' = Descriptors(b) - k[b]
  <2> SUFFICES ASSUME NEW b \in Bufs
               PROVE  k[b] \in Nat /\ Descriptors(b)' = Descriptors(b) - k[b]
    OBVIOUS
  <2>1. DmaTypeOK BY DEF RefInv
  <2>2. k[b] = Cardinality({n \in Fds : fds[c][n] = b}) OBVIOUS
  <2> HIDE DEF k
  <2> QED BY <1>1, <2>1, <2>2, DescriptorsDie
<1>3. k \in [Bufs -> Nat]
  <2>1. k = [b \in Bufs |-> k[b]] OBVIOUS
  <2> HIDE DEF k
  <2> QED BY <1>2, <2>1
<1> HIDE DEF k
<1>4. \A b \in Bufs : k[b] <= file_count[b]
  <2> SUFFICES ASSUME NEW b \in Bufs PROVE k[b] <= file_count[b]
    OBVIOUS
  <2>1. Descriptors(b)' \in Nat BY CountsTypedNext
  <2>2. Descriptors(b) \in Nat BY CountsTyped DEF RefInv
  <2>3. Descriptors(b) <= file_count[b] /\ file_count[b] \in Nat BY AccountedBounds
  <2> QED BY <1>2, <2>1, <2>2, <2>3
<1>5. /\ FreedUnused'
      /\ \A b \in Bufs : file_count'[b] = file_count[b] - k[b]
  BY <1>1, <1>3, <1>4, PutRefsKeeps DEF RefInv
<1>6. ASSUME NEW b \in Bufs PROVE Accounted(b)'
  <2>1. DmaTypeOK /\ Accounted(b) BY DEF RefInv
  <2>2. \A d \in Processes \ {c} : map_pc'[d] = map_pc[d] /\ map_buf'[d] = map_buf[d]
    BY <1>1, <2>1 DEF DmaTypeOK
  <2>3. /\ Entries(b)' = Entries(b)
        /\ \A s \in {"add", "map", "attach"} : Holds(c, b, s)' = Holds(c, b, s) /\ Holds(c, b, s) = 0
    BY <1>1, <2>1 DEF Entries, Holds, DmaTypeOK
  <2>4. mapped'[b] - Entries(b)' - Holds(c, b, "add")' = mapped[b] - Entries(b) - Holds(c, b, "add")
    BY <1>1, <2>3
  <2>5. attached'[b] - mapped'[b] - Holds(c, b, "map")' = attached[b] - mapped[b] - Holds(c, b, "map")
    BY <1>1, <2>3
  <2>6. file_count'[b] - attached'[b] - Descriptors(b)' - Holds(c, b, "attach")'
          = file_count[b] - attached[b] - Descriptors(b) - Holds(c, b, "attach")
    <3>1. Descriptors(b) \in Nat /\ file_count[b] \in Int /\ attached[b] \in Int
      BY <2>1, CountsTyped DEF DmaTypeOK
    <3> QED BY <1>1, <1>2, <1>5, <2>3, <3>1
  <2> QED BY <2>1, <2>2, <2>4, <2>5, <2>6, AccountedGo
<1> QED BY <1>5, <1>6 DEF Accounts

LEMMA EntriesArePlacesAll ==
  mem_list \in Seq(MapEntry) =>
    \A b \in Bufs : Entries(b) = Cardinality(Places(mem_list, OfBuf(b)))
BY EntriesArePlaces

LEMMA EntriesNext ==
  mem_list' \in Seq(MapEntry) =>
    \A b \in Bufs : Entries(b)' = Cardinality(Places(mem_list', OfBuf(b)))
<1>1. (mem_list \in Seq(MapEntry))' =>
        (\A b \in Bufs : Entries(b) = Cardinality(Places(mem_list, OfBuf(b))))'
  BY EntriesArePlacesAll, PTL
<1> QED BY <1>1

LEMMA MapGetAccounts ==
  ASSUME RefInv, DmaTypeOK', NEW c \in Processes, MapGet(c)
  PROVE  Accounts'
<1>0. /\ map_pc[c] = "get" /\ fds[c][map_fd[c]] # NoBuf
      /\ map_fd[c] \in Fds /\ map_buf[c] \notin Bufs
  BY DEF MapGet, MapGo, RefInv, CallsUnderWay
<1> PICK x \in Bufs : x = fds[c][map_fd[c]]
  BY <1>0 DEF RefInv, DmaTypeOK
<1>1. /\ GetRef(x)
      /\ attached' = attached
      /\ mapped' = mapped
      /\ mem_list' = mem_list
      /\ fds' = fds /\ map_buf[c] \notin Bufs /\ map_buf' = [map_buf EXCEPT ![c] = x]
      /\ map_pc[c] = "get" /\ map_pc' = [map_pc EXCEPT ![c] = "attach"]
  BY <1>0 DEF MapGet, MapGo, ListVars, ClientVars
<1>2. /\ FreedUnused'
      /\ \A b \in Bufs : file_count'[b] = file_count[b] + (IF b = x THEN 1 ELSE 0)
  <2>1. Descriptors(x) > 0 /\ Descriptors(x) \in Nat BY <1>0, CountsTyped DEF RefInv
  <2>2. file_count[x] > 0 BY <2>1, AccountedBounds
  <2>3. x \notin freed BY <2>2 DEF RefInv, FreedUnused
  <2> QED BY <1>1, <2>3, GetRefKeeps DEF RefInv
<1>3. ASSUME NEW b \in Bufs PROVE Accounted(b)'
  <2>1. DmaTypeOK /\ Accounted(b) BY DEF RefInv
  <2>2. /\ map_pc'[c] = "attach" /\ map_buf'[c] = x
        /\ \A d \in Processes \ {c} : map_pc'[d] = map_pc[d] /\ map_buf'[d] = map_buf[d]
    BY <1>1, <2>1 DEF DmaTypeOK
  <2>3. /\ Holds(c, b, "attach") = 0 /\ Holds(c, b, "attach")' = (IF b = x THEN 1 ELSE 0)
        /\ Holds(c, b, "map") = 0 /\ Holds(c, b, "map")' = 0
        /\ Holds(c, b, "add") = 0 /\ Holds(c, b, "add")' = 0
    BY <1>1, <2>2, VeDmaBufAssumption DEF Holds
  <2>4. Entries(b)' = Entries(b) /\ Descriptors(b)' = Descriptors(b)
    BY <1>1 DEF Entries, Descriptors
  <2>5. /\ attached'[b] = attached[b]
        /\ mapped'[b] = mapped[b]
        /\ file_count[b] \in Int /\ attached[b] \in Int /\ mapped[b] \in Int
    BY <1>1, <2>1 DEF DmaTypeOK
  <2>6. Entries(b) \in Nat /\ Descriptors(b) \in Nat BY <2>1, CountsTyped
  <2>7. mapped'[b] - Entries(b)' - Holds(c, b, "add")' = mapped[b] - Entries(b) - Holds(c, b, "add")
    BY ONLY <2>3, <2>4, <2>5, <2>6
  <2>8. attached'[b] - mapped'[b] - Holds(c, b, "map")' = attached[b] - mapped[b] - Holds(c, b, "map")
    BY ONLY <2>3, <2>5
  <2>9. file_count'[b] - attached'[b] - Descriptors(b)' - Holds(c, b, "attach")'
          = file_count[b] - attached[b] - Descriptors(b) - Holds(c, b, "attach")
    BY ONLY <1>2, <2>3, <2>4, <2>5, <2>6, b \in Bufs
  <2> QED BY <2>1, <2>2, <2>7, <2>8, <2>9, AccountedGo
<1> QED BY <1>2, <1>3 DEF Accounts

LEMMA MapAttachAccounts ==
  ASSUME RefInv, DmaTypeOK', NEW c \in Processes, MapAttach(c)
  PROVE  Accounts'
<1>0. map_pc[c] = "attach" /\ map_buf[c] \in Bufs
  BY DEF MapAttach, MapGo, RefInv, CallsUnderWay
<1> PICK x \in Bufs : x = map_buf[c]
  BY <1>0
<1>1. /\ UNCHANGED <<file_count, freed>>
      /\ attached' = [attached EXCEPT ![x] = @ + 1]
      /\ mapped' = mapped
      /\ mem_list' = mem_list
      /\ fds' = fds /\ map_buf[c] = x /\ map_buf' = map_buf
      /\ map_pc[c] = "attach" /\ map_pc' = [map_pc EXCEPT ![c] = "map"]
  BY <1>0 DEF MapAttach, MapGo, ListVars, ClientVars
<1>2. FreedUnused' /\ \A b \in Bufs : file_count'[b] = file_count[b]
  BY <1>1 DEF RefInv, FreedUnused
<1>3. ASSUME NEW b \in Bufs PROVE Accounted(b)'
  <2>1. DmaTypeOK /\ Accounted(b) BY DEF RefInv
  <2>2. /\ map_pc'[c] = "map" /\ map_buf'[c] = x
        /\ \A d \in Processes \ {c} : map_pc'[d] = map_pc[d] /\ map_buf'[d] = map_buf[d]
    BY <1>1, <2>1 DEF DmaTypeOK
  <2>3. /\ Holds(c, b, "attach") = (IF b = x THEN 1 ELSE 0) /\ Holds(c, b, "attach")' = 0
        /\ Holds(c, b, "map") = 0 /\ Holds(c, b, "map")' = (IF b = x THEN 1 ELSE 0)
        /\ Holds(c, b, "add") = 0 /\ Holds(c, b, "add")' = 0
    BY <1>1, <2>2, VeDmaBufAssumption DEF Holds
  <2>4. Entries(b)' = Entries(b) /\ Descriptors(b)' = Descriptors(b)
    BY <1>1 DEF Entries, Descriptors
  <2>5. /\ attached'[b] = attached[b] + (IF b = x THEN 1 ELSE 0)
        /\ mapped'[b] = mapped[b]
        /\ file_count[b] \in Int /\ attached[b] \in Int /\ mapped[b] \in Int
    BY <1>1, <2>1 DEF DmaTypeOK
  <2>6. Entries(b) \in Nat /\ Descriptors(b) \in Nat BY <2>1, CountsTyped
  <2>7. mapped'[b] - Entries(b)' - Holds(c, b, "add")' = mapped[b] - Entries(b) - Holds(c, b, "add")
    BY ONLY <2>3, <2>4, <2>5, <2>6
  <2>8. attached'[b] - mapped'[b] - Holds(c, b, "map")' = attached[b] - mapped[b] - Holds(c, b, "map")
    BY ONLY <2>3, <2>5
  <2>9. file_count'[b] - attached'[b] - Descriptors(b)' - Holds(c, b, "attach")'
          = file_count[b] - attached[b] - Descriptors(b) - Holds(c, b, "attach")
    BY ONLY <1>2, <2>3, <2>4, <2>5, <2>6, b \in Bufs
  <2> QED BY <2>1, <2>2, <2>7, <2>8, <2>9, AccountedGo
<1> QED BY <1>2, <1>3 DEF Accounts

LEMMA MapAttachFailsAccounts ==
  ASSUME RefInv, DmaTypeOK', NEW c \in Processes, MapAttachFails(c)
  PROVE  Accounts'
<1>0. map_pc[c] = "attach" /\ map_buf[c] \in Bufs
  BY DEF MapAttachFails, MapReturns, MapGo, RefInv, CallsUnderWay
<1> PICK x \in Bufs : x = map_buf[c]
  BY <1>0
<1>1. /\ PutRef(x)
      /\ attached' = attached
      /\ mapped' = mapped
      /\ mem_list' = mem_list
      /\ fds' = fds /\ map_buf[c] = x /\ map_buf' = [map_buf EXCEPT ![c] = NoBuf]
      /\ map_pc[c] = "attach" /\ map_pc' = [map_pc EXCEPT ![c] = "user"]
  BY <1>0 DEF MapAttachFails, MapReturns, MapGo, ListVars, ClientVars
<1>2. /\ FreedUnused'
      /\ \A b \in Bufs : file_count'[b] = file_count[b] - (IF b = x THEN 1 ELSE 0)
  <2>1. Calls(x, {"attach"}) > 0 /\ Calls(x, {"attach"}) \in Nat
    BY <1>1, CountsTyped DEF RefInv
  <2>2. file_count[x] > 0 /\ \A b \in Bufs : file_count[b] >= 0 BY <2>1, AccountedBounds
  <2> QED BY <1>1, <2>2, PutRefKeeps DEF RefInv
<1>3. ASSUME NEW b \in Bufs PROVE Accounted(b)'
  <2>1. DmaTypeOK /\ Accounted(b) BY DEF RefInv
  <2>2. /\ map_pc'[c] = "user" /\ map_buf'[c] = NoBuf
        /\ \A d \in Processes \ {c} : map_pc'[d] = map_pc[d] /\ map_buf'[d] = map_buf[d]
    BY <1>1, <2>1 DEF DmaTypeOK
  <2>3. /\ Holds(c, b, "attach") = (IF b = x THEN 1 ELSE 0) /\ Holds(c, b, "attach")' = 0
        /\ Holds(c, b, "map") = 0 /\ Holds(c, b, "map")' = 0
        /\ Holds(c, b, "add") = 0 /\ Holds(c, b, "add")' = 0
    BY <1>1, <2>2, VeDmaBufAssumption DEF Holds
  <2>4. Entries(b)' = Entries(b) /\ Descriptors(b)' = Descriptors(b)
    BY <1>1 DEF Entries, Descriptors
  <2>5. /\ attached'[b] = attached[b]
        /\ mapped'[b] = mapped[b]
        /\ file_count[b] \in Int /\ attached[b] \in Int /\ mapped[b] \in Int
    BY <1>1, <2>1 DEF DmaTypeOK
  <2>6. Entries(b) \in Nat /\ Descriptors(b) \in Nat BY <2>1, CountsTyped
  <2>7. mapped'[b] - Entries(b)' - Holds(c, b, "add")' = mapped[b] - Entries(b) - Holds(c, b, "add")
    BY ONLY <2>3, <2>4, <2>5, <2>6
  <2>8. attached'[b] - mapped'[b] - Holds(c, b, "map")' = attached[b] - mapped[b] - Holds(c, b, "map")
    BY ONLY <2>3, <2>5
  <2>9. file_count'[b] - attached'[b] - Descriptors(b)' - Holds(c, b, "attach")'
          = file_count[b] - attached[b] - Descriptors(b) - Holds(c, b, "attach")
    BY ONLY <1>2, <2>3, <2>4, <2>5, <2>6, b \in Bufs
  <2> QED BY <2>1, <2>2, <2>7, <2>8, <2>9, AccountedGo
<1> QED BY <1>2, <1>3 DEF Accounts

LEMMA MapMapAccounts ==
  ASSUME RefInv, DmaTypeOK', NEW c \in Processes, MapMap(c)
  PROVE  Accounts'
<1>0. map_pc[c] = "map" /\ map_buf[c] \in Bufs
  BY DEF MapMap, MapGo, RefInv, CallsUnderWay
<1> PICK x \in Bufs : x = map_buf[c]
  BY <1>0
<1>1. /\ UNCHANGED <<file_count, freed>>
      /\ attached' = attached
      /\ mapped' = [mapped EXCEPT ![x] = @ + 1]
      /\ mem_list' = mem_list
      /\ fds' = fds /\ map_buf[c] = x /\ map_buf' = map_buf
      /\ map_pc[c] = "map" /\ map_pc' = [map_pc EXCEPT ![c] = "add"]
  BY <1>0 DEF MapMap, MapGo, ListVars, ClientVars
<1>2. FreedUnused' /\ \A b \in Bufs : file_count'[b] = file_count[b]
  BY <1>1 DEF RefInv, FreedUnused
<1>3. ASSUME NEW b \in Bufs PROVE Accounted(b)'
  <2>1. DmaTypeOK /\ Accounted(b) BY DEF RefInv
  <2>2. /\ map_pc'[c] = "add" /\ map_buf'[c] = x
        /\ \A d \in Processes \ {c} : map_pc'[d] = map_pc[d] /\ map_buf'[d] = map_buf[d]
    BY <1>1, <2>1 DEF DmaTypeOK
  <2>3. /\ Holds(c, b, "attach") = 0 /\ Holds(c, b, "attach")' = 0
        /\ Holds(c, b, "map") = (IF b = x THEN 1 ELSE 0) /\ Holds(c, b, "map")' = 0
        /\ Holds(c, b, "add") = 0 /\ Holds(c, b, "add")' = (IF b = x THEN 1 ELSE 0)
    BY <1>1, <2>2, VeDmaBufAssumption DEF Holds
  <2>4. Entries(b)' = Entries(b) /\ Descriptors(b)' = Descriptors(b)
    BY <1>1 DEF Entries, Descriptors
  <2>5. /\ attached'[b] = attached[b]
        /\ mapped'[b] = mapped[b] + (IF b = x THEN 1 ELSE 0)
        /\ file_count[b] \in Int /\ attached[b] \in Int /\ mapped[b] \in Int
    BY <1>1, <2>1 DEF DmaTypeOK
  <2>6. Entries(b) \in Nat /\ Descriptors(b) \in Nat BY <2>1, CountsTyped
  <2>7. mapped'[b] - Entries(b)' - Holds(c, b, "add")' = mapped[b] - Entries(b) - Holds(c, b, "add")
    BY ONLY <2>3, <2>4, <2>5, <2>6
  <2>8. attached'[b] - mapped'[b] - Holds(c, b, "map")' = attached[b] - mapped[b] - Holds(c, b, "map")
    BY ONLY <2>3, <2>5
  <2>9. file_count'[b] - attached'[b] - Descriptors(b)' - Holds(c, b, "attach")'
          = file_count[b] - attached[b] - Descriptors(b) - Holds(c, b, "attach")
    BY ONLY <1>2, <2>3, <2>4, <2>5, <2>6, b \in Bufs
  <2> QED BY <2>1, <2>2, <2>7, <2>8, <2>9, AccountedGo
<1> QED BY <1>2, <1>3 DEF Accounts

LEMMA MapMapFailsAccounts ==
  ASSUME RefInv, DmaTypeOK', NEW c \in Processes, MapMapFails(c)
  PROVE  Accounts'
<1>0. map_pc[c] = "map" /\ map_buf[c] \in Bufs
  BY DEF MapMapFails, MapReturns, MapGo, RefInv, CallsUnderWay
<1> PICK x \in Bufs : x = map_buf[c]
  BY <1>0
<1>1. /\ PutRef(x)
      /\ attached' = [attached EXCEPT ![x] = @ - 1]
      /\ mapped' = mapped
      /\ mem_list' = mem_list
      /\ fds' = fds /\ map_buf[c] = x /\ map_buf' = [map_buf EXCEPT ![c] = NoBuf]
      /\ map_pc[c] = "map" /\ map_pc' = [map_pc EXCEPT ![c] = "user"]
  BY <1>0 DEF MapMapFails, MapReturns, MapGo, ListVars, ClientVars
<1>2. /\ FreedUnused'
      /\ \A b \in Bufs : file_count'[b] = file_count[b] - (IF b = x THEN 1 ELSE 0)
  <2>1. Calls(x, {"map"}) > 0 /\ Calls(x, {"map"}) \in Nat
    BY <1>1, CountsTyped DEF RefInv
  <2>2. file_count[x] > 0 /\ \A b \in Bufs : file_count[b] >= 0 BY <2>1, AccountedBounds
  <2> QED BY <1>1, <2>2, PutRefKeeps DEF RefInv
<1>3. ASSUME NEW b \in Bufs PROVE Accounted(b)'
  <2>1. DmaTypeOK /\ Accounted(b) BY DEF RefInv
  <2>2. /\ map_pc'[c] = "user" /\ map_buf'[c] = NoBuf
        /\ \A d \in Processes \ {c} : map_pc'[d] = map_pc[d] /\ map_buf'[d] = map_buf[d]
    BY <1>1, <2>1 DEF DmaTypeOK
  <2>3. /\ Holds(c, b, "attach") = 0 /\ Holds(c, b, "attach")' = 0
        /\ Holds(c, b, "map") = (IF b = x THEN 1 ELSE 0) /\ Holds(c, b, "map")' = 0
        /\ Holds(c, b, "add") = 0 /\ Holds(c, b, "add")' = 0
    BY <1>1, <2>2, VeDmaBufAssumption DEF Holds
  <2>4. Entries(b)' = Entries(b) /\ Descriptors(b)' = Descriptors(b)
    BY <1>1 DEF Entries, Descriptors
  <2>5. /\ attached'[b] = attached[b] - (IF b = x THEN 1 ELSE 0)
        /\ mapped'[b] = mapped[b]
        /\ file_count[b] \in Int /\ attached[b] \in Int /\ mapped[b] \in Int
    BY <1>1, <2>1 DEF DmaTypeOK
  <2>6. Entries(b) \in Nat /\ Descriptors(b) \in Nat BY <2>1, CountsTyped
  <2>7. mapped'[b] - Entries(b)' - Holds(c, b, "add")' = mapped[b] - Entries(b) - Holds(c, b, "add")
    BY ONLY <2>3, <2>4, <2>5, <2>6
  <2>8. attached'[b] - mapped'[b] - Holds(c, b, "map")' = attached[b] - mapped[b] - Holds(c, b, "map")
    BY ONLY <2>3, <2>5
  <2>9. file_count'[b] - attached'[b] - Descriptors(b)' - Holds(c, b, "attach")'
          = file_count[b] - attached[b] - Descriptors(b) - Holds(c, b, "attach")
    BY ONLY <1>2, <2>3, <2>4, <2>5, <2>6, b \in Bufs
  <2> QED BY <2>1, <2>2, <2>7, <2>8, <2>9, AccountedGo
<1> QED BY <1>2, <1>3 DEF Accounts

LEMMA MapAddAccounts ==
  ASSUME RefInv, DmaTypeOK', NEW c \in Processes, MapAdd(c)
  PROVE  Accounts'
<1>0. map_pc[c] = "add" /\ map_buf[c] \in Bufs
  BY DEF MapAdd, MapGo, RefInv, CallsUnderWay
<1> PICK x \in Bufs : x = map_buf[c]
  BY <1>0
<1>1. /\ UNCHANGED <<file_count, freed>>
      /\ attached' = attached
      /\ mapped' = mapped
      /\ mem_list' = Append(mem_list, [fd |-> map_fd[c], buf |-> x, p_id |-> c, filp |-> FilpOf[c]])
      /\ fds' = fds /\ map_buf[c] = x /\ map_buf' = [map_buf EXCEPT ![c] = NoBuf]
      /\ map_pc[c] = "add" /\ map_pc' = [map_pc EXCEPT ![c] = "answer"]
  BY <1>0 DEF MapAdd, MapGo, ListVars, ClientVars
<1>2. FreedUnused' /\ \A b \in Bufs : file_count'[b] = file_count[b]
  BY <1>1 DEF RefInv, FreedUnused
<1>3. ASSUME NEW b \in Bufs PROVE Accounted(b)'
  <2>1. DmaTypeOK /\ Accounted(b) BY DEF RefInv
  <2>2. /\ map_pc'[c] = "answer" /\ map_buf'[c] = NoBuf
        /\ \A d \in Processes \ {c} : map_pc'[d] = map_pc[d] /\ map_buf'[d] = map_buf[d]
    BY <1>1, <2>1 DEF DmaTypeOK
  <2>3. /\ Holds(c, b, "attach") = 0 /\ Holds(c, b, "attach")' = 0
        /\ Holds(c, b, "map") = 0 /\ Holds(c, b, "map")' = 0
        /\ Holds(c, b, "add") = (IF b = x THEN 1 ELSE 0) /\ Holds(c, b, "add")' = 0
    BY <1>1, <2>2, VeDmaBufAssumption DEF Holds
  <2>4. Entries(b)' = Entries(b) + (IF b = x THEN 1 ELSE 0) /\ Descriptors(b)' = Descriptors(b)
    <3> DEFINE e == [fd |-> map_fd[c], buf |-> x, p_id |-> c, filp |-> FilpOf[c]]
    <3>1. mem_list \in Seq(MapEntry) /\ mem_list' \in Seq(MapEntry) /\ map_fd[c] \in Fds
      BY <2>1, <1>1 DEF DmaTypeOK, RefInv, CallsUnderWay
    <3>2. e \in MapEntry BY <3>1 DEF MapEntry
    <3>3. e \in OfBuf(b) <=> b = x BY <3>2 DEF OfBuf
    <3>4. mem_list' = Append(mem_list, e) BY <1>1
    <3> HIDE DEF e
    <3>5. Cardinality(Places(mem_list', OfBuf(b)))
            = Cardinality(Places(mem_list, OfBuf(b))) + (IF e \in OfBuf(b) THEN 1 ELSE 0)
      BY <3>1, <3>2, <3>4, PlacesAppend
    <3>6. Entries(b)' = Cardinality(Places(mem_list', OfBuf(b)))
      BY <3>1, EntriesNext
    <3>7. Descriptors(b)' = Descriptors(b) BY <1>1 DEF Descriptors
    <3> QED BY <3>1, <3>3, <3>5, <3>6, <3>7, EntriesArePlaces
  <2>5. /\ attached'[b] = attached[b]
        /\ mapped'[b] = mapped[b]
        /\ file_count[b] \in Int /\ attached[b] \in Int /\ mapped[b] \in Int
    BY <1>1, <2>1 DEF DmaTypeOK
  <2>6. Entries(b) \in Nat /\ Descriptors(b) \in Nat BY <2>1, CountsTyped
  <2>7. mapped'[b] - Entries(b)' - Holds(c, b, "add")' = mapped[b] - Entries(b) - Holds(c, b, "add")
    BY ONLY <2>3, <2>4, <2>5, <2>6
  <2>8. attached'[b] - mapped'[b] - Holds(c, b, "map")' = attached[b] - mapped[b] - Holds(c, b, "map")
    BY ONLY <2>3, <2>5
  <2>9. file_count'[b] - attached'[b] - Descriptors(b)' - Holds(c, b, "attach")'
          = file_count[b] - attached[b] - Descriptors(b) - Holds(c, b, "attach")
    BY ONLY <1>2, <2>3, <2>4, <2>5, <2>6, b \in Bufs
  <2> QED BY <2>1, <2>2, <2>7, <2>8, <2>9, AccountedGo
<1> QED BY <1>2, <1>3 DEF Accounts

LEMMA UnmapDmaBufAccounts ==
  ASSUME RefInv, DmaTypeOK', NEW c \in Processes, NEW n \in Fds, UnmapDmaBuf(c, n)
  PROVE  Accounts'
<1>1. mem_list \in Seq(MapEntry) /\ mem_list' \in Seq(MapEntry) BY DEF RefInv, DmaTypeOK
<1> PICK i \in 1 .. Len(mem_list) : i = EntryOf(c, n)
  BY <1>1, EntryFound DEF UnmapDmaBuf
<1>2. i \in DOMAIN mem_list /\ mem_list[i] \in MapEntry BY ONLY <1>1, i \in 1 .. Len(mem_list), LenProperties
<1> PICK x \in Bufs : x = mem_list[i].buf
  BY <1>2 DEF MapEntry
<1>3. /\ PutRef(x)
      /\ attached' = [attached EXCEPT ![x] = @ - 1]
      /\ mapped' = [mapped EXCEPT ![x] = @ - 1]
      /\ mem_list' = RemoveAt(mem_list, i)
      /\ UNCHANGED <<fds, map_pc, map_buf>>
  BY DEF UnmapDmaBuf, CallVars
<1>4. /\ FreedUnused'
      /\ \A b \in Bufs : file_count'[b] = file_count[b] - (IF b = x THEN 1 ELSE 0)
  <2>1. Entries(x) > 0 /\ Entries(x) \in Nat BY <1>2, CountsTyped DEF RefInv
  <2>2. file_count[x] > 0
    <3>1. /\ file_count[x] \in Nat /\ attached[x] \in Nat /\ mapped[x] \in Nat
          /\ Entries(x) <= mapped[x] /\ mapped[x] <= attached[x] /\ attached[x] <= file_count[x]
      BY AccountedBounds
    <3> QED BY <2>1, <3>1
  <2>3. \A b \in Bufs : file_count[b] >= 0 BY AccountedBounds
  <2> QED BY <1>3, <2>2, <2>3, PutRefKeeps DEF RefInv
<1>5. ASSUME NEW b \in Bufs PROVE Accounted(b)'
  <2>1. DmaTypeOK /\ Accounted(b) BY DEF RefInv
  <2>2. /\ Holds(c, b, "add")' = Holds(c, b, "add") /\ Holds(c, b, "map")' = Holds(c, b, "map")
        /\ Holds(c, b, "attach")' = Holds(c, b, "attach")
    BY <1>3 DEF Holds
  <2>3. /\ Holds(c, b, "add") \in {0, 1} /\ Holds(c, b, "map") \in {0, 1}
        /\ Holds(c, b, "attach") \in {0, 1}
    BY DEF Holds
  <2>4. Entries(b)' = Entries(b) - (IF b = x THEN 1 ELSE 0) /\ Descriptors(b)' = Descriptors(b)
    <3>1. Cardinality(Places(RemoveAt(mem_list, i), OfBuf(b)))
            = Cardinality(Places(mem_list, OfBuf(b))) - (IF mem_list[i] \in OfBuf(b) THEN 1 ELSE 0)
      BY <1>1, PlacesRemoveAt
    <3>2. mem_list[i] \in OfBuf(b) <=> b = x BY <1>2 DEF OfBuf
    <3>3. Entries(b)' = Cardinality(Places(mem_list', OfBuf(b))) BY <1>1, EntriesNext
    <3>4. Descriptors(b)' = Descriptors(b) BY <1>3 DEF Descriptors
    <3> QED BY <1>1, <1>3, <3>1, <3>2, <3>3, <3>4, EntriesArePlaces
  <2>5. /\ attached'[b] = attached[b] - (IF b = x THEN 1 ELSE 0)
        /\ mapped'[b] = mapped[b] - (IF b = x THEN 1 ELSE 0)
        /\ file_count[b] \in Int /\ attached[b] \in Int /\ mapped[b] \in Int
    <3>1. file_count \in [Bufs -> Int] /\ attached \in [Bufs -> Int] /\ mapped \in [Bufs -> Int]
      BY <2>1 DEF DmaTypeOK
    <3>2. x \in Bufs /\ b \in Bufs /\ attached' = [attached EXCEPT ![x] = @ - 1]
          /\ mapped' = [mapped EXCEPT ![x] = @ - 1]
      BY <1>3
    <3> QED BY ONLY <3>1, <3>2
  <2>6. Entries(b) \in Nat /\ Descriptors(b) \in Nat BY <2>1, CountsTyped
  <2>7. mapped'[b] - Entries(b)' - Holds(c, b, "add")' = mapped[b] - Entries(b) - Holds(c, b, "add")
    BY ONLY <2>2, <2>3, <2>4, <2>5, <2>6
  <2>8. attached'[b] - mapped'[b] - Holds(c, b, "map")' = attached[b] - mapped[b] - Holds(c, b, "map")
    BY ONLY <2>2, <2>3, <2>5
  <2>9. file_count'[b] - attached'[b] - Descriptors(b)' - Holds(c, b, "attach")'
          = file_count[b] - attached[b] - Descriptors(b) - Holds(c, b, "attach")
    <3>1. file_count'[b] = file_count[b] - (IF b = x THEN 1 ELSE 0) BY <1>4
    <3>2. Holds(c, b, "attach") \in Int BY <2>3
    <3>3. CASE b = x
      <4>1. file_count'[b] = file_count[b] - 1 /\ attached'[b] = attached[b] - 1
        BY ONLY <2>5, <3>1, <3>3
      <4>2. /\ file_count[b] \in Int /\ attached[b] \in Int /\ Descriptors(b) \in Int
            /\ Descriptors(b)' = Descriptors(b) /\ Holds(c, b, "attach")' = Holds(c, b, "attach")
        BY <2>2, <2>4, <2>5, <2>6
      <4>3. file_count'[b] - attached'[b] = file_count[b] - attached[b] BY ONLY <4>1, <4>2
      <4> QED BY ONLY <4>2, <4>3
    <3>4. CASE b # x BY ONLY <2>2, <2>4, <2>5, <2>6, <3>1, <3>2, <3>4
    <3> QED BY <3>3, <3>4
  <2> QED BY <1>3, <2>1, <2>7, <2>8, <2>9, AccountedGo
<1> QED BY <1>4, <1>5 DEF Accounts

\* Steps that touch neither buffers nor the calls that have one.
LEMMA QuietAccounts ==
  ASSUME RefInv, UNCHANGED <<file_count, freed, attached, mapped, mem_list, fds, map_buf>>,
         \A c \in Processes : \/ map_pc'[c] = map_pc[c]
                              \/ {map_pc[c], map_pc'[c]} \cap {"attach", "map", "add"} = {}
  PROVE  Accounts'
<1>1. ASSUME NEW b \in Bufs PROVE Accounted(b)'
  <2>1. ASSUME NEW s \in {"attach", "map", "add"} PROVE Calls(b, {s})' = Calls(b, {s})
    <3>1. \A c \in Processes : map_pc'[c] \in {s} <=> map_pc[c] \in {s} OBVIOUS
    <3> QED BY <3>1 DEF Calls
  <2>2. Entries(b)' = Entries(b) /\ Descriptors(b)' = Descriptors(b) BY DEF Entries, Descriptors
  <2>3. Accounted(b) BY DEF RefInv
  <2> QED BY <2>1, <2>2, <2>3 DEF Accounted
<1>2. FreedUnused' BY DEF RefInv, FreedUnused
<1> QED BY <1>1, <1>2 DEF Accounts

\* A mapping that fails at its first step has no buffer to give back.
LEMMA MapGetFailsEmpty ==
  ASSUME DmaTypeOK, CallsUnderWay, NEW c \in Processes, MapGetFails(c)
  PROVE  map_buf' = map_buf
<1>1. map_pc[c] = "get" /\ map_buf' = [map_buf EXCEPT ![c] = NoBuf]
  BY DEF MapGetFails, MapReturns, MapGo
<1>2. map_buf[c] \in Bufs <=> map_pc[c] \in {"attach", "map", "add"} BY DEF CallsUnderWay
<1>3. map_buf \in [Processes -> Bufs \cup {NoBuf}] BY DEF DmaTypeOK
<1>4. map_buf[c] = NoBuf BY ONLY <1>1, <1>2, <1>3, c \in Processes
<1> QED BY ONLY <1>1, <1>3, <1>4

LEMMA RefInvStep == RefInv /\ [DmaNext]_dmaVars => RefInv'
<1> SUFFICES ASSUME RefInv, [DmaNext]_dmaVars PROVE RefInv'
  OBVIOUS
<1>1. DmaTypeOK' /\ CallsUnderWay' BY DmaTypeStep DEF RefInv
<1>2. Accounts'
  <2>1. ASSUME NEW c \in Processes, NEW n \in Fds, MapDmaBuf(c, n) PROVE Accounts'
    BY <2>1, QuietAccounts DEF MapDmaBuf, MapGo, RefInv, DmaTypeOK, ClientVars
  <2>2. ASSUME NEW c \in Processes, MapRefused(c) PROVE Accounts'
    BY <2>2, QuietAccounts DEF MapRefused, CallVars, ClientVars
  <2>3. ASSUME NEW c \in Processes, MapGetFails(c) PROVE Accounts'
    <3>2. map_buf' = map_buf
      BY <2>3, MapGetFailsEmpty DEF RefInv
    <3> QED BY <2>3, <3>2, QuietAccounts
      DEF MapGetFails, MapReturns, MapGo, RefInv, DmaTypeOK, ListVars, ClientVars
  <2>4. ASSUME NEW c \in Processes, MapAnswer(c) PROVE Accounts'
    BY <2>4, QuietAccounts DEF MapAnswer, MapGo, RefInv, DmaTypeOK, ListVars
  <2>5. ASSUME NEW c \in Processes, MapAnswerFails(c) PROVE Accounts'
    BY <2>5, QuietAccounts DEF MapAnswerFails, MapGo, RefInv, DmaTypeOK, ListVars
  <2>6. CASE UNCHANGED dmaVars
    BY <2>6, QuietAccounts DEF dmaVars
  <2>7. ASSUME NEW c \in Processes, DmaProcess(c) PROVE Accounts'
    BY <1>1, <2>1, <2>2, <2>3, <2>4, <2>5, <2>7, ImportAccounts, CloseFdAccounts,
       DmaDieAccounts, MapGetAccounts, MapAttachAccounts, MapAttachFailsAccounts,
       MapMapAccounts, MapMapFailsAccounts, MapAddAccounts, UnmapDmaBufAccounts DEF DmaProcess
  <2> QED BY <2>6, <2>7 DEF DmaNext
<1> QED BY <1>1, <1>2 DEF RefInv, Accounts

LEMMA RefInvInit == DmaInit => RefInv
<1> SUFFICES ASSUME DmaInit PROVE RefInv
  OBVIOUS
<1> USE VeDmaBufAssumption DEF DmaInit
<1>1. mem_list \in Seq(MapEntry) BY EmptySeq
<1>2. DmaTypeOK BY <1>1 DEF DmaTypeOK, MapLocation
<1>3. CallsUnderWay BY DEF CallsUnderWay
<1>4. FreedUnused BY DEF FreedUnused
<1>5. ASSUME NEW b \in Bufs PROVE Accounted(b)
  <2>1. {i \in DOMAIN mem_list : mem_list[i].buf = b} = {} OBVIOUS
  <2>2. \A pcs : {c \in Processes : map_buf[c] = b /\ map_pc[c] \in pcs} = {} OBVIOUS
  <2>3. {d \in Processes \X Fds : fds[d[1]][d[2]] = b} = {} OBVIOUS
  <2>4. Entries(b) = 0 BY <2>1, FS_EmptySet DEF Entries
  <2>5. Calls(b, {"add"}) = 0 /\ Calls(b, {"map"}) = 0 /\ Calls(b, {"attach"}) = 0
    BY <2>2, FS_EmptySet DEF Calls
  <2>6. Descriptors(b) = 0 BY <2>3, FS_EmptySet DEF Descriptors
  <2> QED BY <2>4, <2>5, <2>6 DEF Accounted
<1> QED BY <1>2, <1>3, <1>4, <1>5 DEF RefInv

\* The accounts of all buffers are kept by every step of every client.
THEOREM RefInvariance == DmaSpec => []RefInv
BY RefInvInit, RefInvStep, PTL DEF DmaSpec

\* Every reference, attachment and mapping has exactly one owner, and a mapped
\* buffer is not freed, for any number of processes, descriptors and buffers.
THEOREM RefsAccounted == DmaSpec => []EveryRefAccounted
<1>1. RefInv => EveryRefAccounted
  <2> SUFFICES ASSUME RefInv, NEW b \in Bufs
               PROVE  Accounted(b) /\ (mapped[b] > 0 => b \notin freed)
    BY DEF EveryRefAccounted, Accounted
  <2>1. Accounted(b) BY DEF RefInv
  <2>2. ASSUME mapped[b] > 0, b \in freed PROVE FALSE
    <3>1. file_count[b] = 0 BY <2>2 DEF RefInv, FreedUnused
    <3>2. mapped[b] \in Nat /\ attached[b] \in Nat /\ mapped[b] <= attached[b] /\ attached[b] <= file_count[b]
      BY AccountedBounds
    <3> QED BY <2>2, <3>1, <3>2
  <2> QED BY <2>1, <2>2
<1> QED BY RefInvariance, <1>1, PTL

-----------------------------------------------------------------------------
(* What clients know of the list.                                           *)

\* The entries that process c has for its descriptor n.
Mine(c, n) == {e \in MapEntry : e.p_id = c /\ e.fd = n}

\* The entry whose number is still to be answered.
Unanswered(c, n) == IF map_pc[c] = "answer" /\ map_fd[c] = n THEN 1 ELSE 0

CountKnown(c, n) == Cardinality(Places(mem_list, Mine(c, n))) = told[c][n] + Unanswered(c, n)

BufKnown(c, n) ==
  \A i \in DOMAIN mem_list : mem_list[i] \in Mine(c, n) => mem_list[i].buf = fds[c][n]

CallKnown(c) == map_pc[c] \in {"attach", "map", "add"} => map_buf[c] = fds[c][map_fd[c]]

Knows(c) == CallKnown(c) /\ \A n \in Fds : CountKnown(c, n) /\ BufKnown(c, n)

\* Every client knows its entries until it loses sight of one or dies.
KnownInv == \A c \in Processes \ strays : map_pc[c] # "gone" => Knows(c)

\* What a step of d may do to the list: add or remove an entry of d.
ListStep(d) ==
  \/ mem_list' = mem_list
  \/ \E e \in MapEntry : e.p_id = d /\ mem_list' = Append(mem_list, e)
  \/ \E i \in 1 .. Len(mem_list) : mem_list[i].p_id = d /\ mem_list' = RemoveAt(mem_list, i)

\* What it may do to other processes: nothing.
OthersKept(d) ==
  \A c \in Processes \ {d} :
    /\ fds'[c] = fds[c] /\ told'[c] = told[c] /\ (c \in strays' <=> c \in strays)
    /\ map_pc'[c] = map_pc[c] /\ map_fd'[c] = map_fd[c] /\ map_buf'[c] = map_buf[c]

LEMMA DmaProcessFrame ==
  ASSUME DmaTypeOK, CallsUnderWay, NEW d \in Processes, DmaProcess(d)
  PROVE  ListStep(d) /\ OthersKept(d)
<1> USE DEF MapGo, ListVars, CallVars, ClientVars
<1>1. ASSUME NEW n \in Fds, NEW b \in Bufs, Import(d, n, b) PROVE ListStep(d) /\ OthersKept(d)
  BY <1>1 DEF Import, DmaTypeOK, ListStep, OthersKept
<1>2. ASSUME NEW n \in Fds, CloseFd(d, n) PROVE ListStep(d) /\ OthersKept(d)
  BY <1>2 DEF CloseFd, DmaTypeOK, ListStep, OthersKept
<1>3. CASE DmaDie(d)
  BY <1>3 DEF DmaDie, DmaTypeOK, ListStep, OthersKept
<1>4. ASSUME NEW n \in Fds, MapDmaBuf(d, n) PROVE ListStep(d) /\ OthersKept(d)
  BY <1>4 DEF MapDmaBuf, DmaTypeOK, ListStep, OthersKept
<1>5. CASE MapRefused(d)
  BY <1>5 DEF MapRefused, ListStep, OthersKept
<1>6. CASE MapGet(d)
  BY <1>6 DEF MapGet, DmaTypeOK, ListStep, OthersKept
<1>7. CASE MapGetFails(d) \/ MapAttachFails(d) \/ MapMapFails(d)
  BY <1>7 DEF MapGetFails, MapAttachFails, MapMapFails, MapReturns, DmaTypeOK, ListStep, OthersKept
<1>8. CASE MapAttach(d) \/ MapMap(d)
  BY <1>8 DEF MapAttach, MapMap, DmaTypeOK, ListStep, OthersKept
<1>9. CASE MapAdd(d)
  <2> DEFINE e == [fd |-> map_fd[d], buf |-> map_buf[d], p_id |-> d, filp |-> FilpOf[d]]
  <2>1. e \in MapEntry /\ e.p_id = d
    BY <1>9 DEF DmaTypeOK, CallsUnderWay, MapAdd, MapEntry
  <2>2. mem_list' = Append(mem_list, e) BY <1>9 DEF MapAdd
  <2>3. OthersKept(d) BY <1>9 DEF MapAdd, DmaTypeOK, OthersKept
  <2> HIDE DEF e
  <2> QED BY <2>1, <2>2, <2>3 DEF ListStep
<1>10. CASE MapAnswer(d) \/ MapAnswerFails(d)
  BY <1>10 DEF MapAnswer, MapAnswerFails, DmaTypeOK, ListStep, OthersKept
<1>11. ASSUME NEW n \in Fds, UnmapDmaBuf(d, n) PROVE ListStep(d) /\ OthersKept(d)
  <2>1. /\ EntryOf(d, n) \in 1 .. Len(mem_list)
        /\ mem_list[EntryOf(d, n)].p_id = d
    BY <1>11, EntryFound DEF DmaTypeOK, UnmapDmaBuf, Matches
  <2>2. ListStep(d) BY <1>11, <2>1 DEF UnmapDmaBuf, ListStep
  <2>3. OthersKept(d) BY <1>11 DEF UnmapDmaBuf, DmaTypeOK, OthersKept
  <2> QED BY <2>2, <2>3
<1> QED
  BY <1>1, <1>2, <1>3, <1>4, <1>5, <1>6, <1>7, <1>8, <1>9, <1>10, <1>11 DEF DmaProcess

\* Whoever else steps, a client's entries stay.
LEMMA KnowsOther ==
  ASSUME DmaTypeOK, NEW c \in Processes, NEW d \in Processes \ {c}, Knows(c),
         ListStep(d), OthersKept(d)
  PROVE  Knows(c)'
<1>1. CallKnown(c)' BY DEF Knows, CallKnown, OthersKept
<1>2. ASSUME NEW n \in Fds PROVE CountKnown(c, n)' /\ BufKnown(c, n)'
  <2>1. mem_list \in Seq(MapEntry) BY DEF DmaTypeOK
  <2> DEFINE Kept ==
        /\ Cardinality(Places(mem_list', Mine(c, n))) = Cardinality(Places(mem_list, Mine(c, n)))
        /\ \A i \in DOMAIN mem_list' : mem_list'[i] \in Mine(c, n) =>
              \E j \in DOMAIN mem_list : mem_list[j] = mem_list'[i]
  <2>2. Kept
    <3>1. CASE mem_list' = mem_list BY <3>1
    <3>2. ASSUME NEW e \in MapEntry, e.p_id = d, mem_list' = Append(mem_list, e)
          PROVE  Kept
      <4>1. e \notin Mine(c, n) BY <3>2 DEF Mine
      <4>2. Cardinality(Places(mem_list, Mine(c, n))) \in Nat BY <2>1, PlacesFinite
      <4>3. /\ Len(mem_list) \in Nat /\ DOMAIN mem_list = 1 .. Len(mem_list)
            /\ DOMAIN mem_list' = 1 .. Len(mem_list) + 1
            /\ \A i \in 1 .. Len(mem_list) : mem_list'[i] = mem_list[i]
            /\ mem_list'[Len(mem_list) + 1] = e
        BY <2>1, <3>2, AppendProperties, LenProperties
      <4>4. \A i \in DOMAIN mem_list' : mem_list'[i] \in Mine(c, n) =>
              \E j \in DOMAIN mem_list : mem_list[j] = mem_list'[i]
        BY <4>1, <4>3
      <4> QED BY <2>1, <3>2, <4>1, <4>2, <4>4, PlacesAppend
    <3>3. ASSUME NEW k \in 1 .. Len(mem_list), mem_list[k].p_id = d,
                 mem_list' = RemoveAt(mem_list, k)
          PROVE  Kept
      <4>1. mem_list[k] \notin Mine(c, n) BY <3>3 DEF Mine
      <4>2. Cardinality(Places(mem_list, Mine(c, n))) \in Nat BY <2>1, PlacesFinite
      <4>3. /\ Len(mem_list) \in Nat /\ DOMAIN mem_list = 1 .. Len(mem_list)
            /\ DOMAIN mem_list' = 1 .. Len(mem_list) - 1
            /\ \A i \in 1 .. Len(mem_list) - 1 : mem_list'[i] = mem_list[IF i < k THEN i ELSE i + 1]
        BY <2>1, <3>3, RemoveAtIs, LenProperties
      <4>4. \A i \in DOMAIN mem_list' : \E j \in DOMAIN mem_list : mem_list[j] = mem_list'[i]
        <5> SUFFICES ASSUME NEW i \in 1 .. Len(mem_list) - 1
                     PROVE  \E j \in DOMAIN mem_list : mem_list[j] = mem_list'[i]
          BY <4>3
        <5>1. (IF i < k THEN i ELSE i + 1) \in DOMAIN mem_list BY <4>3
        <5> QED BY <4>3, <5>1
      <4> QED BY <2>1, <3>3, <4>1, <4>2, <4>4, PlacesRemoveAt
    <3> QED BY <3>1, <3>2, <3>3 DEF ListStep
  <2>3. CountKnown(c, n)' BY <2>2 DEF Knows, CountKnown, Unanswered, OthersKept
  <2>4. BufKnown(c, n)' BY <2>2 DEF Knows, BufKnown, OthersKept
  <2> QED BY <2>3, <2>4
<1> QED BY <1>1, <1>2 DEF Knows

\* A step of c itself that leaves the list, its descriptors and what it was told.
LEMMA KnowsCall ==
  ASSUME DmaTypeOK, NEW c \in Processes, Knows(c), UNCHANGED <<mem_list, fds, told>>,
         \A n \in Fds : Unanswered(c, n)' = Unanswered(c, n), CallKnown(c)'
  PROVE  Knows(c)'
BY DEF Knows, CountKnown, BufKnown

\* An entry of c is there as often as c was told.
LEMMA NoneUntold ==
  ASSUME DmaTypeOK, NEW c \in Processes, NEW n \in Fds, Knows(c),
         told[c][n] = 0, map_pc[c] # "answer"
  PROVE  \A i \in DOMAIN mem_list : mem_list[i] \notin Mine(c, n)
<1>1. mem_list \in Seq(MapEntry) BY DEF DmaTypeOK
<1>2. Cardinality(Places(mem_list, Mine(c, n))) = 0 BY DEF Knows, CountKnown, Unanswered
<1>3. Places(mem_list, Mine(c, n)) = {} BY <1>1, <1>2, PlacesFinite, FS_EmptySet
<1> QED BY <1>3 DEF Places

LEMMA ImportKnows ==
  ASSUME DmaTypeOK, NEW c \in Processes, NEW n \in Fds, NEW b \in Bufs, Knows(c), Import(c, n, b)
  PROVE  Knows(c)'
<1>1. /\ map_pc[c] = "user" /\ fds[c][n] = NoBuf /\ fds' = [fds EXCEPT ![c][n] = b]
      /\ UNCHANGED <<mem_list, told, map_pc, map_fd, map_buf>>
  BY DEF Import, ListVars, CallVars
<1>2. CallKnown(c)' BY <1>1 DEF CallKnown
<1>3. ASSUME NEW m \in Fds PROVE CountKnown(c, m)' /\ BufKnown(c, m)'
  <2>1. CountKnown(c, m)' BY <1>1 DEF Knows, CountKnown, Unanswered
  <2>2. CASE m = n
    <3>1. ASSUME NEW i \in DOMAIN mem_list, mem_list[i] \in Mine(c, n) PROVE FALSE
      <4>1. mem_list[i].buf = NoBuf BY <1>1, <3>1 DEF Knows, BufKnown
      <4>2. mem_list[i].buf \in Bufs BY <3>1 DEF Mine, MapEntry
      <4> QED BY <4>1, <4>2, VeDmaBufAssumption
    <3>2. BufKnown(c, m)' BY <1>1, <2>2, <3>1 DEF BufKnown
    <3> QED BY <2>1, <3>2
  <2>3. CASE m # n
    <3>1. fds'[c][m] = fds[c][m] BY <1>1, <2>3 DEF DmaTypeOK
    <3>2. BufKnown(c, m)' BY <1>1, <3>1 DEF Knows, BufKnown
    <3> QED BY <2>1, <3>2
  <2> QED BY <2>2, <2>3
<1> QED BY <1>2, <1>3 DEF Knows

LEMMA CloseFdKnows ==
  ASSUME DmaTypeOK, NEW c \in Processes, NEW n \in Fds, Knows(c), CloseFd(c, n), c \notin strays'
  PROVE  Knows(c)'
<1>1. /\ map_pc[c] = "user" /\ fds' = [fds EXCEPT ![c][n] = NoBuf]
      /\ told' = [told EXCEPT ![c][n] = 0]
      /\ UNCHANGED <<mem_list, map_pc, map_fd, map_buf>>
  BY DEF CloseFd, ListVars, CallVars
<1>2. told[c][n] = 0
  BY DEF CloseFd, DmaTypeOK
<1>3. CallKnown(c)' BY <1>1 DEF CallKnown
<1>4. told' = told BY <1>1, <1>2 DEF DmaTypeOK
<1>5. ASSUME NEW m \in Fds PROVE CountKnown(c, m)' /\ BufKnown(c, m)'
  <2>1. CountKnown(c, m)' BY <1>1, <1>4 DEF Knows, CountKnown, Unanswered
  <2>2. CASE m = n
    <3>1. \A i \in DOMAIN mem_list : mem_list[i] \notin Mine(c, n) BY <1>1, <1>2, NoneUntold
    <3>2. BufKnown(c, m)' BY <1>1, <2>2, <3>1 DEF BufKnown
    <3> QED BY <2>1, <3>2
  <2>3. CASE m # n
    <3>1. fds'[c][m] = fds[c][m] BY <1>1, <2>3 DEF DmaTypeOK
    <3>2. BufKnown(c, m)' BY <1>1, <3>1 DEF Knows, BufKnown
    <3> QED BY <2>1, <3>2
  <2> QED BY <2>2, <2>3
<1> QED BY <1>3, <1>5 DEF Knows

LEMMA MapAddKnows ==
  ASSUME DmaTypeOK, CallsUnderWay, NEW c \in Processes, Knows(c), MapAdd(c)
  PROVE  Knows(c)'
<1> DEFINE e == [fd |-> map_fd[c], buf |-> map_buf[c], p_id |-> c, filp |-> FilpOf[c]]
<1>1. /\ map_pc[c] = "add" /\ map_pc'[c] = "answer"
      /\ UNCHANGED <<map_fd, fds, told>> /\ mem_list \in Seq(MapEntry)
  BY DEF MapAdd, MapGo, ClientVars, DmaTypeOK
<1>2. map_fd[c] \in Fds /\ map_buf[c] \in Bufs /\ map_buf[c] = fds[c][map_fd[c]]
  BY <1>1 DEF CallsUnderWay, Knows, CallKnown
<1>3. /\ e \in MapEntry /\ e.fd = map_fd[c] /\ e.p_id = c /\ e.buf = fds[c][map_fd[c]]
      /\ mem_list' = Append(mem_list, e)
  BY <1>2 DEF MapEntry, MapAdd
<1> HIDE DEF e
<1>4. CallKnown(c)' BY <1>1 DEF CallKnown
<1>5. ASSUME NEW n \in Fds PROVE CountKnown(c, n)' /\ BufKnown(c, n)'
  <2>1. e \in Mine(c, n) <=> map_fd[c] = n BY <1>3 DEF Mine
  <2>2. Cardinality(Places(mem_list', Mine(c, n)))
          = Cardinality(Places(mem_list, Mine(c, n))) + (IF e \in Mine(c, n) THEN 1 ELSE 0)
    BY <1>1, <1>3, PlacesAppend
  <2>3. Unanswered(c, n) = 0 /\ Unanswered(c, n)' = IF map_fd[c] = n THEN 1 ELSE 0
    BY <1>1 DEF Unanswered
  <2>4. Cardinality(Places(mem_list, Mine(c, n))) = told[c][n] + Unanswered(c, n) /\ told[c][n] \in Nat
    BY DEF Knows, CountKnown, DmaTypeOK
  <2>5. CountKnown(c, n)' BY <1>1, <2>1, <2>2, <2>3, <2>4 DEF CountKnown
  <2>6. /\ Len(mem_list) \in Nat /\ DOMAIN mem_list = 1 .. Len(mem_list)
        /\ DOMAIN mem_list' = 1 .. Len(mem_list) + 1
        /\ \A i \in 1 .. Len(mem_list) : mem_list'[i] = mem_list[i]
        /\ mem_list'[Len(mem_list) + 1] = e
    BY <1>1, <1>3, AppendProperties, LenProperties
  <2>7. ASSUME NEW i \in DOMAIN mem_list', mem_list'[i] \in Mine(c, n)
        PROVE  mem_list'[i].buf = fds'[c][n]
    <3>1. CASE i = Len(mem_list) + 1
      <4>1. mem_list'[i] = e BY <2>6, <3>1
      <4> QED BY <1>1, <1>3, <2>1, <2>7, <4>1
    <3>2. CASE i # Len(mem_list) + 1
      <4>1. i \in DOMAIN mem_list /\ mem_list'[i] = mem_list[i] BY <2>6, <3>2
      <4> QED BY <1>1, <2>7, <4>1 DEF Knows, BufKnown
    <3> QED BY <3>1, <3>2
  <2> QED BY <2>5, <2>7 DEF BufKnown
<1> QED BY <1>4, <1>5 DEF Knows

LEMMA MapAnswerKnows ==
  ASSUME DmaTypeOK, CallsUnderWay, NEW c \in Processes, Knows(c), MapAnswer(c)
  PROVE  Knows(c)'
<1>1. /\ map_pc[c] = "answer" /\ map_pc'[c] = "user" /\ map_fd[c] \in Fds
      /\ told' = [told EXCEPT ![c][map_fd[c]] = @ + 1]
      /\ UNCHANGED <<mem_list, fds>>
  BY DEF MapAnswer, MapGo, ListVars, DmaTypeOK, CallsUnderWay
<1>2. CallKnown(c)' BY <1>1 DEF CallKnown
<1>3. ASSUME NEW n \in Fds PROVE CountKnown(c, n)' /\ BufKnown(c, n)'
  <2>1. told[c][n] \in Nat BY DEF DmaTypeOK
  <2>2. Cardinality(Places(mem_list, Mine(c, n))) = told[c][n] + Unanswered(c, n)
    BY DEF Knows, CountKnown
  <2>3. Unanswered(c, n) = (IF map_fd[c] = n THEN 1 ELSE 0) /\ Unanswered(c, n)' = 0
    BY <1>1 DEF Unanswered
  <2>4. told'[c][n] = told[c][n] + (IF map_fd[c] = n THEN 1 ELSE 0)
    BY <1>1, <2>1 DEF DmaTypeOK
  <2>5. CountKnown(c, n)' BY <1>1, <2>1, <2>2, <2>3, <2>4 DEF CountKnown
  <2>6. BufKnown(c, n)' BY <1>1 DEF Knows, BufKnown
  <2> QED BY <2>5, <2>6
<1> QED BY <1>2, <1>3 DEF Knows

LEMMA UnmapDmaBufKnows ==
  ASSUME DmaTypeOK, NEW c \in Processes, NEW n \in Fds, Knows(c), UnmapDmaBuf(c, n)
  PROVE  Knows(c)'
<1>1. mem_list \in Seq(MapEntry) BY DEF DmaTypeOK
<1> PICK k \in 1 .. Len(mem_list) : k = EntryOf(c, n) /\ Matches(mem_list[k], c, n)
  BY <1>1, EntryFound DEF UnmapDmaBuf
<1>2. /\ map_pc[c] = "user" /\ mem_list' = RemoveAt(mem_list, k)
      /\ told' = [told EXCEPT ![c][n] = IF @ > 0 THEN @ - 1 ELSE 0]
      /\ UNCHANGED <<fds, map_pc, map_fd, map_buf>>
  BY DEF UnmapDmaBuf, CallVars
<1>3. mem_list[k] \in MapEntry /\ mem_list[k].fd = n /\ mem_list[k].p_id = c
  <2>1. mem_list[k] \in MapEntry BY ONLY <1>1, k \in 1 .. Len(mem_list), LenProperties
  <2> QED BY <2>1 DEF Matches
<1>4. CallKnown(c)' BY <1>2 DEF CallKnown
<1>5. ASSUME NEW m \in Fds PROVE CountKnown(c, m)' /\ BufKnown(c, m)'
  <2>1. mem_list[k] \in Mine(c, m) <=> m = n BY <1>3 DEF Mine
  <2>2. Cardinality(Places(mem_list', Mine(c, m)))
          = Cardinality(Places(mem_list, Mine(c, m))) - (IF m = n THEN 1 ELSE 0)
    BY <1>1, <1>2, <2>1, PlacesRemoveAt
  <2>3. told[c][m] \in Nat /\ told[c][m] = Cardinality(Places(mem_list, Mine(c, m)))
    BY <1>2 DEF DmaTypeOK, Knows, CountKnown, Unanswered
  <2>4. Unanswered(c, m)' = 0 BY <1>2 DEF Unanswered
  <2>5. told'[c][m] = told[c][m] - (IF m = n THEN 1 ELSE 0)
    <3>1. CASE m = n
      <4>1. k \in Places(mem_list, Mine(c, m))
        BY <1>1, <2>1, <3>1, LenProperties DEF Places
      <4>2. told[c][m] > 0 BY <1>1, <2>3, <4>1, PlacesFinite
      <4>3. told'[c][m] = IF told[c][m] > 0 THEN told[c][m] - 1 ELSE 0
        BY <1>2, <3>1 DEF DmaTypeOK
      <4> QED BY <2>3, <3>1, <4>2, <4>3
    <3>2. CASE m # n BY <1>2, <2>3, <3>2 DEF DmaTypeOK
    <3> QED BY <3>1, <3>2
  <2>6. CountKnown(c, m)' BY <2>2, <2>3, <2>4, <2>5 DEF CountKnown
  <2>7. /\ DOMAIN mem_list = 1 .. Len(mem_list) /\ Len(mem_list) \in Nat
        /\ DOMAIN mem_list' = 1 .. Len(mem_list) - 1
        /\ \A i \in 1 .. Len(mem_list) - 1 : mem_list'[i] = mem_list[IF i < k THEN i ELSE i + 1]
    BY <1>1, <1>2, RemoveAtIs, LenProperties
  <2>8. \A i \in DOMAIN mem_list' : \E j \in DOMAIN mem_list : mem_list[j] = mem_list'[i]
    <3> SUFFICES ASSUME NEW i \in 1 .. Len(mem_list) - 1
                 PROVE  \E j \in DOMAIN mem_list : mem_list[j] = mem_list'[i]
      BY <2>7
    <3>1. (IF i < k THEN i ELSE i + 1) \in DOMAIN mem_list BY <2>7
    <3> QED BY <2>7, <3>1
  <2>9. BufKnown(c, m)' BY <1>2, <2>8 DEF Knows, BufKnown
  <2> QED BY <2>6, <2>9
<1> QED BY <1>4, <1>5 DEF Knows

LEMMA KnowsOwn ==
  ASSUME DmaTypeOK, CallsUnderWay, NEW c \in Processes, Knows(c), DmaProcess(c),
         c \notin strays', map_pc'[c] # "gone"
  PROVE  Knows(c)'
<1> USE DEF MapGo, ListVars, CallVars, ClientVars
<1>1. CASE DmaDie(c)
  BY <1>1 DEF DmaDie, DmaTypeOK
<1>2. ASSUME NEW n \in Fds, MapDmaBuf(c, n) PROVE Knows(c)'
  <2>1. map_pc[c] = "user" /\ map_pc'[c] = "get" BY <1>2 DEF MapDmaBuf, DmaTypeOK
  <2> QED BY <1>2, <2>1, KnowsCall DEF MapDmaBuf, Unanswered, CallKnown
<1>3. CASE MapRefused(c)
  <2>1. CallKnown(c)' BY <1>3 DEF MapRefused, CallKnown, Knows
  <2> QED BY <1>3, <2>1, KnowsCall DEF MapRefused, Unanswered
<1>4. CASE MapGet(c)
  <2>1. map_pc[c] = "get" /\ map_pc'[c] = "attach" BY <1>4 DEF MapGet, DmaTypeOK
  <2>2. map_buf'[c] = fds[c][map_fd[c]] BY <1>4 DEF MapGet, DmaTypeOK
  <2> QED BY <1>4, <2>1, <2>2, KnowsCall DEF MapGet, Unanswered, CallKnown
<1>5. CASE MapGetFails(c) \/ MapAttachFails(c) \/ MapMapFails(c)
  <2>1. map_pc[c] # "answer" /\ map_pc'[c] = "user" /\ UNCHANGED <<mem_list, fds, told>>
    BY <1>5 DEF MapGetFails, MapAttachFails, MapMapFails, MapReturns, DmaTypeOK
  <2> QED BY <2>1, KnowsCall DEF Unanswered, CallKnown
<1>6. CASE MapAttach(c) \/ MapMap(c)
  <2>1. /\ map_pc[c] \in {"attach", "map"} /\ map_pc'[c] \in {"map", "add"}
        /\ UNCHANGED <<mem_list, fds, told, map_fd, map_buf>>
    BY <1>6 DEF MapAttach, MapMap, DmaTypeOK
  <2> QED BY <2>1, KnowsCall DEF Unanswered, CallKnown, Knows
<1>7. CASE MapAnswerFails(c)
  BY <1>7 DEF MapAnswerFails
<1> QED
  BY <1>1, <1>2, <1>3, <1>4, <1>5, <1>6, <1>7, ImportKnows, CloseFdKnows, MapAddKnows,
     MapAnswerKnows, UnmapDmaBufKnows DEF DmaProcess

LEMMA KnownInvStep == RefInv /\ KnownInv /\ [DmaNext]_dmaVars => KnownInv'
<1> SUFFICES ASSUME RefInv, KnownInv, [DmaNext]_dmaVars,
                    NEW c \in Processes, c \notin strays', map_pc'[c] # "gone"
             PROVE  Knows(c)'
  BY DEF KnownInv
<1>1. DmaTypeOK /\ CallsUnderWay BY DEF RefInv
<1>2. CASE UNCHANGED dmaVars
  <2>1. Knows(c) BY <1>2 DEF KnownInv, dmaVars
  <2> QED BY <1>2, <2>1 DEF dmaVars, Knows, CallKnown, CountKnown, BufKnown, Unanswered
<1>3. ASSUME NEW d \in Processes, DmaProcess(d) PROVE Knows(c)'
  <2>1. ListStep(d) /\ OthersKept(d) BY <1>1, <1>3, DmaProcessFrame
  <2>2. CASE c = d
    <3>1. c \notin strays /\ map_pc[c] # "gone"
      BY <1>1, <1>3, <2>2 DEF DmaProcess, Import, CloseFd, MapDmaBuf, UnmapDmaBuf, DmaDie, MapRefused,
        MapGet, MapGetFails, MapAttach, MapAttachFails, MapMap, MapMapFails, MapAdd, MapAnswer,
        MapAnswerFails, MapReturns, MapGo, ClientVars, CallVars
    <3> QED BY <1>1, <1>3, <2>2, <3>1, KnowsOwn DEF KnownInv
  <2>3. CASE c # d
    <3>1. c \notin strays /\ map_pc[c] # "gone" BY <2>1, <2>3 DEF OthersKept
    <3> QED BY <1>1, <2>1, <2>3, <3>1, KnowsOther DEF KnownInv
  <2> QED BY <2>2, <2>3
<1> QED BY <1>2, <1>3 DEF DmaNext

LEMMA KnownInvInit == DmaInit => KnownInv
<1> SUFFICES ASSUME DmaInit, NEW c \in Processes PROVE Knows(c)
  BY DEF KnownInv
<1>1. CallKnown(c) BY DEF DmaInit, CallKnown
<1>2. ASSUME NEW n \in Fds PROVE CountKnown(c, n) /\ BufKnown(c, n)
  <2>1. mem_list = <<>> /\ told[c][n] = 0 /\ map_pc[c] = "user" BY DEF DmaInit
  <2>2. Places(mem_list, Mine(c, n)) = {} BY <2>1 DEF Places
  <2>3. Cardinality(Places(mem_list, Mine(c, n))) = 0 BY <2>2, FS_EmptySet
  <2> QED BY <2>1, <2>3 DEF CountKnown, BufKnown, Unanswered
<1> QED BY <1>1, <1>2 DEF Knows

\* A client that has not lost sight of a mapping has as many entries for each
\* descriptor as it was told of, and all of the buffer the descriptor names.
THEOREM ListKnown == DmaSpec => []ClientsKnowTheirs
<1>1. RefInv /\ KnownInv => ClientsKnowTheirs
  <2> SUFFICES ASSUME RefInv, KnownInv, NEW c \in Processes \ strays, NEW n \in Fds,
                      map_pc[c] = "user"
               PROVE  LET mine == {i \in DOMAIN mem_list :
                                     mem_list[i].p_id = c /\ mem_list[i].fd = n}
                      IN  /\ Cardinality(mine) = told[c][n]
                          /\ \A i \in mine : mem_list[i].buf = fds[c][n]
    BY DEF ClientsKnowTheirs
  <2>1. Knows(c) /\ told[c][n] \in Nat BY DEF RefInv, KnownInv, DmaTypeOK
  <2>2. \A i \in DOMAIN mem_list : mem_list[i] \in MapEntry
    BY LenProperties DEF RefInv, DmaTypeOK
  <2>3. {i \in DOMAIN mem_list : mem_list[i].p_id = c /\ mem_list[i].fd = n}
          = Places(mem_list, Mine(c, n))
    BY <2>2 DEF Places, Mine
  <2>4. Cardinality(Places(mem_list, Mine(c, n))) = told[c][n]
    BY <2>1 DEF Knows, CountKnown, Unanswered
  <2>5. \A i \in Places(mem_list, Mine(c, n)) : mem_list[i].buf = fds[c][n]
    BY <2>1 DEF Knows, BufKnown, Places
  <2> QED BY <2>3, <2>4, <2>5
<1>2. RefInv /\ KnownInv /\ [DmaNext]_dmaVars => RefInv' /\ KnownInv'
  BY RefInvStep, KnownInvStep
<1> QED BY RefInvInit, KnownInvInit, <1>1, <1>2, PTL DEF DmaSpec

-----------------------------------------------------------------------------
(* The ioctls implement VeBufferService.  What the driver counts as          *)
(* references is there exactly as long as the service has a referrer, so    *)
(* that the count reaches zero in the step that takes the last one away.    *)

\* The entries that process h[1] has of buffer h[3] under number h[2].
OfHandle(h) == {e \in MapEntry : e.p_id = h[1] /\ e.fd = h[2] /\ e.buf = h[3]}

Handles == Processes \X Fds \X Bufs

LEMMA MappingsArePlaces ==
  DmaTypeOK => Mappings = [h \in Handles |-> Cardinality(Places(mem_list, OfHandle(h)))]
<1> SUFFICES ASSUME DmaTypeOK, NEW h \in Handles
             PROVE  {i \in DOMAIN mem_list : /\ mem_list[i].p_id = h[1]
                                             /\ mem_list[i].fd = h[2]
                                             /\ mem_list[i].buf = h[3]}
                      = Places(mem_list, OfHandle(h))
  BY DEF Mappings, Handles
<1>1. \A i \in DOMAIN mem_list : mem_list[i] \in MapEntry BY LenProperties DEF DmaTypeOK
<1> QED BY <1>1 DEF Places, OfHandle

LEMMA MappingsNext ==
  DmaTypeOK' => Mappings' = [h \in Handles |-> Cardinality(Places(mem_list', OfHandle(h)))]
<1>1. DmaTypeOK' => (Mappings = [h \in Handles |-> Cardinality(Places(mem_list, OfHandle(h)))])'
  BY MappingsArePlaces, PTL
<1> QED BY <1>1 DEF Handles, OfHandle, MapEntry, Places

\* A buffer has a referrer exactly when its count of references is not zero.
LEMMA ReferencedIs ==
  RefInv => \A b \in Bufs : BufferService!Referenced(b) <=> file_count[b] > 0
<1> SUFFICES ASSUME RefInv, NEW b \in Bufs
             PROVE  BufferService!Referenced(b) <=> file_count[b] > 0
  OBVIOUS
<1>1. DmaTypeOK /\ CallsUnderWay /\ Accounted(b) /\ mem_list \in Seq(MapEntry)
  BY DEF RefInv, DmaTypeOK
<1>2. /\ Entries(b) \in Nat /\ Descriptors(b) \in Nat
      /\ Calls(b, {"attach"}) \in Nat /\ Calls(b, {"map"}) \in Nat /\ Calls(b, {"add"}) \in Nat
  BY <1>1, CountsTyped
<1>3. file_count[b] = Entries(b) + Calls(b, {"add"}) + Calls(b, {"map"}) + Calls(b, {"attach"})
                        + Descriptors(b)
  BY <1>1, <1>2 DEF Accounted
<1>4. ASSUME NEW c \in Processes, map_buf[c] = b PROVE file_count[b] > 0
  <2>1. map_pc[c] \in {"attach", "map", "add"} BY <1>1, <1>4 DEF CallsUnderWay
  <2>2. \/ Calls(b, {"attach"}) > 0 \/ Calls(b, {"map"}) > 0 \/ Calls(b, {"add"}) > 0
    BY <1>1, <1>4, <2>1, CountsTyped
  <2> QED BY <1>2, <1>3, <2>2
<1>5. ASSUME NEW c \in Processes, NEW n \in Fds, fds[c][n] = b PROVE file_count[b] > 0
  <2>1. Descriptors(b) > 0 BY <1>1, <1>5, CountsTyped
  <2> QED BY <1>2, <1>3, <2>1
<1>6. ASSUME NEW c \in Processes, NEW n \in Fds, Mappings[<<c, n, b>>] > 0
      PROVE  file_count[b] > 0
  <2>1. Cardinality(Places(mem_list, OfHandle(<<c, n, b>>))) > 0
    BY <1>1, <1>6, MappingsArePlaces DEF Handles
  <2>2. Places(mem_list, OfHandle(<<c, n, b>>)) # {} BY <2>1, FS_EmptySet
  <2>3. PICK i \in DOMAIN mem_list : mem_list[i].buf = b BY <2>2 DEF Places, OfHandle
  <2>4. Entries(b) > 0 BY <1>1, <2>3, CountsTyped
  <2> QED BY <1>2, <1>3, <2>4
<1>7. ASSUME ~BufferService!Referenced(b) PROVE file_count[b] = 0
  <2>1. /\ \A c \in Processes : map_buf[c] # b
        /\ \A c \in Processes, n \in Fds : fds[c][n] # b /\ ~(Mappings[<<c, n, b>>] > 0)
    BY <1>7 DEF BufferService!Referenced
  <2>2. Calls(b, {"attach"}) = 0 /\ Calls(b, {"map"}) = 0 /\ Calls(b, {"add"}) = 0
    <3>1. \A pcs : {c \in Processes : map_buf[c] = b /\ map_pc[c] \in pcs} = {} BY <2>1
    <3> QED BY <3>1, FS_EmptySet DEF Calls
  <2>3. Descriptors(b) = 0
    <3>1. {d \in Processes \X Fds : fds[d[1]][d[2]] = b} = {} BY <2>1
    <3> QED BY <3>1, FS_EmptySet DEF Descriptors
  <2>4. {i \in DOMAIN mem_list : mem_list[i].buf = b} = {}
    <3> SUFFICES ASSUME NEW i \in DOMAIN mem_list, mem_list[i].buf = b PROVE FALSE
      OBVIOUS
    <3> DEFINE h == <<mem_list[i].p_id, mem_list[i].fd, b>>
    <3>1. mem_list[i] \in MapEntry BY <1>1, LenProperties
    <3>2. mem_list[i].p_id \in Processes /\ mem_list[i].fd \in Fds BY <3>1 DEF MapEntry
    <3>3. i \in Places(mem_list, OfHandle(h)) BY <3>1 DEF Places, OfHandle
    <3>4. Cardinality(Places(mem_list, OfHandle(h))) > 0 BY <1>1, <3>3, PlacesFinite
    <3>5. Mappings[h] > 0 BY <1>1, <3>2, <3>4, MappingsArePlaces DEF Handles
    <3> QED BY <2>1, <3>2, <3>5
  <2>5. Entries(b) = 0 BY <2>4, FS_EmptySet DEF Entries
  <2> QED BY <1>3, <2>2, <2>3, <2>5
<1>8. BufferService!Referenced(b) => file_count[b] > 0
  BY <1>4, <1>5, <1>6 DEF BufferService!Referenced
<1> QED BY <1>7, <1>8

LEMMA ReferencedNext ==
  RefInv' => \A b \in Bufs : BufferService!Referenced(b)' <=> file_count'[b] > 0
<1>1. RefInv' => (\A b \in Bufs : BufferService!Referenced(b) <=> file_count[b] > 0)'
  BY ReferencedIs, PTL
<1> QED BY <1>1

LEMMA BoundsAll == RefInv => \A b \in Bufs : file_count[b] \in Nat
BY AccountedBounds

LEMMA BoundsNext == RefInv' => \A b \in Bufs : file_count'[b] \in Nat
<1>1. RefInv' => (\A b \in Bufs : file_count[b] \in Nat)'
  BY BoundsAll, PTL
<1> QED BY <1>1

\* References are put: what loses its last referrer is freed.
LEMMA PutFrees ==
  ASSUME RefInv, RefInv', NEW n \in [Bufs -> Nat], PutRefs(n)
  PROVE  BufferService!Frees
<1>1. freed' = freed \cup {b \in Bufs : n[b] > 0 /\ n[b] = file_count[b]}
  BY DEF PutRefs
<1>2. ASSUME NEW b \in Bufs
      PROVE  n[b] > 0 /\ n[b] = file_count[b]
               <=> BufferService!Referenced(b) /\ ~BufferService!Referenced(b)'
  <2>1. /\ file_count[b] \in Nat /\ file_count'[b] \in Nat /\ n[b] \in Nat
        /\ file_count'[b] = file_count[b] - n[b]
    BY BoundsAll, BoundsNext DEF PutRefs
  <2>2. BufferService!Referenced(b) <=> file_count[b] > 0 BY ReferencedIs
  <2>3. BufferService!Referenced(b)' <=> file_count'[b] > 0 BY ReferencedNext
  <2>4. n[b] > 0 /\ n[b] = file_count[b] <=> file_count[b] > 0 /\ ~(file_count'[b] > 0)
    BY ONLY <2>1
  <2> QED BY <2>2, <2>3, <2>4
<1> QED BY <1>1, <1>2 DEF BufferService!Frees

LEMMA PutFreesOne ==
  ASSUME RefInv, RefInv', NEW x, PutRef(x)
  PROVE  BufferService!Frees
<1>1. One(x) \in [Bufs -> Nat] BY DEF One
<1> QED BY <1>1, PutFrees DEF PutRef

\* A call that has its buffer still has the descriptor that names it: the
\* process does not close it in the meantime, and nobody else can.
CallsKnown == \A c \in Processes : CallKnown(c)

LEMMA CallsKnownStep == RefInv /\ CallsKnown /\ [DmaNext]_dmaVars => CallsKnown'
<1> SUFFICES ASSUME RefInv, CallsKnown, [DmaNext]_dmaVars, NEW c \in Processes
             PROVE  CallKnown(c)'
  BY DEF CallsKnown
<1>1. DmaTypeOK /\ CallsUnderWay /\ CallKnown(c) BY DEF RefInv, CallsKnown
<1>2. CASE UNCHANGED dmaVars BY <1>1, <1>2 DEF dmaVars, CallKnown
<1>3. ASSUME NEW d \in Processes \ {c}, DmaProcess(d) PROVE CallKnown(c)'
  <2>1. OthersKept(d) BY <1>1, <1>3, DmaProcessFrame
  <2> QED BY <1>1, <2>1 DEF OthersKept, CallKnown
<1>4. ASSUME DmaProcess(c) PROVE CallKnown(c)'
  <2> USE DEF MapGo, ListVars, CallVars, ClientVars
  <2>1. CASE MapGet(c)
    <3>1. map_buf'[c] = fds[c][map_fd[c]] /\ UNCHANGED <<fds, map_fd>>
      BY <1>1, <2>1 DEF MapGet, DmaTypeOK
    <3> QED BY <3>1 DEF CallKnown
  <2>2. CASE MapAttach(c) \/ MapMap(c)
    <3>1. map_pc[c] \in {"attach", "map"} /\ UNCHANGED <<fds, map_fd, map_buf>>
      BY <2>2 DEF MapAttach, MapMap
    <3> QED BY <1>1, <3>1 DEF CallKnown
  <2>3. CASE MapRefused(c)
    BY <1>1, <2>3 DEF MapRefused, CallKnown
  <2>4. CASE map_pc'[c] \notin {"attach", "map", "add"}
    BY <2>4 DEF CallKnown
  <2>5. ASSUME NEW n \in Fds, NEW b \in Bufs, Import(c, n, b)
        PROVE  map_pc'[c] \notin {"attach", "map", "add"}
    BY <1>1, <2>5 DEF Import, DmaTypeOK
  <2>6. ASSUME NEW n \in Fds, CloseFd(c, n) \/ MapDmaBuf(c, n) \/ UnmapDmaBuf(c, n)
        PROVE  map_pc'[c] \notin {"attach", "map", "add"}
    BY <1>1, <2>6 DEF CloseFd, MapDmaBuf, UnmapDmaBuf, DmaTypeOK
  <2>7. CASE DmaDie(c) \/ MapAdd(c) \/ MapAnswer(c) \/ MapAnswerFails(c)
    <3>1. map_pc'[c] \notin {"attach", "map", "add"}
      BY <1>1, <2>7 DEF DmaDie, MapAdd, MapAnswer, MapAnswerFails, DmaTypeOK
    <3> QED BY <2>4, <3>1
  <2>8. CASE MapGetFails(c) \/ MapAttachFails(c) \/ MapMapFails(c)
    <3>1. map_pc'[c] \notin {"attach", "map", "add"}
      BY <1>1, <2>8 DEF MapGetFails, MapAttachFails, MapMapFails, MapReturns, DmaTypeOK
    <3> QED BY <2>4, <3>1
  <2> QED BY <1>4, <2>1, <2>2, <2>3, <2>4, <2>5, <2>6, <2>7, <2>8 DEF DmaProcess
<1> QED BY <1>2, <1>3, <1>4 DEF DmaNext

\* An entry more or less of process c, for descriptor n and buffer b, is a
\* mapping more or less.
LEMMA MappingsAppend ==
  ASSUME DmaTypeOK, DmaTypeOK', NEW e \in MapEntry, mem_list' = Append(mem_list, e)
  PROVE  Mappings' = [Mappings EXCEPT ![<<e.p_id, e.fd, e.buf>>] = @ + 1]
<1>1. mem_list \in Seq(MapEntry) BY DEF DmaTypeOK
<1>2. Mappings = [h \in Handles |-> Cardinality(Places(mem_list, OfHandle(h)))]
  BY MappingsArePlaces
<1>3. Mappings' = [h \in Handles |-> Cardinality(Places(mem_list', OfHandle(h)))]
  BY MappingsNext
<1>4. ASSUME NEW h \in Handles
      PROVE  Mappings'[h] = IF h = <<e.p_id, e.fd, e.buf>> THEN Mappings[h] + 1 ELSE Mappings[h]
  <2>1. Cardinality(Places(mem_list', OfHandle(h)))
          = Cardinality(Places(mem_list, OfHandle(h))) + (IF e \in OfHandle(h) THEN 1 ELSE 0)
    BY <1>1, PlacesAppend
  <2>2. e \in OfHandle(h) <=> h = <<e.p_id, e.fd, e.buf>> BY DEF OfHandle, Handles
  <2>3. Cardinality(Places(mem_list, OfHandle(h))) \in Nat BY <1>1, PlacesFinite
  <2> QED BY <1>2, <1>3, <2>1, <2>2, <2>3
<1> QED BY <1>2, <1>3, <1>4

LEMMA MappingsRemoveAt ==
  ASSUME DmaTypeOK, DmaTypeOK', NEW k \in 1 .. Len(mem_list), mem_list' = RemoveAt(mem_list, k)
  PROVE  LET h == <<mem_list[k].p_id, mem_list[k].fd, mem_list[k].buf>>
         IN  /\ h \in Handles /\ Mappings[h] > 0
             /\ Mappings' = [Mappings EXCEPT ![h] = @ - 1]
<1>1. mem_list \in Seq(MapEntry) BY DEF DmaTypeOK
<1>2. Mappings = [h \in Handles |-> Cardinality(Places(mem_list, OfHandle(h)))]
  BY MappingsArePlaces
<1>3. Mappings' = [h \in Handles |-> Cardinality(Places(mem_list', OfHandle(h)))]
  BY MappingsNext
<1> DEFINE e == mem_list[k]
           g == <<e.p_id, e.fd, e.buf>>
<1>4. e \in MapEntry /\ k \in DOMAIN mem_list BY <1>1, LenProperties
<1>5. g \in Handles BY <1>4 DEF MapEntry, Handles
<1>6. Mappings[g] > 0
  <2>1. k \in Places(mem_list, OfHandle(g)) BY <1>4 DEF Places, OfHandle
  <2>2. Cardinality(Places(mem_list, OfHandle(g))) > 0 BY <1>1, <2>1, PlacesFinite
  <2> QED BY <1>2, <1>5, <2>2
<1>7. ASSUME NEW h \in Handles
      PROVE  Mappings'[h] = IF h = g THEN Mappings[h] - 1 ELSE Mappings[h]
  <2>1. Cardinality(Places(mem_list', OfHandle(h)))
          = Cardinality(Places(mem_list, OfHandle(h))) - (IF e \in OfHandle(h) THEN 1 ELSE 0)
    BY <1>1, PlacesRemoveAt
  <2>2. e \in OfHandle(h) <=> h = g BY <1>4 DEF OfHandle, Handles
  <2>3. Cardinality(Places(mem_list, OfHandle(h))) \in Nat BY <1>1, PlacesFinite
  <2> QED BY <1>2, <1>3, <2>1, <2>2, <2>3
<1> HIDE DEF g
<1>8. Mappings' = [Mappings EXCEPT ![g] = @ - 1] BY <1>2, <1>3, <1>7
<1> QED BY <1>5, <1>6, <1>8 DEF g

LEMMA BufferServiceInit == DmaInit => BufferService!Init
<1> SUFFICES ASSUME DmaInit PROVE BufferService!Init
  OBVIOUS
<1>1. ASSUME NEW h PROVE {i \in DOMAIN mem_list : /\ mem_list[i].p_id = h[1]
                                                  /\ mem_list[i].fd = h[2]
                                                  /\ mem_list[i].buf = h[3]} = {}
  BY DEF DmaInit
<1>2. Mappings = [h \in Processes \X Fds \X Bufs |-> 0] BY <1>1, FS_EmptySet DEF Mappings
<1> QED BY <1>2 DEF DmaInit, BufferService!Init

\* Every step of a process is one of the service, or is not seen by it.
LEMMA BufferServiceStep ==
  ASSUME RefInv, CallsKnown, [DmaNext]_dmaVars
  PROVE  [BufferService!Next]_(BufferService!vars)
<1>1. RefInv' /\ DmaTypeOK /\ DmaTypeOK' /\ CallsUnderWay
  <2>1. RefInv' BY RefInvStep
  <2> QED BY <2>1 DEF RefInv
<1> USE DEF MapGo, ListVars, CallVars, ClientVars
<1>2. mem_list' = mem_list => Mappings' = Mappings BY DEF Mappings
<1>3. ASSUME NEW c \in Processes, NEW n \in Fds, NEW b \in Bufs, Import(c, n, b)
      PROVE  BufferService!Name(c, n, b)
  BY <1>2, <1>3 DEF Import, GetRef, BufferService!Name
<1>4. ASSUME NEW c \in Processes, NEW n \in Fds, CloseFd(c, n) PROVE BufferService!Unname(c, n)
  <2>1. BufferService!Frees BY <1>1, <1>4, PutFreesOne DEF CloseFd
  <2> QED BY <1>2, <1>4, <2>1 DEF CloseFd, BufferService!Unname
<1>5. ASSUME NEW c \in Processes, DmaDie(c) PROVE BufferService!Leave(c)
  <2> DEFINE k == [b \in Bufs |-> Cardinality({n \in Fds : fds[c][n] = b})]
  <2>1. ASSUME NEW b \in Bufs PROVE Cardinality({n \in Fds : fds[c][n] = b}) \in Nat
    BY VeDmaBufAssumption, FS_Subset, FS_CardinalityType
  <2>2. k \in [Bufs -> Nat] BY <2>1
  <2>3. PutRefs(k) BY <1>5 DEF DmaDie
  <2> HIDE DEF k
  <2>4. BufferService!Frees BY <1>1, <2>2, <2>3, PutFrees
  <2> QED BY <1>2, <1>5, <2>4 DEF DmaDie, BufferService!Leave
<1>6. ASSUME NEW c \in Processes, MapGet(c) PROVE \E n \in Fds : BufferService!Begin(c, n)
  <2>1. map_fd[c] \in Fds /\ map_buf[c] = NoBuf BY <1>1, <1>6 DEF MapGet, CallsUnderWay, DmaTypeOK
  <2>2. BufferService!Begin(c, map_fd[c])
    BY <1>2, <1>6, <2>1 DEF MapGet, GetRef, BufferService!Begin
  <2> QED BY <2>1, <2>2
<1>7. ASSUME NEW c \in Processes, MapAttachFails(c) \/ MapMapFails(c)
      PROVE  BufferService!Fail(c)
  <2>1. BufferService!Frees BY <1>1, <1>7, PutFreesOne DEF MapAttachFails, MapMapFails
  <2>2. map_buf[c] # NoBuf
    BY <1>1, <1>7, VeDmaBufAssumption DEF MapAttachFails, MapMapFails, MapReturns, CallsUnderWay
  <2> QED BY <1>2, <1>7, <2>1, <2>2
      DEF MapAttachFails, MapMapFails, MapReturns, BufferService!Fail
<1>8. ASSUME NEW c \in Processes, MapAdd(c) PROVE \E n \in Fds : BufferService!Finish(c, n)
  <2> DEFINE e == [fd |-> map_fd[c], buf |-> map_buf[c], p_id |-> c, filp |-> FilpOf[c]]
  <2>1. map_fd[c] \in Fds /\ map_buf[c] \in Bufs /\ map_buf[c] # NoBuf
    BY <1>1, <1>8, VeDmaBufAssumption DEF MapAdd, CallsUnderWay
  <2>2. e \in MapEntry /\ e.p_id = c /\ e.fd = map_fd[c] /\ e.buf = map_buf[c]
    BY <2>1 DEF MapEntry
  <2>3. mem_list' = Append(mem_list, e) BY <1>8 DEF MapAdd
  <2> HIDE DEF e
  <2>4. Mappings' = [Mappings EXCEPT ![<<c, map_fd[c], map_buf[c]>>] = @ + 1]
    BY <1>1, <2>2, <2>3, MappingsAppend
  <2>5. fds[c][map_fd[c]] = map_buf[c] BY <1>8 DEF CallsKnown, CallKnown, MapAdd
  <2>6. map_buf' = [map_buf EXCEPT ![c] = NoBuf] /\ UNCHANGED <<fds, freed>> BY <1>8 DEF MapAdd
  <2>7. BufferService!Finish(c, map_fd[c])
    BY <2>1, <2>4, <2>5, <2>6 DEF BufferService!Finish
  <2> QED BY <2>1, <2>7
<1>9. ASSUME NEW c \in Processes, NEW n \in Fds, UnmapDmaBuf(c, n)
      PROVE  \E b \in Bufs : BufferService!End(c, n, b)
  <2>1. mem_list \in Seq(MapEntry) BY <1>1 DEF DmaTypeOK
  <2> PICK k \in 1 .. Len(mem_list) : k = EntryOf(c, n) /\ Matches(mem_list[k], c, n)
    BY <1>9, <2>1, EntryFound DEF UnmapDmaBuf
  <2> DEFINE b == mem_list[k].buf
  <2>2. PutRef(b) /\ mem_list' = RemoveAt(mem_list, k) /\ UNCHANGED <<fds, map_buf>>
    BY <1>9 DEF UnmapDmaBuf
  <2>3. mem_list[k].p_id = c /\ mem_list[k].fd = n BY DEF Matches
  <2>4. /\ <<c, n, b>> \in Handles /\ Mappings[<<c, n, b>>] > 0
        /\ Mappings' = [Mappings EXCEPT ![<<c, n, b>>] = @ - 1]
    BY <1>1, <2>2, <2>3, MappingsRemoveAt
  <2> HIDE DEF b
  <2>5. b \in Bufs BY <2>4 DEF Handles
  <2>6. BufferService!Frees BY <1>1, <2>2, PutFreesOne
  <2>7. BufferService!End(c, n, b) BY <2>2, <2>4, <2>6 DEF BufferService!End
  <2> QED BY <2>5, <2>7
<1> DEFINE Unseen == UNCHANGED <<fds, map_buf, Mappings, freed>>
<1>10. ASSUME NEW c \in Processes, MapGetFails(c) PROVE Unseen
  <2>1. map_buf' = map_buf BY <1>1, <1>10, MapGetFailsEmpty
  <2> QED BY <1>2, <1>10, <2>1 DEF MapGetFails, MapReturns
<1>11. ASSUME NEW c \in Processes, NEW n \in Fds, MapDmaBuf(c, n) PROVE Unseen
  BY <1>2, <1>11 DEF MapDmaBuf
<1>12. ASSUME NEW c \in Processes,
              \/ MapRefused(c) \/ MapAttach(c) \/ MapMap(c)
              \/ MapAnswer(c) \/ MapAnswerFails(c)
       PROVE  Unseen
  BY <1>2, <1>12 DEF MapRefused, MapAttach, MapMap, MapAnswer, MapAnswerFails
<1>13. UNCHANGED dmaVars => Unseen BY <1>2 DEF dmaVars
<1> QED
  BY <1>3, <1>4, <1>5, <1>6, <1>7, <1>8, <1>9, <1>10, <1>11, <1>12, <1>13
  DEF DmaNext, DmaProcess, BufferService!Next, BufferService!vars

\* The mapping ioctls implement the buffer service: a mapping comes about at
\* once or not at all, is ended by its own process under its own number, and a
\* buffer is freed in the very step that takes its last referrer away.
THEOREM BufferRefinement == DmaSpec => ImplementsBufferService
<1>1. DmaInit => CallsKnown BY DEF DmaInit, CallsKnown, CallKnown
<1>2. RefInv /\ CallsKnown /\ [DmaNext]_dmaVars
        => RefInv' /\ CallsKnown' /\ [BufferService!Next]_(BufferService!vars)
  BY RefInvStep, CallsKnownStep, BufferServiceStep
<1> QED BY RefInvInit, BufferServiceInit, <1>1, <1>2, PTL
        DEF DmaSpec, ImplementsBufferService, BufferService!Spec
=============================================================================
