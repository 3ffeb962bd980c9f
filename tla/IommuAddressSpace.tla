-------------------------- MODULE IommuAddressSpace --------------------------
(***************************************************************************)
(* What the page-table code of the IOMMU driver promises to its callers:   *)
(* an I/O address space in which a map request maps every page of its      *)
(* range to consecutive physical pages, or none at all; an unmap request   *)
(* unmaps every page of its range; and no request touches another page.    *)
(* While a request is under way its own pages may change one by one.       *)
(***************************************************************************)
EXTENDS Naturals

CONSTANTS
  Pages,     \* the I/O virtual page numbers
  NoFrame    \* where an unmapped page points

VARIABLES
  space,     \* space[p]: the physical page that p translates to
  kind,      \* "idle", "map" or "unmap": the request under way
  start,     \* the first page of the request
  end,       \* the page after its last one
  paddr      \* the physical page that start is mapped to

vars == <<space, kind, start, end, paddr>>

Range == {p \in Pages : start <= p /\ p < end}

Image(p) == paddr + (p - start)

Init == /\ space = [p \in Pages |-> NoFrame]
        /\ kind = "idle"
        /\ start = 0 /\ end = 0 /\ paddr = 0

\* A map request names pages that are not mapped.
Map == /\ kind = "idle"
       /\ kind' = "map"
       /\ start' \in Nat /\ end' \in Nat /\ paddr' \in Nat
       /\ \A p \in Range' : space[p] = NoFrame
       /\ UNCHANGED space

Unmap == /\ kind = "idle"
         /\ kind' = "unmap"
         /\ start' \in Nat /\ end' \in Nat
         /\ UNCHANGED <<space, paddr>>

\* Mapped pages appear in order, and may be taken back if memory runs out.
Progress ==
  /\ kind # "idle"
  /\ space' \in [Pages -> Nat \cup {NoFrame}]
  /\ \A p \in Pages : \/ space'[p] = space[p]
                      \/ p \in Range /\ space'[p] = NoFrame
                      \/ p \in Range /\ kind = "map" /\ space'[p] = Image(p)
  /\ UNCHANGED <<kind, start, end, paddr>>

Mapped == \A p \in Range : space[p] = Image(p)

Unmapped == \A p \in Range : space[p] = NoFrame

Finish == /\ \/ kind = "map" /\ (Mapped \/ Unmapped)
             \/ kind = "unmap" /\ Unmapped
          /\ kind' = "idle"
          /\ UNCHANGED <<space, start, end, paddr>>

\* The address space is given up, with all that is mapped in it.
Clear == /\ kind = "idle"
         /\ space' = [p \in Pages |-> NoFrame]
         /\ UNCHANGED <<kind, start, end, paddr>>

Next == Map \/ Unmap \/ Progress \/ Finish \/ Clear

Spec == Init /\ [][Next]_vars
=============================================================================
