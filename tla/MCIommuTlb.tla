----------------------------- MODULE MCIommuTlb -----------------------------
(* Instances of IommuTlb for TLC. *)
EXTENDS IommuTlb, TLC

CONSTANTS x1, x2, x3, x4

\* Tables of two entries; sizes of a part of, one, and two tables.
TwoSizes == {1, 2, 4}

\* The whole address space, the half of it, and pages of two tables.
NestedRequests == {<<0, 8>>, <<4, 8>>, <<1, 3>>}

\* The platforms without prefetching: sun50iw9, which is the H616 and H618 (V12;
\* V13 takes the same branches), and sun55iw3 (V15).
NoPrefetch == [version : {12, 15}, prefetch : {FALSE}]

TableSymmetry == Permutations(Tables)
=============================================================================
