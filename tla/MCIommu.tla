------------------------------- MODULE MCIommu -------------------------------
(* Instances of IommuPgtable for TLC. *)
EXTENDS IommuPgtable, TLC

CONSTANTS x1, x2

\* Tables of four entries; sizes of a part of, one, and two tables.
FourSizes == {1, 2, 4, 8}

\* One page, half a table, each table, both, and a range across the boundary:
\* unmapping the larger ones after the smaller ones meets holes.
MixedRequests == {<<0, 1>>, <<2, 4>>, <<0, 4>>, <<4, 8>>, <<0, 8>>, <<3, 6>>}
=============================================================================
