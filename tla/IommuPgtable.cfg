\* Clients unmap any range they name, mapped or not, and allocations may fail.
\* The larger ones map to frames below and at the place where the IOMMU's addresses wrap.
SPECIFICATION FairSpec
CONSTANTS
  NoTable = NoTable
  NoFrame = NoFrame
  Dirs = 2
  Entries = 4
  Tables = {x1, x2}
  x1 = x1
  x2 = x2
  Wrap = 32
  PhysOffset = 8
  PgSizes <- FourSizes
  Requests <- MixedRequests
  Frames = {28}
  MayFail = TRUE
  Polite = FALSE
INVARIANTS TablesOwned FreeTablesEmpty L2Ready
PROPERTIES NoOverwrite RequestEnds ImplementsAddressSpace
CHECK_DEADLOCK FALSE
