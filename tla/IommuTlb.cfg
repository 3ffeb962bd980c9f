\* The device walks the tables at any time; allocations may fail.
SPECIFICATION TlbSpec
CONSTANTS
  NoTable = NoTable
  NoFrame = NoFrame
  Dirs = 4
  Entries = 2
  Tables = {x1, x2, x3, x4}
  x1 = x1
  x2 = x2
  x3 = x3
  x4 = x4
  Wrap = 24
  PhysOffset = 8
  PgSizes <- TwoSizes
  Requests <- NestedRequests
  Frames = {24}
  MayFail = TRUE
  Polite = TRUE
  Platforms <- NoPrefetch
INVARIANTS TranslationCorrect UnmapRevokes NoFreedTable
SYMMETRY TableSymmetry
