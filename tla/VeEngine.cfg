\* Three clients that may release too often, reset unasked and set ref_count;
\* deaths, clocks that fail, and system sleep.
SPECIFICATION FairSpec
CONSTANTS
  t1 = t1
  t2 = t2
  t3 = t3
  NoThread = NoThread
  Threads = {t1, t2, t3}
  MaxLost = 1
  MaxUnder = 1
  RefCounts = {0, 1}
INVARIANTS PoweredWhileUsed OffWhenUnused RefCountExact ClkStatusTrue
PROPERTIES SemReturned
