\* Three threads, two of them on one file, that use the locks as intended.
\* Threads that wait for a dead thread of their own file stop the system, so
\* deadlock is not checked here.
SPECIFICATION Spec
CONSTANTS
  t1 = t1
  t2 = t2
  t3 = t3
  fa = fa
  fb = fb
  vdec = vdec
  reg00 = reg00
  NoThread = NoThread
  Threads = {t1, t2, t3}
  Files = {fa, fb}
  Locks = {vdec, reg00}
  FileOf <- SharedFileOf
  LockTypes <- ValidTypes
  Rank <- NestedRank
  Polite = TRUE
INVARIANT MutualExclusion
PROPERTIES ReleaseNeverRefused ImplementsService
CHECK_DEADLOCK FALSE
