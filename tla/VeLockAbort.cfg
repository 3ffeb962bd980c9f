\* Finding: an aborted process with two threads on one file.
SPECIFICATION FairSpec
CONSTANTS
  t1 = t1
  t2 = t2
  t3 = t3
  fa = fa
  fb = fb
  vdec = vdec
  reg00 = reg00
  NoThread = NoThread
  Threads = {t1, t2, t3}
  Files = {fa, fb}
  Locks = {vdec, reg00}
  FileOf <- SharedFileOf
  LockTypes <- ValidTypes
  Rank <- NestedRank
  Polite = TRUE
PROPERTIES LostLocksReturn
CHECK_DEADLOCK FALSE
