\* One thread per file; the clients may release what they do not hold.
SPECIFICATION FairSpec
CONSTANTS
  t1 = t1
  t2 = t2
  t3 = t3
  fa = fa
  fb = fb
  vdec = vdec
  reg00 = reg00
  NoThread = NoThread
  Threads = {t1, t2}
  Files = {fa, fb}
  Locks = {vdec, reg00}
  FileOf <- OwnFileOf
  LockTypes <- ValidTypes
  Rank <- NestedRank
  Polite = FALSE
INVARIANTS LockAccounted
PROPERTIES ReleaseUnlocksOwn LostLocksReturn
