\* Three clients on several processors; jobs may hang, waits may time out early.
SPECIFICATION FairSpec
CONSTANTS
  t1 = t1
  t2 = t2
  t3 = t3
  NoThread = NoThread
  Threads = {t1, t2, t3}
INVARIANTS NoLeftover
PROPERTIES NoSpurious NoLost WaitEnds
