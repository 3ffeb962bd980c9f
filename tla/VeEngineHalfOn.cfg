\* Finding: ENGINE_REQ after a failed ENGINE_REQ.
SPECIFICATION Spec
CONSTANTS
  t1 = t1
  t2 = t2
  t3 = t3
  NoThread = NoThread
  Threads = {t1, t2, t3}
  MaxLost = 1
  MaxUnder = 1
  RefCounts = {}
PROPERTIES GrantIsPowered
