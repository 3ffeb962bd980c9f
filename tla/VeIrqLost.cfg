\* Finding: the handler runs beside the start of the wait.
SPECIFICATION Spec
CONSTANTS
  t1 = t1
  t2 = t2
  t3 = t3
  NoThread = NoThread
  Threads = {t1, t2, t3}
PROPERTIES NeverLost
