\* Threads, processes and files end and do not come back: the system may stop.
SPECIFICATION TablesSpec
CONSTANTS
  t1 = t1
  t2 = t2
  t3 = t3
  Callers = {t1, t2, t3}
  MaxSlots = 2
  Lengths = {1, 2}
  PageSize = 3
  Buffers = {u1, u2}
  NoCaller = NoCaller
  Shower = Shower
  NoBuffer = NoBuffer
  p1 = p1
  p2 = p2
  filp = filp
  x1 = x1
  x2 = x2
  Processes = {p1, p2}
  FilpOf <- MCFilpOf
  Fds = {3, 4}
  Bufs = {x1, x2}
  MaxMaps = 2
  MaxEntries = 2
  NoBuf = NoBuf
  h264 = h264
  LoadFiles = {p1, p2}
  LoadChannels = {x1, x2}
  Decoders = {h264}
  Encoders = {encoder}
  ZeroFormat = ZeroFormat
  Pixels = {2}
  Rates = {0, 1}
  DefaultRate = 2
  Word = 8
  MaxLoads = 2
  Performance <- MCPerformance
  MaxFreq = 900
  ClkRange <- MCClkRange
  UserFreqs = {300}
  NoLoad = NoLoad
SYMMETRY MCSymmetry
INVARIANTS TextsSafe EveryRefAccounted ClientsKnowTheirs LoadsAsAnnounced RateFits
PROPERTIES FoundInOwnSlot ImplementsBufferService
CHECK_DEADLOCK FALSE
