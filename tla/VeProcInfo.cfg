\* A client may stop for ever (at "closed"), and one that was killed in the
\* kernel leaves the mutex locked: the system may really stop.
SPECIFICATION MCProcSpec
CONSTANTS
  c1 = c1
  c2 = c2
  c3 = c3
  Clients = {c1, c2, c3}
  MaxChannel = 2
  ChannelOf <- MCChannelOf
  Texts = {x}
  NoText = NoText
  Reader = Reader
  NoClient = NoClient
INVARIANTS OneWriter OnlySharersFault
PROPERTIES ReaderSeesWhole ProcWaitEnds
CHECK_DEADLOCK FALSE
