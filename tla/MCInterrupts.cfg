SPECIFICATION InterruptsSpec
CONSTANTS
  c0 = c0
  c1 = c1
  app = app
  idle = idle
  prod = prod
  cons = cons
  extra = extra
  i0 = i0
  i1 = i1
  q = q
  m1 = m1
  None = None
  Cpu = {c0, c1}
  Idle = {i0, i1}
  Thread = {prod, cons, extra, i0, i1}
  ProdUses = {"attach", "write"}
  ConsUses = {"yield", "create"}
  Pinned = {cons}
  MaxNested = 1
  SleepArg = {}
  Garbage = {0}
  Process <- MCProcess
  BootThreads <- MCBootThreads
  Parent <- MCParent
  Priority <- MCPriority
  MaxPriority = 3
  Affinity <- MCAffinity
  Pipe = {q}
  UnknownId = {}
  Message <- MCMessage
  Depth <- MCDepth
  MsgSize <- MCMsgSize
  Purging = {q}
  Uses <- MCUses
INVARIANTS  StoppedHoldsNoLock
PROPERTY DecidesAsProcessManager
CHECK_DEADLOCK FALSE
