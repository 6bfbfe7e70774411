SPECIFICATION Spec
CONSTANTS
  c0 = c0
  c1 = c1
  app = app
  idle = idle
  prod = prod
  cons = cons
  extra = extra
  i0 = i0
  i1 = i1
  q = q
  noId = noId
  m1 = m1
  None = None
  Cpu = {c0, c1}
  Idle = {i0, i1}
  Thread = {prod, cons, i0, i1}
  ProdUses = {"sleep"}
  ConsUses = {"yield"}
  Pinned = {}
  SleepArg = {1}
  Garbage = {0}
  Process <- MCProcess
  BootThreads <- MCBootThreads
  Parent <- MCParent
  Priority <- MCPriority
  MaxPriority = 3
  Affinity <- MCAffinity
  Pipe = {q}
  UnknownId = {}
  Message <- OneMessage
  Depth <- MCDepth
  MsgSize <- MCMsgSize
  Purging = {}
  Uses <- MCUses
INVARIANT EveryResultDelivered
