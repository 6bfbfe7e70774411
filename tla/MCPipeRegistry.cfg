SPECIFICATION RegistryFairSpec
CONSTANTS
  t1 = t1
  t2 = t2
  stdin = stdin
  token = token
  noId = noId
  m1 = m1
  m2 = m2
  None = None
  Name = {stdin, token}
  UnknownId = {noId}
  Pipe = {1, 2}
  Thread = {t1, t2}
  Message <- MCMessage
  Depth <- MCDepth
  MsgSize <- MCMsgSize
  Purging = {1}
PROPERTIES ImplementsDirectory ImplementsChannel LockReleased WaitersWoken
CHECK_DEADLOCK FALSE
