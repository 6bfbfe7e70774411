SPECIFICATION OnePipeSpec
CONSTANTS
  q = q
  r = r
  noId = noId
  m1 = m1
  m2 = m2
  t1 = t1
  t2 = t2
  t3 = t3
  None = None
  UnknownId = {noId}
  Pipe = {q, r}
  Thread = {t1, t2, t3}
  Message <- MCMessage
  Depth <- MCDepth
  MsgSize <- MCMsgSize
  Purging = {r}
INVARIANTS TypeOK LockHeld NoLostWakeup BlockedIffWaiting
PROPERTY ImplementsChannel
SYMMETRY Threads
CHECK_DEADLOCK FALSE
