SPECIFICATION FairSpec
CONSTANTS
  c0 = c0
  c1 = c1
  app = app
  idle = idle
  u = u
  w = w
  i0 = i0
  i1 = i1
  pipe = pipe
  None = None
  Cpu <- MCCpu
  Process <- MCProcess
  BootThreads <- MCBootThreads
  Parent <- MCParent
  Priority <- MCPriority
  MaxPriority = 4
  Affinity <- MCAffinity
  Idle = {i0, i1}
  Object = {pipe}
  Thread = {u, w, i0, i1}
  SleepArg = {0, 1}
  Garbage = {0, 3}
INVARIANTS ExclusiveExecution ContextFresh RunnersEligible NeverNull
PROPERTIES PicksMostUrgent SleepersWake MostUrgentRuns
