SPECIFICATION FairSpec
CONSTANTS
  Cpu = {c0, c1, c2}
  None = None
INVARIANTS MutualExclusion NoSleepAtFreeLock
PROPERTIES FreeLockTaken ImplementsMutex
CHECK_DEADLOCK FALSE
