SPECIFICATION FairSpec
CONSTANTS
  c0 = c0
  c1 = c1
  None = None
  Cpu = {c0, c1}
  Regions = 2
  First = 26
  Second = 7
  Base <- MCBase
  Length <- MCLength
  Request = {1, 8}
  Marker = 4
  Align = 2
  SizeModulus = 128
INVARIANTS BlocksTile FoundIsNobodys
PROPERTIES NullOnlyWhenFull MallocReturns AllocatorUntilLoose
CHECK_DEADLOCK FALSE
