SPECIFICATION Spec
CONSTANTS
  c0 = c0
  c1 = c1
  None = None
  Cpu = {c0}
  Regions = 2
  First = 14
  Second = 0
  Base <- MCBase
  Length <- MCLength
  Request = {1, 2, 12}
  Marker = 4
  Align = 2
  SizeModulus = 128
PROPERTY ImplementsAllocator
CHECK_DEADLOCK FALSE
