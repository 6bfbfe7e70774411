SPECIFICATION Spec
CONSTANTS
  A = A
  B = B
  t1 = t1
  t2 = t2
  t3 = t3
  None = None
  Process = {A, B}
  Thread = {t1, t2, t3}
  Owner <- MCOwner
  Block = 2
  Huge = 4
  Image = 1
  BootFrame <- MCBootFrame
  Pool4K = 12
  EndPool4K = 15
  Pool2M = 16
  EndPool2M = 20
  Zones <- MCZones
  Shape1 <- S1
  Shape2 <- S2
  Shape3 <- S3
  Devices <- D3
  Devices2 <- D2
  MemoryRequest <- MCMemory
  DeviceRequest <- MCDevice
INVARIANTS FramesExclusive RestrictedUnmapped RegionsDisjoint RegionBacked
PROPERTIES MappingsStay
CHECK_DEADLOCK FALSE
