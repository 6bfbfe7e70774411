SPECIFICATION Spec
CONSTANTS
  A = A
  B = B
  t1 = t1
  t2 = t2
  t3 = t3
  None = None
  Process = {A, B}
  Thread = {t1, t2, t3}
  Owner <- MCOwner
  Block = 2
  Huge = 4
  Image = 1
  BootFrame <- MCBootFrame
  Pool4K = 12
  EndPool4K = 15
  Pool2M = 16
  EndPool2M = 20
  Zones <- MCZones
  Shape1 <- Mixed
  Shape2 <- Mixed
  Shape3 <- S3
  Devices <- D3
  Devices2 <- NoDevice
  MemoryRequest <- MCMemory
  DeviceRequest <- MCDevice
INVARIANT StuckOnlyWhenDry
CHECK_DEADLOCK FALSE
