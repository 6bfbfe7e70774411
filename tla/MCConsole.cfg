SPECIFICATION FairSpec
CONSTANTS
  romfs = romfs
  test = test
  None = None
  App = {romfs, test}
  Length <- MCLength
  Buffer = 2
  Depth = 1
  Session <- MCSession
  MaxPrints = 1
INVARIANTS OutputConserved KeysInOrder
PROPERTIES Registered
CHECK_DEADLOCK FALSE
