SPECIFICATION FairMailSpec
CONSTANTS
  beat = beat
  thread = thread
  None = None
  Scanners = {beat}
  MaxMessages = 3
  KindOf <- MCKindOf
  PageSize = 3
  Deletable = {1, 2}
  MaxScanFaults = 2
INVARIANTS
  AnchorWaitsForWork
PROPERTIES
  ListedIsIngested
