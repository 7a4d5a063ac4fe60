SPECIFICATION MailSpec
CONSTANTS
  beat = beat
  thread = thread
  None = None
  Scanners = {beat, thread}
  MaxMessages = 2
  KindOf <- MCKindOfTwo
  PageSize = 2
  Deletable = {1}
  MaxScanFaults = 2
INVARIANTS
  OneRecordPerMessage
  FreshScanHoldsLock
