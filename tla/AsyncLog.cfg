SPECIFICATION FairLogSpec
CONSTANTS
  Capacity = 2
  FileLines = 2
  MaxCalls = 6
  MaxDays = 1
INVARIANTS
  AsyncLogTypeOK
  WriterNeverWaits
  NothingLost
  QueuedInOrder
  FilesAreBounded
PROPERTIES
  LinesReachFile
  ClosedInTimeReturns
CHECK_DEADLOCK FALSE
