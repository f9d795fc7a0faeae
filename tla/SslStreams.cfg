CONSTANTS
  MaxOps = 3
  MaxSize = 2
  MaxRecords = 2
  Flights = 1
  InCap = 2
  OutCap = 2

SPECIFICATION FairSpec

INVARIANTS
  WireInOrder
  FlushedOnSuccess
  EofIsOrderly
  ErrorsAttributed
  CancelIsReal

PROPERTY StopDelivers

CHECK_DEADLOCK FALSE
