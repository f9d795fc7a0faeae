SPECIFICATION FairSpec
CONSTANTS
  a = a
  b = b
  c = c
  Wake = Wake
  IoOps <- MCIoOps
  Chain <- MCChain
  Rearmable = {c}
  SqEntries = 2
  Window = 2
  AgainLimit = 1
  Faults = {"fatal"}
INVARIANTS
  ExactlyOnce
  EntriesTracked
  BlockedCanWake
PROPERTIES
  AbortOnlyWhenForced
  PublishedServed
  CloseDelivers
