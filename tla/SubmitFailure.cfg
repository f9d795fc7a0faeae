SPECIFICATION Spec
CONSTANTS
  a = a
  b = b
  c = c
  Wake = Wake
  IoOps <- MCIoOps
  Chain <- MCChain
  Rearmable = {c}
  SqEntries = 2
  Window = 2
  AgainLimit = 1
  Faults = {"transient"}
INVARIANT OneTerminalCall
