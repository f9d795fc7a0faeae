SPECIFICATION FairSpec
CONSTANTS
  Workers = {w1, w2}
  Clients = {c1}
  Stoppers = {}
  CpuOps = {a}
  IoOps = {}
  TimerOps = {}
  StopOps = {}
  SignalWorkers = {w1}
  Chain <- NoChain
  WaitSpin = 0
  RingMayFail = FALSE
  SqMayFill = FALSE
  SpillToShared = FALSE
  NoOne = NoOne
PROPERTIES
  CpuOpsServed
  RunReturns
