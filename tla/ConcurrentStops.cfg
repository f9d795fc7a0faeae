SPECIFICATION FairSpec
CONSTANTS
  Workers = {w1}
  Clients = {c1}
  Stoppers = {s1}
  CpuOps = {a}
  IoOps = {}
  TimerOps = {}
  StopOps = {a}
  SignalWorkers = {}
  Chain <- NoChain
  WaitSpin = 0
  RingMayFail = FALSE
  SqMayFill = FALSE
  SpillToShared = FALSE
  NoOne = NoOne
PROPERTIES
  StopReturns
CHECK_DEADLOCK FALSE
