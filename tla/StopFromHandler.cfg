SPECIFICATION FairSpec
CONSTANTS
  Workers = {w1}
  Clients = {c1}
  Stoppers = {}
  CpuOps = {a}
  IoOps = {i}
  TimerOps = {t}
  StopOps = {a}
  SignalWorkers = {}
  Chain <- NoChain
  WaitSpin = 1
  RingMayFail = TRUE
  SqMayFill = TRUE
  SpillToShared = TRUE
  NoOne = NoOne
INVARIANTS
  TypeOK
  CountersAgree
  NeverDeaf
PROPERTIES
  StopReturns
  StopDelivers
