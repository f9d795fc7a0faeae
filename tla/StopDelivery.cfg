SPECIFICATION Spec
CONSTANTS
  Workers = {w1, w2}
  Clients = {c1}
  Stoppers = {s1}
  CpuOps = {a}
  IoOps = {i}
  TimerOps = {}
  StopOps = {}
  SignalWorkers = {}
  Chain <- CrossChain
  WaitSpin = 0
  RingMayFail = FALSE
  SqMayFill = FALSE
  SpillToShared = FALSE
  NoOne = NoOne
INVARIANTS
  StoppedMeansDelivered
  StopMeansWorkersExited
  ExactlyOnce
  NoLostWakeup
SYMMETRY WorkerSymmetry
