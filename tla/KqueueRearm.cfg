SPECIFICATION Spec
CONSTANTS
  r1 = r1
  r2 = r2
  w1 = w1
  pl = pl
  c1 = c1
  t1 = t1
  fd = fd
  None = None
  IoOps = {r1, r2, pl}
  CpuOps = {c1}
  TimerOps = {t1}
  Descriptors = {fd}
  DescriptorOf <- MCDescriptorOf
  TaskOf <- MCTaskOf
  PollMask <- MCPollMask
  Chain <- MCChain
  Publishers = {p1}
  WaitSpin = 1
  BatchWindow = 2
  InlineLimit = 1
  LocalLimit = 1
  Refusable = {}
  StepsMayBlock = TRUE
INVARIANT QueueHeadArmed
