SPECIFICATION LiveSpec
CONSTANTS
  j1 = j1
  j2 = j2
  w1 = w1
  w2 = w2
  Job = {j1, j2}
  Registered = {j1}
  Worker = {w1, w2}
  MaxAttempts = 2
  ReserveFor = 1
  Skew = 0
  MaxDelay = 1
  MaxFaults = 1
  MaxCancels = 1
INVARIANTS
  OutboxInv
  ExclusiveHandling
PROPERTIES
  ImplementsContract
  EveryJobSettles
