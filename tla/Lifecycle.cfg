SPECIFICATION ProcessLiveSpec
CONSTANTS
  Server = {client, debug}
  Worker = {w1, w2}
  Consumer = {c1}
  ShutdownTimeout = 2
  MaxRequests = 1
  MaxFaults = 2
INVARIANTS
  LifecycleInv
  ExitTellsTheTruth
PROPERTIES
  ProcessEnds
