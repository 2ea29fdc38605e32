SPECIFICATION Spec
CONSTANTS
  c1 = c1
  c2 = c2
  p1 = p1
  p2 = p2
  m1 = m1
  m2 = m2
  Nobody = Nobody
  Consumer = {c1, c2}
  Message = {m1, m2}
  Retries = 2
  BatchSize = 2
  Partition = {p1}
  Known = {m1}
  Log <- OneLog
  MaxFaults = 2
  MaxMoves = 1
  MaxCancels = 1
  MaxFetchErrors = 0
SYMMETRY ConsumerSymmetry
INVARIANTS
  VerdictsInv
  CommittedIsSettled
  SettledInOrder
  UndisturbedIsOnce
