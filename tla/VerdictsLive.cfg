SPECIFICATION LiveSpec
CONSTANTS
  c1 = c1
  c2 = c2
  p1 = p1
  p2 = p2
  m1 = m1
  m2 = m2
  Nobody = Nobody
  Consumer = {c1, c2}
  Message = {m1, m2}
  Retries = 2
  BatchSize = 2
  Partition = {p1, p2}
  Known = {m1}
  Log <- TwoLogs
  MaxFaults = 1
  MaxMoves = 0
  MaxCancels = 1
  MaxFetchErrors = 1
PROPERTY
  EveryVerdictSettles
