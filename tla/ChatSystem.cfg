SPECIFICATION LiveSpec
CONSTANTS
  m1 = m1
  Message = {m1}
  Worker = {w1, w2}
  MayBeJudged <- EitherVerdict
  MaxAttempts = 1
  MaxFaults = 1
  MaxLoads = 2
INVARIANTS
  ChatSystemInv
  NobodyForgotten
  PageIsTrue
PROPERTIES
  ImplementsLife
  EveryMessageDecided
