SPECIFICATION Spec
CONSTANTS
  a1 = a1
  a2 = a2
  a3 = a3
  a4 = a4
  a5 = a5
  r1 = r1
  r2 = r2
  r3 = r3
  r4 = r4
  c1 = c1
  c2 = c2
  None = None
  Attempt = {a1, a2, a3, a4, a5}
  Request = {r1, r2, r3, r4}
  Client = {c1, c2}
  ReqOf <- Req5
  ClientOf <- Cl4
INVARIANTS
  OneOpenProblem
  OneMessagePerRequest
  AllOrNothing
  HoldersNeverWait
PROPERTY
  MessagesJoinTheOpenProblem
