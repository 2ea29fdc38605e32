SPECIFICATION LiveSpec
CONSTANTS
  u1 = u1
  s1 = s1
  s2 = s2
  s3 = s3
  p1 = p1
  p2 = p2
  p3 = p3
  Nobody = Nobody
  Cap = 1
  User = {u1}
  Subscriber = {s1, s2, s3}
  Publication = {p1, p2, p3}
  SubscriberOf <- Subs
  Addressee <- Addr3
  Invalid = {p3}
INVARIANTS
  EventStreamInv
  StreamIsWindow
PROPERTIES
  CallsReturn
  QuietAfterClose
