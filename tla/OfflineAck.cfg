SPECIFICATION Spec
CONSTANTS
  Workers = {w1, w2}
  u2 = u2
  Users = {u1, u2}
  Founder = u1
  Devices = {d1}
  UserOf <- MCUserOf
  ClientEventIds = {c1}
  NoId = NoId
  None = None
  BatchLimit = 1
  MaxMessages = 1
  MaxRows = 2
  MaxRequests = 3
SYMMETRY Symmetry
CHECK_DEADLOCK FALSE
INVARIANT AckedIsDelivered
