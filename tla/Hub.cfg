SPECIFICATION FairSpec
CONSTANTS
  c1 = c1
  c2 = c2
  d1 = d1
  d2 = d2
  u1 = u1
  Clients = {c1, c2}
  Devices = {d1, d2}
  Users = {u1}
  DeviceOf <- MCDeviceOf
  UserOf <- MCUserOf
  None = None
  QueueCap = 1
  SendCap = 2
INVARIANTS HubNeverPanics
PROPERTIES WritePumpEnds
