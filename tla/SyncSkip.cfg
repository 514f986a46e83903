SPECIFICATION Spec
CONSTANTS
  TxWriters = {t1}
  AutoWriters = {a1}
  Devices = {d1}
  Objects = {o1}
  ClientEventIds = {c1}
  NoId = NoId
  None = None
  Limits = {1}
  AckSlots = {1}
  DefaultLimit = 2
  MaxLimit = 3
  RetentionDays = 0
  MaxSeq = 3
  MaxDay = 0
INVARIANT NoSkippedEvent
