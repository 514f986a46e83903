SPECIFICATION FairSpec
CONSTANTS
  TxWriters = {t1, t2}
  AutoWriters = {}
  Devices = {d1}
  Objects = {o1}
  ClientEventIds = {}
  NoId = NoId
  None = None
  Limits = {0, 1, 3}
  AckSlots = {1, 2}
  DefaultLimit = 2
  MaxLimit = 3
  RetentionDays = 0
  MaxSeq = 3
  MaxDay = 1
INVARIANTS NoSkippedEvent HasMoreIsExact
PROPERTIES CursorMonotone ImplementsFeed EveryEventDelivered
