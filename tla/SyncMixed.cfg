SPECIFICATION FairSpec
CONSTANTS
  TxWriters = {t1}
  AutoWriters = {a1}
  Devices = {d1, d2}
  Objects = {o1, o2}
  ClientEventIds = {c1}
  NoId = NoId
  None = None
  Limits = {}
  AckSlots = {}
  DefaultLimit = 2
  MaxLimit = 3
  RetentionDays = 0
  MaxSeq = 3
  MaxDay = 0
INVARIANTS ReservedIsFresh ReplyRecorded PushedIsDurable
PROPERTY EveryRequestAnswered
