SPECIFICATION FairSpec
CONSTANTS
  Writers = {w1, w2}
  Entries = {e1}
  Devices = {d1}
  ClientEventIds = {c1}
  NoId = NoId
  NoBase = NoBase
  None = None
  Bases = {1}
  MaxRequests = 4
CHECK_DEADLOCK FALSE
INVARIANTS EventOrderIsVersionOrder UnretriedConverges
PROPERTIES TombstoneIsFinal EveryRequestAnswered
