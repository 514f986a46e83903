SPECIFICATION FairSpec
CONSTANTS
  Workers = {w1, w2}
  None = None
  BatchSize = 2
  MaxAttempts = 2
  MaxDocs = 2
  MaxRetries = 1
INVARIANTS HeldIsLocked ReadyHasEmbedding
PROPERTY EveryJobSettles
