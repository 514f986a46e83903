SPECIFICATION AuditSpec
CONSTANTS
  Workers = {w1, w2}
  None = None
  MaxRequests = 2
  Remainders = {0, 1}
CHECK_DEADLOCK FALSE
INVARIANT ChainVerifies
