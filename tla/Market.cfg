SPECIFICATION Spec
CONSTANTS
  Workers = {w1, w2}
  Users = {u1}
  Requests <- MCRequests
  None = None
  MaxVersion = 2
  MaxRequests = 3
SYMMETRY Symmetry
CHECK_DEADLOCK FALSE
INVARIANTS OneActivePlan PlanMatchesCollection ServedWhileInstalled
PROPERTIES SnapshotsAppended
