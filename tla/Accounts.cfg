SPECIFICATION Spec
CONSTANTS
  Workers = {w1, w2}
  Keys = {owner, guest}
  Owner = owner
  Devices = {d1, d2, d3}
  guest = guest
  d1 = d1
  d2 = d2
  d3 = d3
  None = None
  ConfigPolicy = "approval"
  Policies = {"protocol", "invitation"}
  MaxChallenges = 1
  MaxSessions = 1
  MaxConfirmations = 2
  MaxApplications = 2
  MaxRequests = 3
  Scenarios <- MCScenarios
SYMMETRY WorkerSymmetry
CHECK_DEADLOCK FALSE
INVARIANTS PairingOnce LastDeviceKept AdmittedByApproval ConfirmationOnce
PROPERTY NothingUndone
