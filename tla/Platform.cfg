SPECIFICATION Spec
CONSTANTS
  Workers = {w1, w2}
  None = None
  u1 = u1
  u2 = u2
  read = read
  write = write
  o1 = o1
  o2 = o2
  MaxRequests = 3
  Capabilities = {read, write}
  RuleInputs <- MCRules
  SwitchInputs <- MCSwitches
  MaxIssues = 2
  Owner = u1
  ObjectIds <- MCObjectIds
  Remainders = {0}
  Users = {u1, u2}
  Versions = {1, 2}
  Permissions = {read, write}
  HighRisk = {write}
  ClientIds = {1, 2}
  Reviews = {"approved", "rejected", "takedown", "noted"}
  Raters = {u1, u2}
  Releases = {1, 2}
  Stars = {1, 2}
  Values = {"on", "off"}
  EventIds = {1}
  MaxVersion = 3
  Bases = {1, 2}
  Amounts = {15}
  Fields = {"name", "place"}
  Wordings = {"old", "new"}
  Messages = {1, 2}
  Scenarios <- MCScenarios
CHECK_DEADLOCK FALSE
INVARIANTS AdmittedOnce StoppedNeedsReceipt InstalledWasApproved ReportsAccounted
           AggregateTrue ChainUnbroken FeedSettles BooksBalance
PROPERTIES DeletedStays TakedownHolds RestrictedStaysOut
