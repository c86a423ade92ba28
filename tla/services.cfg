CONSTANTS
  None = None
  Transport = "brevo"
  Messages = {m, n}
  Critical = {m}
  Limit = 1
  Statuses = {"DELIVERED", "FAILED"}
  Redelivered = FALSE
  MaxAttempts = 2
  MaxCrashes = 1
  Writers = {daemon, restarted}
  MaxCalls = 3
  Identities = {i, j}
  Torn = Torn
  Unseeded = Unseeded
  PromoteUnfinished = FALSE
  MaxVersion = 3
  MaxInterruptions = 2
  Tasks = {a, b, c}
  Requests = {1, 2, 3, 4}
  Clients = {"commander", "classifier"}
  Classifiers = {"classifier"}
  ClientOf <- ClientOfFour
  TextOf <- TextOfFour
  Slots = 1
  Cap = 5
  Cost = 2
  MaxFailures = 3
  MaxStops = 1
SPECIFICATION Spec
CHECK_DEADLOCK FALSE
INVARIANTS AcceptedOnce PanelWhole RestoredHalts SpentWithinCap
PROPERTIES ProjectionAdvances CallsEnd
