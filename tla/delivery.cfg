SPECIFICATION FairControlSpec
CONSTANTS
  h1 = h1
  h2 = h2
  NoPlan = NoPlan
  NoCluster = NoCluster
  NoLevel = NoLevel
  NoSettlement = NoSettlement
  NoOwner = NoOwner
  NoActor = NoActor
  One = 2
  FeeScale = 2
  Dust = 0
  Approvals = {}
  Plans = {}
  Assets = {}
  Clusters = {}
  Trades = {}
  Levels = {}
  Capacity <- NoDepth
  DepositKeys = {}
  ExpenseKeys = {}
  SettlementIds = {}
  Owners = {}
  MaxTtl = 1
  Limits <- NoLimits
  ControlTtl = 1
  Commands = {1}
  Actors = {h1}
  MaxTime = 2
  StopTtl = 1
  Batch = 2
  MaxEntries = 2
  MaxLate = 1
INVARIANTS DeliveredInOrder
PROPERTIES EventsDelivered
CHECK_DEADLOCK FALSE
