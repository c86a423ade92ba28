SPECIFICATION ExecutorSpec
CONSTANTS
  a1 = a1
  a2 = a2
  l1 = l1
  l2 = l2
  l3 = l3
  yes = yes
  c1 = c1
  NoPlan = NoPlan
  NoCluster = NoCluster
  NoLevel = NoLevel
  NoSettlement = NoSettlement
  NoOwner = NoOwner
  One = 2
  FeeScale = 2
  Dust = 0
  Approvals = {a1, a2}
  Plans <- SmallPlans
  Assets = {yes}
  Clusters = {c1}
  Trades <- LevelTrades
  Levels = {l1, l2, l3}
  Capacity <- Depth
  DepositKeys = {"k1"}
  ExpenseKeys = {"k1"}
  SettlementIds = {}
  Owners = {o1, o2}
  o1 = o1
  o2 = o2
  Commands = {}
  MaxTime = 3
  MaxTtl = 2
  Limits <- WideLimits
  Amounts = {3, 9}
  MaxQuantity = 2
  MaxFee = 0
  MaxEpoch = 2
  Books <- SmallBooks
  Latency = 1
  AdverseTicks = 1
SYMMETRY OrderSymmetry
CONSTRAINT SmallInstance
INVARIANTS RemainingFresh DepthExplained
PROPERTIES UncertainNotResumed ImplementsCore
