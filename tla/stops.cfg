SPECIFICATION Spec
CONSTANTS
  a1 = a1
  a2 = a2
  a3 = a3
  t1 = t1
  t2 = t2
  t3 = t3
  l1 = l1
  yes = yes
  no = no
  c1 = c1
  c2 = c2
  NoPlan = NoPlan
  NoCluster = NoCluster
  NoLevel = NoLevel
  NoSettlement = NoSettlement
  NoOwner = NoOwner
  One = 2
  FeeScale = 2
  Dust = 1
  Approvals = {a1, a2}
  Plans <- AllStopPlans
  Assets = {yes}
  Clusters = {c1, c2}
  Trades = {t1, t2}
  Levels = {l1}
  Capacity <- Depth
  DepositKeys = {"k1"}
  ExpenseKeys = {}
  SettlementIds = {"s1"}
  Owners = {"o1", "o2"}
  Commands = {"c1"}
  MaxTime = 2
  MaxTtl = 1
  Limits <- WideLimits
  Amounts = {9}
  MaxQuantity = 2
  MaxFee = 1
  MaxEpoch = 3
SYMMETRY StopSymmetry
CONSTRAINT StopInstances
PROPERTIES NoNewRiskAfterStop NothingTakenBack TokenNeverReissued
