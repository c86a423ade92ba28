SPECIFICATION Spec
CONSTANTS
  a1 = a1
  a2 = a2
  a3 = a3
  t1 = t1
  t2 = t2
  t3 = t3
  l1 = l1
  yes = yes
  no = no
  c1 = c1
  c2 = c2
  NoPlan = NoPlan
  NoCluster = NoCluster
  NoLevel = NoLevel
  NoSettlement = NoSettlement
  NoOwner = NoOwner
  One = 2
  FeeScale = 2
  Dust = 1
  Approvals = {a1, a2, a3}
  Plans <- AllMoneyPlans
  Assets = {yes, no}
  Clusters = {c1, c2}
  Trades = {t1, t2, t3}
  Levels = {}
  Capacity <- NoDepth
  DepositKeys = {"k1"}
  ExpenseKeys = {"k1"}
  SettlementIds = {"s1", "s2"}
  Owners = {}
  Commands = {}
  MaxTime = 1
  MaxTtl = 1
  Limits <- NarrowLimits
  Amounts = {1, 9}
  MaxQuantity = 3
  MaxFee = 2
  MaxEpoch = 1
SYMMETRY MoneySymmetry
CONSTRAINT MoneyInstances
INVARIANTS TypeOK LedgerValid ReservationCoversFills HighWaterAboveResult MoneyExplained SettledFinal NeverOversold ExposureBounded
