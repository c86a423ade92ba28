CONSTANTS
  None = None
  p1 = p1
  p2 = p2
  robust = robust
  learned = learned
  here = here
  there = there
  Clocks <- BothClocks
  Minute = 6
  Horizon = 16
  Effective = 18
  BookAge = 1
  TickerAge = 2
  PairSkew = 1
  FutureSkew = 1
  Lookback = 3
  Contiguous = 2
  Publication = 2
  Stray = 1
  Terms <- ThreeTerms
  Policies <- ThreePolicies
  Setups <- BothSetups
  Asks = {5, 9, 12}
  Sizes = {2, 12}
  Probabilities = {7, 14}
  Slippage = 1
  MaxEntry = 14
  MinEdge = 1
  MaxStake = 2
  MinStake = 1
  Minimum = 1
  MaxMarkets = 3
  Epoch = 2
  Length = 6
  Bar = 2
  Warmup = 1
  Horizons = {2, 4}
  MaxAge = 3
  PageSize = 2
  LastTime = 6
  Procs = {p1, p2}
  Identities = {robust, learned}
  Last = 3
  Passes <- TwoOfThree
  MaxRuns = 4
  Epochs = {0, 1, 2, 3, 4, 5, 6, 7, 8}
  Decisions = {1, 2, 3, 4, 5}
  Clusters = {here, there}
  Longest = 2
  MaxEvents = 3
  Embargoes = {0, 1, 2}
SPECIFICATION Spec
SYMMETRY MCSymmetry
CHECK_DEADLOCK FALSE
INVARIANTS BetsCovered AccountsTrue NoLookAhead PartsApart
PROPERTIES InputsFresh MeasuredOnce
