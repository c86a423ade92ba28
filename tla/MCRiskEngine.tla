---------------------------- MODULE MCRiskEngine ----------------------------
(* Small instances of RiskEngine for TLC.                                  *)
EXTENDS RiskEngine, TLC

CONSTANTS a1, a2, a3, t1, t2, t3, l1, yes, no, c1, c2

Plan(asset, cl, side, n, limit, rate) ==
  [asset |-> asset, cluster |-> cl, side |-> side, quantity |-> n, limit |-> limit, tick |-> 1,
   feeModel |-> "flat_notional", feeRate |-> rate, created |-> 1, expires |-> 3,
   reduceOnly |-> side = "SELL"]

\* Prices are halves: a fill of an odd number of shares rounds its cost and its fee, and three
\* of one share would cost more than the cap of the whole.
BuyThree == Plan(yes, c1, "BUY", 3, 1, 1)
BuyTwo == Plan(yes, c1, "BUY", 2, 1, 0)
SellTwo == Plan(yes, c1, "SELL", 2, 1, 0)
MoneyPlans == {BuyThree, BuyTwo, SellTwo}

\* Two reductions of one position, and a position that two orders built.
SellOne == Plan(yes, c1, "SELL", 1, 1, 0)
ReducePlans == {BuyTwo, SellTwo, SellOne}

\* Two clusters compete for one envelope.
BuyYes == Plan(yes, c1, "BUY", 1, 2, 0)
BuyNo == Plan(no, c2, "BUY", 1, 2, 1)
ClusterPlans == {BuyYes, BuyNo}

\* The curve fee, a coarser tick, and a second cluster claimed for one asset.
BuyCurve == [Plan(yes, c1, "BUY", 2, 2, 2) EXCEPT !.feeModel = "polymarket_curve"]
BuyTick == [Plan(yes, c2, "BUY", 1, 2, 0) EXCEPT !.tick = 2]
FencePlans == {BuyCurve, BuyTick}
StopPlans == {BuyTwo, SellOne}
AllMoneyPlans == MoneyPlans \cup ReducePlans \cup ClusterPlans
AllStopPlans == FencePlans \cup StopPlans

WideLimits ==
  [capital |-> 9, order |-> 9, cluster |-> 9, total |-> 9, realizedLoss |-> 2,
   drawdown |-> 3, businessLoss |-> 3, businessDrawdown |-> 4]
NarrowLimits ==
  [capital |-> 9, order |-> 4, cluster |-> 4, total |-> 6, realizedLoss |-> 2,
   drawdown |-> 3, businessLoss |-> 3, businessDrawdown |-> 4]

NoDepth == [k \in Levels \X Sides |-> 0]
Depth == [k \in Levels \X Sides |-> 2]

(***************************************************************************)
(* A run covers several small instances: a behaviour is followed as long   *)
(* as it stays within one of them.  An instance names the plans and the    *)
(* numbers of orders and of fills with their largest quantity.             *)
(***************************************************************************)
Within(plans, orders, trades, quantity) ==
  /\ \A a \in Approvals : approval[a] \in plans \cup {NoPlan}
  /\ Cardinality({a \in Approvals : approval[a] # NoPlan}) <= orders
  /\ Cardinality({f \in Trades : fills[f] # NoFill}) <= trades
  /\ \A f \in Trades : fills[f].quantity <= quantity

OneDeposit == \A k \in DepositKeys : deposited[k] \in {0, 9}
NoExpense == \A k \in ExpenseKeys : expensed[k] = 0

\* What is deposited, spent, filled and settled; reductions of one position; two clusters.
MoneyInstances ==
  \/ Within(MoneyPlans, 2, 3, 3)
  \/ OneDeposit /\ NoExpense /\ Within(ReducePlans, 3, 3, 2)
  \/ OneDeposit /\ NoExpense /\ Within(ClusterPlans, 3, 3, 1)

\* Stops between the steps of two orders; executors that take over from each other.
StopInstances ==
  \/ Within(StopPlans, 2, 2, 2) /\ lease.epoch = 0 /\ \A k \in DOMAIN consumed : consumed[k] = 0
  \/ Within(FencePlans, 1, 2, 2) /\ \A c \in Commands : commands[c] = NoCommand

MoneySymmetry == Permutations({a1, a2, a3}) \cup Permutations({t1, t2, t3})
StopSymmetry == Permutations({a1, a2}) \cup Permutations({t1, t2})
=============================================================================
