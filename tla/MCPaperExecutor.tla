-------------------------- MODULE MCPaperExecutor --------------------------
(* Small instances of PaperExecutor for TLC.                               *)
EXTENDS PaperExecutor, TLC

CONSTANTS a1, a2, l1, l2, l3, o1, o2, yes, c1

Plan(side, n, limit, expires) ==
  [asset |-> yes, cluster |-> c1, side |-> side, quantity |-> n, limit |-> limit, tick |-> 1,
   feeModel |-> "flat_notional", feeRate |-> 0, created |-> 1, expires |-> expires,
   reduceOnly |-> side = "SELL"]

\* The second level is only reached by a call that is not shifted against; the
\* order of two shares lives until a second executor can take it over.
BuyTwo == Plan("BUY", 2, 2, 4)
BuyOne == Plan("BUY", 1, 2, 3)
SellOne == Plan("SELL", 1, 1, 3)
SmallPlans == {BuyTwo, BuyOne, SellOne}

TwoLevels == <<[level |-> l1, price |-> 1], [level |-> l2, price |-> 2]>>
OneLevel == <<[level |-> l3, price |-> 1]>>
SmallBooks == {TwoLevels, OneLevel}

\* The order of two takes a level each of l1 and l2, two orders share l3.
Depth == [k \in Levels \X Sides |-> IF k[1] = l3 THEN 2 ELSE 1]
LevelTrades == Approvals \X Levels

WideLimits ==
  [capital |-> 9, order |-> 9, cluster |-> 9, total |-> 9, realizedLoss |-> 2,
   drawdown |-> 3, businessLoss |-> 3, businessDrawdown |-> 4]

(***************************************************************************)
(* The run covers two small instances: two executors that take over one    *)
(* order of two shares from each other, and two orders of one executor     *)
(* against one level.                                                      *)
(***************************************************************************)
Approved == {approval[a] : a \in Approvals} \ {NoPlan}
Offered(book) == \A o \in Owners : Running(o) => calls[o].book \in {<<>>, book}

TakeOver ==
  /\ Approved \subseteq {BuyTwo} /\ \A a, b \in Approvals : a # b => NoPlan \in {approval[a], approval[b]}
  /\ \A k \in DepositKeys : deposited[k] \in {0, 9}
  /\ \A k \in ExpenseKeys : expensed[k] = 0
  /\ ~control.halted /\ ~control.paused
  /\ Offered(TwoLevels)
OneLevelShared ==
  /\ Approved \subseteq {BuyOne, SellOne} /\ lease.epoch <= 1
  /\ \A o \in Owners : Running(o) => lease.owner \in {o, NoOwner}
  /\ Offered(OneLevel)

\* Leases of the control plane that end together are alike.
SmallInstance == control.leaseExpires \in {0, 3, 5} /\ (TakeOver \/ OneLevelShared)

OrderSymmetry == Permutations({o1, o2}) \cup Permutations({a1, a2})
=============================================================================
