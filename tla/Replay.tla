-------------------------------- MODULE Replay --------------------------------
(***************************************************************************)
(* The two simulations that hold a stake until its settlement: evaluate    *)
(* (research/evaluation.py) and replay_capital (research/capital_stress.py).*)
(* The rows of a history are chosen one by one, in the order of decisions; *)
(* each round of their loops is a step.  Prices are tenths; a lot is the   *)
(* least quantity; one unit of money is a thousandth of the payout of a    *)
(* lot.                                                                    *)
(***************************************************************************)
EXTENDS NoValue, Integers, FiniteSets, FiniteSetsExt, Sequences, Totals

CONSTANT Policies    \* the arguments of a simulation, and what its rows may be

\* The rows of a history: prices YES or UP first, an estimate of UP.
RowsOf(p) ==
  [price : p.prices, up : p.chances, outcome : 0 .. 1, decision_at : p.times, delay : p.delays]

\* What evaluate and StakePolicy check of their arguments, and the rows of their prices and times.
\* The rules are those of a Hypothesis for evaluate, and the policies of replay_capital.
ASSUME PolicyAssumption ==
  \A p \in Policies :
    /\ p.rule \in {"favorite", "underdog", "fixed", "kelly"}
    /\ {p.capital, p.risk, p.maxLocked} \subseteq Nat \ {0} /\ {p.slippage, p.minimum, p.maxRows} \subseteq Nat
    /\ {p.threshold, p.maxPrice, p.minEdge} \subseteq Int
    /\ p.prices \subseteq (1 .. 9) \X (1 .. 9) /\ p.chances \subseteq 0 .. 10
    /\ p.times \subseteq Nat /\ p.delays \subseteq Nat \ {0} /\ None \notin RowsOf(p)

VARIABLES policy, time, observed, current,     \* the row that is looked at
          purse, reserved, active, deals,      \* active: the places of the open ones of the deals
          settled,                             \* the places of the others, in the order of their release
          peak, drawdown, ended

replay_vars == <<policy, time, observed, current, purse, reserved, active, deals, settled, peak, drawdown, ended>>

HistoricalRow == RowsOf(policy)

Evaluates == policy.rule \in {"favorite", "underdog"}

ReplayInit ==
  /\ policy \in Policies /\ time = 0 /\ observed = 0 /\ current = None
  /\ purse = policy.capital /\ reserved = 0 /\ active = {} /\ deals = <<>> /\ settled = <<>>
  /\ peak = policy.capital /\ drawdown = 0 /\ ended = FALSE

\* The price and the fee of a tenth of its variance, in thousandths.
UnitCost(price) == 100 * price + price * (10 - price)

----------------------------------------------------------------------------
(* settle: what has matured is released one by one, the earliest first; of those that *)
(* settle together the first of the heap, or in the order of the names of the events. *)

\* Mutant: a stake is taken to be settled by the next decision.
DueByNext == {i \in active : ended \/ deals[i].at < time}

Due == {i \in active : ended \/ deals[i].settles <= time}

Earliest(i) ==
  \A k \in Due : deals[i].settles < deals[k].settles \/ (deals[i].settles = deals[k].settles /\ (Evaluates \/ i <= k))

\* Equity is the cash and the cost of what is still active.
Release ==
  \E i \in Due :
    /\ Earliest(i)
    /\ purse' = purse + deals[i].payout /\ reserved' = reserved - deals[i].cost
    /\ active' = active \ {i} /\ settled' = Append(settled, i)
    /\ IF Evaluates
       THEN /\ peak' = Max({peak, purse' + reserved'})
            /\ drawdown' = Max({drawdown, peak' - (purse' + reserved')})
       ELSE UNCHANGED <<peak, drawdown>>
    /\ UNCHANGED <<policy, time, observed, current, deals, ended>>

----------------------------------------------------------------------------
(* What a row is worth: the side to buy, its unit cost and its payout, or none. *)

Side(price, chance, wins) ==
  [price |-> price, unit |-> UnitCost(price + policy.slippage), chance |-> chance * 100, wins |-> wins]

BothSides(r) == {Side(r.price[1], r.up, r.outcome), Side(r.price[2], 10 - r.up, 1 - r.outcome)}

\* Hypothesis.side: the dearer side if it reaches the threshold, or the cheaper one below it.
hypothesis_side(r) ==
  LET yes == (r.price[1] >= r.price[2]) = (policy.rule = "favorite")
      price == IF yes THEN r.price[1] ELSE r.price[2]
  IN {c \in {Side(price, 0, IF yes THEN r.outcome ELSE 1 - r.outcome)} :
        /\ IF policy.rule = "favorite" THEN price >= policy.threshold ELSE price <= policy.threshold
        /\ price <= policy.maxPrice /\ price + policy.slippage < 10}

\* replay_capital: the side with the larger edge, UP if they are equal.
Profitable(r) ==
  {c \in BothSides(r) : /\ c.price + policy.slippage <= policy.maxPrice /\ c.price + policy.slippage < 10
                    /\ c.unit < 1000 /\ c.chance - c.unit >= policy.minEdge}
BestSide(r) ==
  LET up == Side(r.price[1], r.up, r.outcome)
  IN {c \in Profitable(r) : \A d \in Profitable(r) :
        c.chance - c.unit > d.chance - d.unit \/ (c.chance - c.unit = d.chance - d.unit /\ (c = up \/ up # d))}

Choice(r) == IF Evaluates THEN hypothesis_side(r) ELSE BestSide(r)

Rounded(up, a, b) == IF up THEN (a + b - 1) \div b ELSE a \div b

\* StakePolicy.budget: a fixed stake, or a quarter of Kelly's and a tenth of the equity
\* at most, rounded up or down.
budget(up, c) ==
  IF policy.rule = "fixed" THEN policy.risk
  ELSE Min({policy.risk, Rounded(up, purse + reserved, 10),
            Rounded(up, (purse + reserved) * Max({0, c.chance - c.unit}), 4 * (1000 - c.unit))})

Lots(c) ==
  IF Evaluates THEN Min({policy.risk, purse, policy.maxLocked - reserved}) \div c.unit
  ELSE IF budget(TRUE, c) > purse THEN 0 ELSE Min({purse, budget(FALSE, c)}) \div c.unit

Deal(r, c) ==
  [at |-> r.decision_at, settles |-> r.decision_at + r.delay,
   cost |-> Lots(c) * c.unit, payout |-> Lots(c) * 1000 * c.wins]

----------------------------------------------------------------------------
(* The loop over the rows: what has matured by a decision is released first, then a *)
(* side is bought if the budget reaches the minimum.  The end releases everything. *)

Observe(r) ==
  /\ current = None /\ ~ended /\ observed < policy.maxRows /\ r.decision_at >= time
  /\ current' = r /\ time' = r.decision_at /\ observed' = observed + 1
  /\ UNCHANGED <<policy, purse, reserved, active, deals, settled, peak, drawdown, ended>>

Bought == {c \in Choice(current) : Lots(c) >= policy.minimum /\ Lots(c) > 0}

Buy ==
  /\ current # None /\ Due = {} /\ current' = None
  /\ \E c \in Bought :
       /\ purse' = purse - Deal(current, c).cost /\ reserved' = reserved + Deal(current, c).cost
       /\ deals' = Append(deals, Deal(current, c)) /\ active' = active \cup {Len(deals) + 1}
  /\ UNCHANGED <<policy, time, observed, settled, peak, drawdown, ended>>

Ignore ==
  /\ current # None /\ Due = {} /\ Bought = {} /\ current' = None
  /\ UNCHANGED <<policy, time, observed, purse, reserved, active, deals, settled, peak, drawdown, ended>>

Finish ==
  /\ current = None /\ ~ended /\ ended' = TRUE
  /\ UNCHANGED <<policy, time, observed, current, purse, reserved, active, deals, settled, peak, drawdown>>

ReplayNext == Release \/ Buy \/ Ignore \/ Finish \/ \E r \in HistoricalRow : Observe(r)

ReplaySpec == ReplayInit /\ [][ReplayNext]_replay_vars

----------------------------------------------------------------------------
(* Properties. *)

Costs == [i \in DOMAIN deals |-> deals[i].cost]
Payouts == [i \in DOMAIN deals |-> deals[i].payout]
ReleasedCosts == [n \in DOMAIN settled |-> deals[settled[n]].cost]
ReleasedPayouts == [n \in DOMAIN settled |-> deals[settled[n]].payout]

\* The cash is the capital less every stake and plus the payouts that were released, and when
\* all are, it is that of the summary and nothing stays reserved (settle, "cash accounting
\* mismatch").
CashExplained ==
  /\ purse = policy.capital - Whole(Costs) + Whole(ReleasedPayouts)
  /\ reserved = Whole(Costs) - Whole(ReleasedCosts)
  /\ active = {} => reserved = 0 /\ purse = policy.capital - Whole(Costs) + Whole(Payouts)

\* No outcome is used before it is known, none is known and left out when a stake is sized,
\* and each is used once, in the order of the settlements (settle, pending).
ReleasedInTime ==
  /\ \A n \in DOMAIN settled : ended \/ deals[settled[n]].settles <= time
  /\ ~ended /\ (current = None \/ Due = {}) =>
       \A i \in DOMAIN deals : deals[i].settles <= time => \E n \in DOMAIN settled : settled[n] = i
  /\ \A m, n \in DOMAIN settled :
       m < n => settled[m] # settled[n] /\ deals[settled[m]].settles <= deals[settled[n]].settles

\* No sequence of rows overdraws the cash, or locks more than the limit of evaluate.
WithinCash ==
  purse >= 0 /\ reserved >= 0 /\ (Evaluates => reserved <= policy.maxLocked)

\* The settled result after the first n settlements.
ResultAfter ==
  [n \in 0 .. Len(settled) |-> policy.capital + Sums(ReleasedPayouts)[n] - Sums(ReleasedCosts)[n]]

\* The drawdown is the largest fall between any two moments of the settled result, in
\* whatever order decisions and settlements came (peak_equity, max_drawdown).
DrawdownTrue ==
  Evaluates =>
    LET Moments == DOMAIN ResultAfter
    IN /\ \E m, n \in Moments : m <= n /\ drawdown = ResultAfter[m] - ResultAfter[n]
       /\ \A m, n \in Moments : m <= n => ResultAfter[m] - ResultAfter[n] <= drawdown
=============================================================================
