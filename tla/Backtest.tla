------------------------------- MODULE Backtest -------------------------------
(***************************************************************************)
(* The backtests whose trades settle at once, simulate_trade with          *)
(* evaluate_spec and evaluate_learned, their summary, and the Monte Carlo  *)
(* of ruin over the days of their trades (research/btc_intraday.py,        *)
(* robust_intraday.py, learned_intraday.py).  Observations are chosen one  *)
(* by one in their order.  Prices are tenths, probabilities and unit costs *)
(* thousandths, winnings are rounded down.                                 *)
(***************************************************************************)
EXTENDS NoValue, Integers, FiniteSets, FiniteSetsExt, Sequences, Totals

CONSTANT Setups    \* the arguments of a backtest, and what its observations may be

\* What CostScenario, evaluate_spec and monte_carlo_risk_of_ruin check.  The rules are those of
\* simulate_trade and of evaluate_learned; days[i] is the day of the i-th observation.
ASSUME SetupAssumption ==
  \A s \in Setups :
    /\ s.rule \in {"fixed", "learned"}
    /\ {s.capital, s.stake, s.horizon} \subseteq Nat \ {0} /\ s.stake <= s.capital
    /\ s.slippage \in Nat /\ {s.maxAsk, s.minEdge} \subseteq Int
    /\ s.prices \subseteq (1 .. 9) \X (1 .. 9) /\ s.chances \subseteq 0 .. 1000
    /\ s.days \in Seq(Int)

VARIABLES setup, epoch, capital, skipped, ruined_at, bets,    \* the backtest
          run                                                   \* one run of the Monte Carlo

test_vars == <<setup, epoch, capital, skipped, ruined_at, bets, run>>

\* Prices of UP and DOWN, bounds or estimates of UP.
Observation ==
  {o \in [price : setup.prices, low : setup.chances, high : setup.chances, outcome_up : 0 .. 1] : o.low <= o.high}

TestInit ==
  /\ setup \in Setups /\ epoch = 0 /\ capital = setup.capital /\ skipped = 0
  /\ ruined_at = None /\ bets = <<>> /\ run = None

\* The price and the fee of a tenth of its variance.
ShareCost(entry) == 100 * entry + entry * (10 - entry)

\* simulate_trade: the more expensive side, at a conservative probability.
simulate_trade(o) ==
  LET up == o.price[1] > o.price[2]
      price == IF up THEN o.price[1] ELSE o.price[2]
      entry == price + setup.slippage
      edge == (IF up THEN o.low ELSE 1000 - o.high) - ShareCost(entry)
  IN {t \in {[unit |-> ShareCost(entry), payout |-> IF up THEN o.outcome_up ELSE 1 - o.outcome_up]} :
        /\ o.price[1] # o.price[2] /\ 5 <= price /\ price <= setup.maxAsk /\ entry < 10
        /\ setup.minEdge < edge /\ edge <= 200}

\* evaluate_learned: either side whose edge reaches the minimum, the better of both, UP if
\* they are equal.
learned_trade(o) ==
  LET Entry(k) == o.price[k] + setup.slippage
      Edge(k) == (IF k = 1 THEN o.low ELSE 1000 - o.low) - ShareCost(Entry(k))
      Good == {k \in {1, 2} : Entry(k) <= setup.maxAsk /\ Entry(k) < 10 /\ Edge(k) >= setup.minEdge}
      Best == {k \in Good : \A j \in Good : Edge(k) > Edge(j) \/ (Edge(k) = Edge(j) /\ k <= j)}
  IN {[unit |-> ShareCost(Entry(k)), payout |-> IF k = 1 THEN o.outcome_up ELSE 1 - o.outcome_up] : k \in Best}

Signals(o) == IF setup.rule = "fixed" THEN simulate_trade(o) ELSE learned_trade(o)

Pnl(t) == (setup.stake * 1000 * t.payout) \div t.unit - setup.stake

Funded(amount) == amount >= setup.stake

\* One observation of evaluate_spec or evaluate_learned: a signal is traded, or skipped when
\* it cannot be funded.
evaluate(o) ==
  /\ run = None /\ epoch < Len(setup.days) /\ epoch' = epoch + 1
  /\ \/ \E t \in Signals(o) :
          /\ Funded(capital) /\ capital' = capital + Pnl(t)
          /\ bets' = Append(bets, [epoch |-> epoch + 1, pnl |-> Pnl(t)])
          /\ UNCHANGED <<skipped, ruined_at>>
     \/ /\ Signals(o) # {} /\ ~Funded(capital)
        /\ skipped' = skipped + 1 /\ ruined_at' = IF ruined_at = None THEN epoch + 1 ELSE ruined_at
        /\ UNCHANGED <<capital, bets>>
     \/ Signals(o) = {} /\ UNCHANGED <<capital, skipped, ruined_at, bets>>
  /\ UNCHANGED <<setup, run>>

----------------------------------------------------------------------------
(* summarize_trades *)

\* Mutant: the peak is that of the trades, without the capital they began with.
PathOfTrades ==
  LET path[i \in 0 .. Len(bets)] ==
        IF i = 0 THEN [equity |-> setup.capital, peak |-> 0, fall |-> 0]
        ELSE LET equity == path[i - 1].equity + bets[i].pnl
                 peak == Max({path[i - 1].peak, equity})
             IN [equity |-> equity, peak |-> peak, fall |-> Max({path[i - 1].fall, peak - equity})]
  IN path

\* The equity, its peak and the largest fall after each trade in turn.
Path ==
  LET path[i \in 0 .. Len(bets)] ==
        IF i = 0 THEN [equity |-> setup.capital, peak |-> setup.capital, fall |-> 0]
        ELSE LET equity == path[i - 1].equity + bets[i].pnl
                 peak == Max({path[i - 1].peak, equity})
             IN [equity |-> equity, peak |-> peak, fall |-> Max({path[i - 1].fall, peak - equity})]
  IN path

Summary == Path[Len(bets)]

----------------------------------------------------------------------------
(* monte_carlo_risk_of_ruin: one run, by whole days of trades. *)

\* The trades of a day, in their order.
DayOf(t) == setup.days[t.epoch]
Block(day) == {i \in DOMAIN bets : DayOf(bets[i]) = day}

Begin ==
  /\ run = None /\ epoch = Len(setup.days) /\ bets # <<>>
  /\ run' = [capital |-> setup.capital, ruined |-> ~Funded(setup.capital), block |-> {}, drawn |-> <<>>]
  /\ UNCHANGED <<setup, epoch, capital, skipped, ruined_at, bets>>

\* The trades simulated so far are those drawn.
Going == run # None /\ Len(run.drawn) < setup.horizon /\ ~run.ruined

DrawBlock ==
  /\ Going /\ run.block = {}
  /\ \E i \in DOMAIN bets : run' = [run EXCEPT !.block = Block(DayOf(bets[i]))]
  /\ UNCHANGED <<setup, epoch, capital, skipped, ruined_at, bets>>

Trade ==
  /\ Going
  /\ \E i \in run.block :
       /\ \A k \in run.block : i <= k
       /\ run' = [capital |-> run.capital + bets[i].pnl, ruined |-> ~Funded(run.capital + bets[i].pnl),
                  block |-> run.block \ {i}, drawn |-> Append(run.drawn, bets[i].pnl)]
  /\ UNCHANGED <<setup, epoch, capital, skipped, ruined_at, bets>>

TestNext == Begin \/ DrawBlock \/ Trade \/ \E o \in Observation : evaluate(o)

TestSpec == TestInit /\ [][TestNext]_test_vars

----------------------------------------------------------------------------
(* Properties. *)

Pnls == [i \in DOMAIN bets |-> bets[i].pnl]
EquityAfter == [n \in 0 .. Len(bets) |-> setup.capital + Sums(Pnls)[n]]

\* The path is one an account could follow: every stake is covered by what the trades
\* before it left, and once a signal could not be funded no later one is: the capital
\* never moves again (capital_path_executable, ruined_at_epoch).
PathExecutable ==
  /\ \A i \in DOMAIN bets : EquityAfter[i - 1] >= setup.stake
  /\ ruined_at # None => /\ capital < setup.stake /\ skipped > 0
                         /\ \A i \in DOMAIN bets : bets[i].epoch < ruined_at

\* The reported drawdown is the largest fall between two moments of the path, the
\* start included, and the capital the summary ends at is the one that funded the
\* trades (summarize_trades).
SummaryTrue ==
  LET Moments == DOMAIN EquityAfter
  IN /\ Summary.equity = capital
     /\ \E m, n \in Moments : m <= n /\ Summary.fall = EquityAfter[m] - EquityAfter[n]
     /\ \A m, n \in Moments : m <= n => EquityAfter[m] - EquityAfter[n] <= Summary.fall

\* A run of the Monte Carlo stops at the first trade after which the next stake cannot
\* be funded, in the middle of a day or not, and counts as ruined exactly then.
RuinAtFirst ==
  run # None =>
    /\ Len(run.drawn) <= setup.horizon /\ run.capital = setup.capital + Whole(run.drawn)
    /\ \A i \in 1 .. Len(run.drawn) - 1 : setup.capital + Sums(run.drawn)[i] >= setup.stake
    /\ run.ruined <=> run.capital < setup.stake
=============================================================================
