------------------------------- MODULE PaperBet -------------------------------
(***************************************************************************)
(* The money of a paper bet on a five-minute market: the side, the price,  *)
(* the stake and the depth of the frozen challenger (candidate,            *)
(* recheck_fill) and of the JEV commander (decide, the fresh book of        *)
(* observe_and_trade), from one market to the next.                         *)
(*                                                                         *)
(* Prices and probabilities are in twentieths of a dollar; a unit cost,     *)
(* with the curve fee of a tenth of p(1-p), in 1/4000; a quantity in tenths *)
(* of a share; money in 1/40000.                                            *)
(***************************************************************************)
EXTENDS NoValue, Integers, FiniteSets, FiniteSetsExt

CONSTANTS
  Terms,                               \* policies: [runner, sizing, capital in dollars]
  Asks, Sizes, Probabilities,          \* what a book and a model may say
  Slippage, MaxEntry, MinEdge,         \* twentieths
  MaxStake, MinStake,                  \* dollars
  Minimum,                             \* min_order_size, in shares
  MaxMarkets                           \* bound

ASSUME BetAssumption ==
  /\ Terms \subseteq [runner : {"frozen", "jev"}, sizing : {"fixed", "fractional_kelly"}, capital : Nat]
  /\ Asks \subseteq Nat \ {0} /\ Sizes \subseteq Nat /\ Probabilities \subseteq 0 .. 20
  /\ {Slippage, MaxEntry, MinEdge, MaxStake, MinStake, Minimum, MaxMarkets} \subseteq Nat

Dollar == 40000
UnitDollar == 4000
Cent == 400
CostQuantum == 40          \* the quantum a cost of JEV is rounded to
Sides == {"UP", "DOWN"}
Other(s) == IF s = "UP" THEN "DOWN" ELSE "UP"

VARIABLES terms,       \* the policy of the runner
          cash,
          stage,       \* "idle", or "decided": a side waits for its second look
          bet,         \* the decision
          pending,     \* fills of markets not settled
          markets
bet_vars == <<terms, cash, stage, bet, pending, markets>>

BetInit ==
  /\ terms \in Terms /\ cash = terms.capital * Dollar
  /\ stage = "idle" /\ bet = None /\ pending = {} /\ markets = 0

----------------------------------------------------------------------------
(* Prices. *)

Entry(ask) == ask + Slippage
Fee(entry) == entry * (20 - entry)
Unit(entry) == entry * 200 + Fee(entry)
Chance(p, side) == IF side = "UP" THEN p ELSE 20 - p
Edge(p, side, entry) == Chance(p, side) * 200 - Unit(entry)
Tradable(entry) == entry <= MaxEntry /\ entry < 20

Offers(asks, p) ==
  {s \in Sides : Tradable(Entry(asks[s])) /\ Edge(p, s, Entry(asks[s])) >= MinEdge * 200}

\* The larger edge; on a tie the challenger takes DOWN, max() of tuples, and JEV UP, max() by edge.
Best(asks, p) ==
  CHOOSE s \in Offers(asks, p) :
    \A o \in Offers(asks, p) \ {s} :
      \/ Edge(p, s, Entry(asks[s])) > Edge(p, o, Entry(asks[o]))
      \/ /\ Edge(p, s, Entry(asks[s])) = Edge(p, o, Entry(asks[o]))
         /\ s = (IF terms.runner = "frozen" THEN "DOWN" ELSE "UP")

Visible(size) == size * 8                        \* 80 percent, in tenths
Quantity(stake, unit, size) == Min({stake \div unit, Visible(size)})

----------------------------------------------------------------------------
(* The challenger. *)

\* The stake is the registered one, or there is no fill.
DecideFrozen(asks, p) ==
  /\ terms.runner = "frozen" /\ stage = "idle" /\ markets < MaxMarkets /\ markets' = markets + 1
  /\ IF Offers(asks, p) = {} THEN UNCHANGED <<stage, bet>>
     ELSE /\ stage' = "decided"
          /\ bet' = [side |-> Best(asks, p), limit |-> Entry(asks[Best(asks, p)])]
  /\ UNCHANGED <<cash, pending>>

Keep(side, ask, size, p, entry, quantity, cost) ==
  /\ cash' = cash - cost
  /\ pending' = pending \cup {[market |-> markets, side |-> side, ask |-> ask, visible |-> Visible(size),
                               chance |-> Chance(p, side), entry |-> entry, quantity |-> quantity,
                               cost |-> cost, before |-> cash]}
NoFill == UNCHANGED <<cash, pending>>

\* Mutant: the price has not moved if it is still tradable.
RecheckMoved(ask, size, p) ==
  LET entry == bet.limit  unit == Unit(entry)
      quantity == Quantity(MaxStake * Dollar, unit, size) IN
  /\ terms.runner = "frozen" /\ stage = "decided" /\ stage' = "idle" /\ bet' = None /\ UNCHANGED markets
  /\ IF /\ Tradable(Entry(ask)) /\ Edge(p, bet.side, entry) >= MinEdge * 200
        /\ cash >= MaxStake * Dollar /\ quantity >= Minimum * 10
     THEN Keep(bet.side, ask, size, p, entry, quantity, quantity * unit) ELSE NoFill

\* After the latency, with another book and another probability.
recheck_fill(ask, size, p) ==
  LET entry == Entry(ask)  unit == Unit(entry)
      quantity == Quantity(MaxStake * Dollar, unit, size) IN
  /\ terms.runner = "frozen" /\ stage = "decided" /\ stage' = "idle" /\ bet' = None /\ UNCHANGED markets
  /\ IF /\ entry <= bet.limit /\ Tradable(entry)
        /\ Edge(p, bet.side, entry) >= MinEdge * 200
        /\ cash >= MaxStake * Dollar /\ quantity >= Minimum * 10
     THEN Keep(bet.side, ask, size, p, entry, quantity, quantity * unit) ELSE NoFill

----------------------------------------------------------------------------
(* JEV. *)

\* A quarter of the Kelly fraction, in cents; or the fixed stake; never more than the cash.
Staked(edge, unit) ==
  IF terms.sizing = "fixed" THEN Min({MaxStake * Dollar, cash})
  ELSE Min({MaxStake * Dollar, (((cash * edge) \div (4 * (UnitDollar - unit))) \div Cent) * Cent, cash})

decide(asks, sizes, p) ==
  /\ terms.runner = "jev" /\ stage = "idle" /\ markets < MaxMarkets /\ markets' = markets + 1
  /\ IF Offers(asks, p) = {} THEN UNCHANGED <<stage, bet>>
     ELSE LET side == Best(asks, p)  entry == Entry(asks[side])  unit == Unit(entry)
              stake == Staked(Edge(p, side, entry), unit)
              quantity == Quantity(stake, unit, sizes[side]) IN
          IF stake < MinStake * Dollar \/ quantity < Minimum * 10 THEN UNCHANGED <<stage, bet>>
          ELSE /\ stage' = "decided"
               /\ bet' = [side |-> side, limit |-> entry, p |-> p, quantity |-> quantity,
                          cost |-> ((quantity * unit) \div CostQuantum) * CostQuantum]
  /\ UNCHANGED <<cash, pending>>

\* The book of the side again: the fill is at the limit, for the quantity decided.
FreshBook(ask, size) ==
  /\ terms.runner = "jev" /\ stage = "decided" /\ stage' = "idle" /\ bet' = None /\ UNCHANGED markets
  /\ IF ask <= bet.limit /\ bet.quantity >= Minimum * 10 /\ bet.quantity <= Visible(size)
     THEN Keep(bet.side, ask, size, bet.p, bet.limit, bet.quantity, bet.cost) ELSE NoFill

----------------------------------------------------------------------------
\* The official outcome of a closed market: a share is paid a dollar, nothing, or half of one.
SharePayouts == {0, Dollar \div 20, Dollar \div 10}

Settle(f, payout) ==
  /\ stage = "idle" /\ f \in pending /\ pending' = pending \ {f}
  /\ cash' = cash + f.quantity * payout
  /\ UNCHANGED <<stage, bet, markets>>

BetNext ==
  /\ \/ \E asks \in [Sides -> Asks], p \in Probabilities :
          DecideFrozen(asks, p) \/ \E sizes \in [Sides -> Sizes] : decide(asks, sizes, p)
     \/ \E ask \in Asks, size \in Sizes :
          FreshBook(ask, size) \/ \E p \in Probabilities : recheck_fill(ask, size, p)
     \/ \E f \in pending, payout \in SharePayouts : Settle(f, payout)
  /\ UNCHANGED terms

BetSpec == BetInit /\ [][BetNext]_bet_vars

----------------------------------------------------------------------------
(* Properties. *)

\* The cash is never negative, with any number of bets that are still to be settled.
NeverOverdrawn == cash >= 0

\* What is charged for a share is no less than the ask at the fill, and the probability of that
\* moment still leaves the registered edge after the price and the fee, however the book and
\* the probability moved between the decision and the fill.
WorthItsCost ==
  \A f \in pending : /\ f.entry >= f.ask
                     /\ f.chance * 200 - (f.entry * 200 + f.entry * (20 - f.entry)) >= MinEdge * 200

\* A fill takes no more than the visible share of the book it is made from.
WithinDepth == \A f \in pending : f.quantity <= f.visible

\* A fill of the challenger is the registered bet whole, cut only by the depth of the book,
\* never by what earlier bets left ("Do not shrink the registered $10 bet").
RegisteredBet ==
  \A f \in pending :
    f.quantity = f.visible \/ f.cost + (f.entry * 200 + f.entry * (20 - f.entry)) > MaxStake * Dollar

\* A bet of JEV risks no more than a quarter of what Kelly's formula gives for its edge and the
\* cash before it: no rounding and no minimum lifts it above.
WithinKelly ==
  \A f \in pending :
    LET unit == f.entry * 200 + f.entry * (20 - f.entry)
    IN f.cost * 4 * (UnitDollar - unit) <= f.before * (f.chance * 200 - unit)

\* A fill is paid from cash that is there and taken from shares that are offered, for less
\* than it is worth; the challenger's is the registered bet whole, JEV's within a quarter
\* of Kelly's formula (recheck_fill, decide, observe_and_trade).
BetsCovered ==
  /\ NeverOverdrawn /\ WithinDepth /\ WorthItsCost
  /\ terms.runner = "frozen" => RegisteredBet
  /\ terms.runner = "jev" /\ terms.sizing = "fractional_kelly" => WithinKelly
=============================================================================
