------------------------------- MODULE Money -------------------------------
(***************************************************************************)
(* The exact decimal arithmetic of edgehunter/domain/models.py, on integers *)
(*                                                                         *)
(* Amounts are counted in the unit that money() and proceeds() round to,   *)
(* and quantities in the unit that costs one unit of money at the price 1. *)
(* A price is a whole number of ticks, One of them the price 1, the payout *)
(* of a winning share.  A fee rate is a number of parts in FeeScale.       *)
(***************************************************************************)
EXTENDS Totals

CONSTANTS One, FeeScale, Dust

\* Even, so that One \div 2 is the price one half.
ASSUME OneAssumption == One \in Nat /\ One > 0 /\ One % 2 = 0
ASSUME FeeScaleAssumption == FeeScale \in Nat /\ FeeScale > 0
\* The 0.000100 that cost_cap adds for the rounding of the fee of each fill.
ASSUME DustAssumption == Dust \in Nat

Least(a, b) == IF a <= b THEN a ELSE b
Greatest(a, b) == IF a >= b THEN a ELSE b

\* A debit is rounded up and a credit down; x / d is the exact amount.
MoneyUp(x, d) == (x + d - 1) \div d
ProceedsDown(x, d) == x \div d

\* Debit and credit for q shares at price p.
Money(q, p) == MoneyUp(q * p, One)
Proceeds(q, p) == ProceedsDown(q * p, One)

\* Mutant: the average cost of a share, rounded once for each share.
BasisShareByUnit(basis, q, n) == q * ProceedsDown(basis, n)

\* The part of a position's cost that leaves with q of its n shares.
BasisShare(basis, q, n) == IF q = n THEN basis ELSE ProceedsDown(basis * q, n)

FeeFor(plan, q, p) ==
  IF plan.feeModel = "polymarket_curve"
    THEN MoneyUp(q * plan.feeRate * p * (One - p), FeeScale * One * One)
    ELSE MoneyUp(q * plan.feeRate * p, FeeScale * One)

\* The reservation covers the dearest fee of the approved price range: the
\* curve peaks at one half, the flat fee at the limit.
CostCap(plan) ==
  LET feePrice == IF plan.feeModel = "polymarket_curve"
                    THEN Least(plan.limit, One \div 2) ELSE plan.limit
  IN  Money(plan.quantity, plan.limit) + FeeFor(plan, plan.quantity, feePrice) + Dust
=============================================================================
