----------------------------- MODULE Simulations -----------------------------
(***************************************************************************)
(* The two kinds of simulation beside each other.  They share nothing but  *)
(* the summary of their trades.                                            *)
(***************************************************************************)
EXTENDS Replay, Backtest

SimulationsInit == ReplayInit /\ TestInit
SimulationsNext ==
  \/ ReplayNext /\ UNCHANGED test_vars
  \/ TestNext /\ UNCHANGED replay_vars
SimulationsSpec == SimulationsInit /\ [][SimulationsNext]_<<replay_vars, test_vars>>

\* What an evaluation reports is what an account could have followed: its cash is that of
\* the outcomes known by the decision, within the limits, its drawdown the largest fall
\* between two moments, its ruin the first stake it cannot pay (Replay, Backtest).
AccountsTrue ==
  /\ CashExplained /\ ReleasedInTime /\ WithinCash /\ DrawdownTrue
  /\ PathExecutable /\ SummaryTrue /\ RuinAtFirst
=============================================================================
