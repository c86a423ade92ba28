------------------------------- MODULE Traders -------------------------------
(***************************************************************************)
(* The two paper traders without a frozen manifest, the JEV runner and the *)
(* lag experiment, on one machine: they look at the same markets, each has *)
(* a file and a lock of its own, and they run beside each other.           *)
(***************************************************************************)
EXTENDS JevRunner, LagTrader

traders_vars == <<world, jev_state, lag_state>>

TradersInit == JevInit /\ LagInit

TradersNext ==
  \/ World /\ UNCHANGED <<jev_state, lag_state>>
  \/ JevStep /\ UNCHANGED <<world, lag_state>>
  \/ LagStep /\ UNCHANGED <<world, jev_state>>

TradersSpec == TradersInit /\ [][TradersNext]_traders_vars

----------------------------------------------------------------------------
\* Whatever a crash or a failed write left, and whichever of the programs moves, a market is
\* decided and filled once in each journal, and settled once in that of the lag experiment,
\* which reads its file again in every cycle.  In that of JEV it is scored and settled once as
\* long as no append of it raised: see SettledOnce for what one that did leaves
\* (JevRunner, LagTrader).
JournalsAgree == JevTypeOK /\ LagTypeOK /\ DecidedOnce /\ SettledOnce /\ OneBetPerMarket
=============================================================================
