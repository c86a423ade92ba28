------------------------------ MODULE MCResearch ------------------------------
(***************************************************************************)
(* The decisions, bets and evaluations of the research, for TLC.  They     *)
(* share no state, so what one of them does says nothing of another: each  *)
(* behaviour is of one of them, its study, and the rest stays at one of    *)
(* its initial states.                                                     *)
(***************************************************************************)
EXTENDS DecisionWindow, PaperBet, PriceHistory, Holdout, Splits, Simulations, TLC

CONSTANTS p1, p2, robust, learned,  \* runs and identities of an evaluation
          here, there               \* clusters of events

VARIABLE study

\* Ticks of ten seconds; every limit of the policy rounded up.
BothClocks == {[runner |-> "frozen", tolerance |-> 1, close_buffer |-> 1],
               [runner |-> "jev", tolerance |-> 6, close_buffer |-> 2]}

\* The registered stake, the quarter of Kelly's, and a stake larger than the cash.
ThreeTerms == {[runner |-> "frozen", sizing |-> "fixed", capital |-> 5],
               [runner |-> "jev", sizing |-> "fractional_kelly", capital |-> 20],
               [runner |-> "jev", sizing |-> "fixed", capital |-> 3]}

\* Two of three rules pass, and none of what is learned.
TwoOfThree == (robust :> {1, 3}) @@ (learned :> {})

\* evaluate, and both policies of the capital stress.
Policy(rule, prices, chances, start, slippage, risk, limit, most) ==
  [rule |-> rule, prices |-> prices, chances |-> chances, times |-> {1, 2}, delays |-> {1, 4},
   capital |-> start, threshold |-> 6, maxPrice |-> 9, slippage |-> slippage, risk |-> risk,
   maxLocked |-> limit, minimum |-> 1, minEdge |-> 0, maxRows |-> most]
ThreePolicies ==
  {Policy("favorite", {<<6, 5>>, <<2, 8>>}, {5}, 4000, 1, 1800, 3000, 4)}
  \cup {Policy(rule, {<<6, 4>>, <<2, 8>>}, {5, 8}, 40000, 0, 15000, 40000, 3) : rule \in {"fixed", "kelly"}}

\* A capital of two stakes and a half, over two days.
BothSetups ==
  {[rule |-> rule, prices |-> {<<6, 4>>, <<3, 7>>, <<5, 5>>}, chances |-> {100, 500, 800}, capital |-> 250,
    stake |-> 100, slippage |-> 1, maxAsk |-> 8, minEdge |-> 50, days |-> <<1, 1, 2, 2>>, horizon |-> 3]
     : rule \in {"fixed", "learned"}}

Studies == {"window", "bet", "replay", "backtest", "history", "holdout", "splits"}

ClockOf == CHOOSE c \in Clocks : TRUE
TermsOf == CHOOSE t \in Terms : TRUE
PolicyOf == CHOOSE p \in Policies : TRUE
SetupOf == CHOOSE s \in Setups : TRUE

Init ==
  /\ study \in Studies
  /\ WindowInit /\ (study # "window" => clock = ClockOf)
  /\ BetInit /\ (study # "bet" => terms = TermsOf)
  /\ ReplayInit /\ (study # "replay" => policy = PolicyOf)
  /\ TestInit /\ (study # "backtest" => setup = SetupOf)
  /\ IF study = "history" THEN HistoryInit
     ELSE trades = {} /\ batch = None /\ lost = {} /\ taken = {} /\ record = None /\ rows = {}
  /\ HoldoutInit /\ (study # "holdout" => experiments = {})
  /\ IF study = "splits" THEN SplitInit
     ELSE epochs = {} /\ events = {} /\ embargo = 0 /\ cut = None /\ parts = None

Only(s) == study = s /\ UNCHANGED study

Next ==
  \/ /\ Only("window") /\ WindowNext
     /\ UNCHANGED <<bet_vars, replay_vars, test_vars, history_vars, holdout_vars, split_vars>>
  \/ /\ Only("bet") /\ BetNext
     /\ UNCHANGED <<window_vars, replay_vars, test_vars, history_vars, holdout_vars, split_vars>>
  \/ /\ Only("replay") /\ ReplayNext
     /\ UNCHANGED <<window_vars, bet_vars, test_vars, history_vars, holdout_vars, split_vars>>
  \/ /\ Only("backtest") /\ TestNext
     /\ UNCHANGED <<window_vars, bet_vars, replay_vars, history_vars, holdout_vars, split_vars>>
  \/ /\ Only("history") /\ HistoryNext
     /\ UNCHANGED <<window_vars, bet_vars, replay_vars, test_vars, holdout_vars, split_vars>>
  \/ /\ Only("holdout") /\ HoldoutNext
     /\ UNCHANGED <<window_vars, bet_vars, replay_vars, test_vars, history_vars, split_vars>>
  \/ /\ Only("splits") /\ SplitNext
     /\ UNCHANGED <<window_vars, bet_vars, replay_vars, test_vars, history_vars, holdout_vars>>

Spec == Init /\ [][Next]_<<study, window_vars, bet_vars, replay_vars, test_vars, history_vars, holdout_vars, split_vars>>

MCSymmetry == Permutations({p1, p2}) \cup Permutations({here, there})
=============================================================================
