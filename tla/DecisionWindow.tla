---------------------------- MODULE DecisionWindow ----------------------------
(***************************************************************************)
(* The clock of one five-minute market: when the frozen challenger and the *)
(* JEV runner may decide, which candles become features, and what a fill   *)
(* after the latency rests on (observe_once, observation_from_public,       *)
(* recheck_fill; observe_and_trade, compute_btc_features).  Time is counted *)
(* in ticks from the opening of the market; prices are left out.            *)
(***************************************************************************)
EXTENDS Integers, FiniteSets, FiniteSetsExt

CONSTANTS
  Clocks,                      \* policies: [runner, tolerance, close_buffer]
  Minute,                      \* ticks; a market has five
  Horizon,                     \* of the decision, in ticks before the close
  Effective,                   \* required_effective_horizon_seconds ("frozen")
  BookAge, TickerAge, PairSkew, FutureSkew,
  Lookback,                    \* minutes of the volatility
  Contiguous,                  \* fewest of them ("jev")
  Publication,                 \* ticks until the exchange's candle is final
  Stray                        \* bound: ticks a stamp may be off beyond what is allowed

Close == 5 * Minute

\* The registered horizons keep the publication buffer of a candle between them.
ASSUME WindowAssumption ==
  /\ {Horizon, Effective, BookAge, TickerAge, PairSkew, FutureSkew, Lookback, Contiguous,
      Publication, Stray} \subseteq Nat
  /\ Minute \in Nat \ {0}
  /\ Clocks \subseteq [runner : {"frozen", "jev"}, tolerance : Nat, close_buffer : Nat]
  /\ Horizon <= Close /\ Horizon + Publication <= Effective

VARIABLES clock,       \* the policy of the runner
          now,
          at,          \* of the run for this market
          asked,       \* when the request under way was sent
          basis,       \* what the probability rests on: its closes, their reading, its oldest book
          predicted,   \* the basis of the prediction
          book         \* the stamp of the book a fill is made of
window_vars == <<clock, now, at, asked, basis, predicted, book>>

Nothing == [closes |-> {}, read |-> 0, oldest |-> 0]
Remaining == Close - now
Done == {"idle", "rejected", "error", "passed", "filled"}

\* Before its horizon the market is only waited for.
WindowInit ==
  /\ clock \in Clocks /\ now = Close - Horizon
  /\ at = "idle" /\ asked = 0 /\ basis = Nothing /\ predicted = Nothing /\ book = 0

Tick == now < Close /\ now' = now + 1 /\ UNCHANGED <<at, asked, basis, predicted, book>>

Enter(place) == at' = place /\ UNCHANGED now

\* The market is claimed once; a late process has missed it.
Claim ==
  /\ at = "idle" /\ Remaining <= Horizon
  /\ Enter(IF Remaining < Horizon - clock.tolerance THEN "rejected" ELSE "fetching")
  /\ asked' = now /\ UNCHANGED <<basis, predicted, book>>

----------------------------------------------------------------------------
(* The inputs. *)

Stamps == (now - BookAge - Stray) .. (now + FutureSkew + Stray)
Answered == asked .. now
\* The candles begun at time t, one of which may be missing.
Minutes(t) == {m \in (- Lookback * Minute) .. t : m % Minute = 0}
Candles(t) == {Minutes(t)} \cup {Minutes(t) \ {m} : m \in Minutes(t)}

Fresh(stamp, age) == - FutureSkew <= now - stamp /\ now - stamp <= age
\* checked_book of both sides, and their skew.
Paired(u, d) == Fresh(u, BookAge) /\ Fresh(d, BookAge) /\ u - d <= PairSkew /\ d - u <= PairSkew

Cutoff(u, d) == (Min({u, d}) \div Minute) * Minute

\* Mutant: the candle of the cutoff is taken with the ones before it.
RequiredThrough(c) == {c - k * Minute : k \in 0 .. (Lookback - 1)}

\* Closes strictly before the cutoff.
Required(c) == {c - k * Minute : k \in 1 .. Lookback}

\* observation_from_public
FrozenAccepts(u, d, candles) ==
  LET c == Cutoff(u, d) IN
  /\ 0 <= c /\ c <= now
  /\ Close - c = Effective
  /\ Required(c) \cup {0, c} \subseteq candles

\* compute_btc_features: back from the opening until a minute is missing.
Run(candles) ==
  {m \in candles : m < 0 /\ \A k \in m .. (-1) : k % Minute = 0 => k \in candles}

JevAccepts(candles) == 0 \in candles /\ Cardinality(Run(candles)) >= Contiguous

Accepts(u, d, candles) ==
  IF clock.runner = "frozen" THEN FrozenAccepts(u, d, candles) ELSE JevAccepts(candles)
Closes(u, d, candles) == IF clock.runner = "frozen" THEN Required(Cutoff(u, d)) ELSE Run(candles)

\* The stamps of the two books are fresh, and that of the ticker, whose age is looked at here
\* and not followed any further.
Books ==
  {b \in Stamps \X Stamps : Paired(b[1], b[2]) /\ \E s \in Stamps : Fresh(s, TickerAge)}

Read(u, d, t, candles) ==
  basis' = [closes |-> Closes(u, d, candles), read |-> t, oldest |-> Min({u, d})]

InWindow == Horizon - clock.tolerance <= Remaining /\ Remaining <= Horizon

\* Any of the requests may raise.
Predict ==
  /\ at = "fetching"
  /\ \/ /\ InWindow /\ Enter("predicted")
        /\ \E b \in Books, t \in Answered : \E candles \in Candles(t) :
             Accepts(b[1], b[2], candles) /\ Read(b[1], b[2], t, candles)
        /\ predicted' = basis'
     \/ Enter("error") /\ UNCHANGED <<basis, predicted>>
  /\ UNCHANGED <<asked, book>>

----------------------------------------------------------------------------

\* The latency of the challenger or the inference of JEV, which may give no side or come late.
Choose ==
  /\ at = "predicted" /\ Enter("rechecking") /\ asked' = now
  /\ clock.runner = "jev" => Remaining > clock.close_buffer
  /\ UNCHANGED <<basis, predicted, book>>
Pass == at = "predicted" /\ Enter("passed") /\ UNCHANGED <<asked, basis, predicted, book>>

\* The challenger reads every input again and predicts again before it fills.
RecheckFrozen ==
  /\ at = "rechecking" /\ clock.runner = "frozen"
  /\ \/ /\ Remaining > clock.close_buffer /\ Enter("filled")
        /\ \E b \in Books, t \in Answered : \E candles \in Candles(t) :
             Accepts(b[1], b[2], candles) /\ Read(b[1], b[2], t, candles) /\ book' \in {b[1], b[2]}
     \/ Enter("error") /\ UNCHANGED <<basis, book>>
  /\ UNCHANGED <<asked, predicted>>

\* JEV reads the book of its side again.
RecheckJev ==
  /\ at = "rechecking" /\ clock.runner = "jev"
  /\ \E u \in Stamps : IF Fresh(u, BookAge) /\ Remaining > clock.close_buffer THEN book' = u /\ Enter("filled")
                       ELSE Enter("error") /\ UNCHANGED book
  /\ UNCHANGED <<asked, basis, predicted>>

WindowNext ==
  /\ Tick \/ Claim \/ Predict \/ Choose \/ Pass \/ RecheckFrozen \/ RecheckJev
  /\ UNCHANGED clock

WindowSpec == WindowInit /\ [][WindowNext]_window_vars

----------------------------------------------------------------------------
(* Properties. *)

\* A decision is in one of its steps, and what was read was read before now, the
\* prediction's reading before the fill's.
WindowTypeOK ==
  /\ now \in 0 .. Close /\ at \in Done \cup {"fetching", "predicted", "rechecking"}
  /\ asked <= now /\ basis.read <= now /\ predicted.read <= basis.read

\* Every close a probability rests on is of a candle that was final when it was read: the
\* horizon of the decision, the effective horizon and the older of the two books together keep
\* the publication buffer ("without any unfinished candle close").
ClosesFinal == \A m \in basis.closes : m + Minute + Publication <= basis.read

\* The closes are one unbroken run up to a minute, never joined over a gap.
ClosesContiguous ==
  \A m, k \in basis.closes : \A x \in m .. k : x % Minute = 0 => x \in basis.closes

\* A fill of the challenger rests on the same candles as the prediction it was claimed for,
\* however long the requests and the latency took.
SameCandles == at = "filled" => basis.closes = predicted.closes

\* A fill of the challenger rests on inputs read after the latency, none of them stale.
FreshAtFill == at' = "filled" /\ at # "filled" => now - basis'.oldest <= BookAge /\ basis'.read >= asked

\* JEV never fills at the end of the market or from an old book, however long the inference
\* and the requests took.
InTimeAtFill == at' = "filled" /\ at # "filled" => Remaining > clock.close_buffer /\ now - book' <= BookAge

\* A prediction rests on one unbroken run of closes.  The challenger's are final, its fill rests
\* on the same ones and on books that were read after the latency and are not stale; JEV, which
\* reads only its book again, fills before the end of the market from a book that is not stale
\* (observe_once, recheck_fill, observe_and_trade).
InputsFresh ==
  /\ [](/\ WindowTypeOK /\ ClosesContiguous
        /\ clock.runner = "frozen" => ClosesFinal /\ SameCandles)
  /\ [][IF clock.runner = "frozen" THEN FreshAtFill ELSE InTimeAtFill]_window_vars
=============================================================================
