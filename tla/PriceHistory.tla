----------------------------- MODULE PriceHistory -----------------------------
(***************************************************************************)
(* The price history of one market in research/btc_history_download.py:    *)
(* from the batch endpoint or from pages of trades, newest first, to the   *)
(* observations build_observations derives from it at each horizon.        *)
(* Times are small integers; Bar of them make one candle.              *)
(***************************************************************************)
EXTENDS NoValue, Integers, FiniteSets, FiniteSetsExt

CONSTANTS Epoch, Length,                   \* the market's interval
          Bar, Warmup,                     \* one candle, the prior candles needed
          Horizons, MaxAge, PageSize,
          LastTime                         \* the venue's trades lie in 1 .. LastTime

Tokens == {"up", "down"}
Times == 1 .. LastTime
Points == [token : Tokens, time : Times, resolution : {0, Bar}]

ASSUME HistoryAssumption ==
  /\ {Epoch, Length, Warmup, MaxAge, LastTime} \subseteq Nat
  /\ Bar \in Nat \ {0} /\ PageSize \in Nat \ {0}
  /\ Horizons \subseteq 1 .. Length /\ Horizons # {}

VARIABLES trades,   \* what the venue lists
          batch,    \* the minute points of the batch endpoint, None when it failed
          lost,     \* the candles that are missing
          taken,    \* the trades of the pages that were read
          record, rows

history_vars == <<trades, batch, lost, taken, record, rows>>

Decision(h) == Epoch + Length - h
earliest_decision == Decision(Max(Horizons))
latest_decision == Decision(Min(Horizons))

Batches == {{[token |-> k, time |-> t, resolution |-> Bar] : k \in Tokens, t \in ts} :
             ts \in SUBSET {t \in Times : t % Bar = 0}}

\* A batch answer is taken whole, and the trades are not asked for, or it is dropped: the
\* two never meet.
HistoryInit ==
  /\ \/ trades \in SUBSET {p \in Points : p.resolution = 0} /\ batch = None
     \/ trades = {} /\ batch \in Batches
  /\ lost \in {{}, {Epoch - Bar}}
  /\ taken = {} /\ record = None /\ rows = {}

OfToken(points, k) == {p \in points : p.token = k}

_histories_cover_earliest(points) ==
  \A k \in Tokens : \E p \in OfToken(points, k) : p.time + p.resolution <= earliest_decision

_make_price_record(points, source) ==
  [points |-> points, source |-> source, available |-> _histories_cover_earliest(points)]

\* _batch_price_records: the batch answer when it covers every horizon.
Early(points) == {p \in points : p.time <= latest_decision}

BatchCovers == batch # None /\ _histories_cover_earliest(Early(batch))

BatchUsed ==
  /\ record = None /\ taken = {} /\ BatchCovers
  /\ record' = _make_price_record(Early(batch), "batch")
  /\ UNCHANGED <<trades, batch, lost, taken, rows>>

\* Pages are cut from the trades newest first, in any order of those of one instant.
Pages ==
  LET rest == trades \ taken
  IN {page \in kSubset(Min({PageSize, Cardinality(rest)}), rest) :
        \A p \in page, q \in rest \ page : q.time <= p.time}

\* Mutant: one of the two tokens is enough.
EnoughOne(points, page) ==
  /\ \E k \in Tokens : \E p \in OfToken(points, k) : p.time <= earliest_decision
  /\ \E p \in page : p.time <= earliest_decision

\* fetch_trade_histories: one page, and whether another one is asked for.
Enough(points, page) ==
  /\ \A k \in Tokens : \E p \in OfToken(points, k) : p.time <= earliest_decision
  /\ \E p \in page : p.time <= earliest_decision

fetch_trade_histories ==
  /\ record = None /\ ~(taken = {} /\ BatchCovers)
  /\ \E page \in Pages :
       LET points == Early(taken \cup page)
       IN /\ taken' = taken \cup page
          /\ record' = IF taken' = trades \/ Enough(points, page)
                       THEN _make_price_record(points, "trades") ELSE None
  /\ UNCHANGED <<trades, batch, lost, rows>>

\* The newest point known at the decision, unless it is too old.
Eligible(points, decision) == {p \in points : p.time + p.resolution <= decision}

_latest_price(points, decision) ==
  IF \E p \in Eligible(points, decision) : decision - p.time <= MaxAge
  THEN CHOOSE p \in Eligible(points, decision) : \A q \in Eligible(points, decision) : q.time <= p.time
  ELSE None

Candle(t) == t \notin lost
Row(h) ==
  LET point(k) == _latest_price(OfToken(record.points, k), Decision(h))
      feature == (Min({point("up").time, point("down").time}) \div Bar) * Bar
      used == {feature - i * Bar : i \in 1 .. Warmup}
      effective == Epoch + Length - feature
  IN IF /\ Candle(Epoch)
        /\ \A k \in Tokens : point(k) # None
        /\ Candle(feature) /\ \A t \in used : Candle(t)
        /\ 0 < effective /\ effective <= Length
     THEN [horizon |-> h, up |-> point("up"), down |-> point("down"),
           spot |-> feature, closes |-> used, effective |-> effective]
     ELSE None

build_observations ==
  /\ record # None /\ rows' = {Row(h) : h \in Horizons} \ {None}
  /\ UNCHANGED <<trades, batch, lost, taken, record>>

HistoryNext == BatchUsed \/ fetch_trade_histories \/ build_observations

HistorySpec == HistoryInit /\ [][HistoryNext]_history_vars

----------------------------------------------------------------------------
(* Properties. *)

\* The paging stops early without losing anything: at every horizon the price is the
\* one all the trades of the market would give (fetch_trade_histories, _latest_price).
EarlyStopLosesNothing ==
  record # None /\ record.source = "trades" =>
    \A k \in Tokens, h \in Horizons :
      _latest_price(OfToken(record.points, k), Decision(h)) = _latest_price(OfToken(trades, k), Decision(h))

\* Nothing of an observation was known later than its decision: not the two prices, not
\* the close of a candle; and its horizon is not shorter than the one asked for.
NothingLater ==
  \A row \in rows :
    /\ \A p \in {row.up, row.down} : p.time + p.resolution <= Decision(row.horizon)
    /\ \A t \in row.closes : t + Bar <= Decision(row.horizon)
    /\ row.spot <= Decision(row.horizon) /\ row.effective >= row.horizon

\* Both prices of an observation were fresh when it was decided, on either source.
FreshPair ==
  \A row \in rows : \A p \in {row.up, row.down} :
    /\ Decision(row.horizon) - p.time <= MaxAge
    /\ p.time >= row.spot /\ row.spot >= Epoch

\* A row of a data set knows everything before its decision that is fresh, and nothing
\* after it, although the pages are left early (fetch_trade_histories, build_observations).
NoLookAhead == EarlyStopLosesNothing /\ NothingLater /\ FreshPair
=============================================================================
