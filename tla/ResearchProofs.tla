--------------------------- MODULE ResearchProofs ---------------------------
(* What the decisions, bets, data sets and evaluations of the research keep, *)
(* for every policy, book, history and number of runs.                       *)
EXTENDS DecisionWindow, PaperBet, PriceHistory, Holdout, Splits, Simulations, TotalProofs,
        FiniteSetTheorems, WellFoundedInduction, TLAPS

(***************************************************************************)
(* Numbers.                                                                *)
(***************************************************************************)
\* A whole quotient, its product and its rest.
LEMMA DivBounds ==
  ASSUME NEW n \in Nat, NEW d \in Nat \ {0}
  PROVE  n \div d \in Nat /\ (n \div d) * d <= n /\ n < (n \div d) * d + d
OBVIOUS

\* The least of two and of three numbers.
LEMMA LeastOfTwo ==
  ASSUME NEW x \in Int, NEW y \in Int
  PROVE  Min({x, y}) \in {x, y} /\ Min({x, y}) <= x /\ Min({x, y}) <= y
<1>1. \E m \in {x, y} : \A k \in {x, y} : m <= k
  BY x <= y \/ y <= x
<1>2. QED
  BY <1>1 DEF Min

LEMMA LeastNatural ==
  ASSUME NEW x \in Nat, NEW y \in Nat
  PROVE  Min({x, y}) \in {x, y} /\ Min({x, y}) \in Nat /\ Min({x, y}) <= x /\ Min({x, y}) <= y
<1>1. \E m \in {x, y} : \A k \in {x, y} : m <= k
  BY x <= y \/ y <= x
<1>2. QED
  BY <1>1 DEF Min

LEMMA LeastOfThree ==
  ASSUME NEW x \in Nat, NEW y \in Nat, NEW z \in Nat
  PROVE  /\ Min({x, y, z}) \in {x, y, z}
         /\ Min({x, y, z}) <= x /\ Min({x, y, z}) <= y /\ Min({x, y, z}) <= z
<1>1. \E m \in {x, y, z} : \A k \in {x, y, z} : m <= k
  BY (x <= y \/ y <= x) /\ (x <= z \/ z <= x) /\ (y <= z \/ z <= y)
<1>2. QED
  BY <1>1 DEF Min

\* A set of numbers that is not empty has a least one.
LEMMA LeastNumber ==
  ASSUME NEW T \in SUBSET Nat, T # {}
  PROVE  \E x \in T : \A y \in T : x <= y
<1> DEFINE Less == {ss \in Nat \X Nat : ss[1] < ss[2]}
<1>1. IsWellFoundedOn(Less, Nat)
  BY NatLessThanWellFounded DEF OpToRel
<1>2. PICK x \in T : \A y \in T : ~ (<<y, x>> \in Less)
  <2> HIDE DEF Less
  <2>1. QED
    BY <1>1, WFMin
<1>3. ASSUME NEW y \in T PROVE x <= y
  <2>1. ~ (<<y, x>> \in Less)
    BY <1>2
  <2>2. ~ (y < x)
    BY <2>1
  <2>3. QED
    BY <2>2
<1>4. QED
  BY <1>3

\* One that is bounded has a greatest one.
LEMMA GreatestNumber ==
  ASSUME NEW T \in SUBSET Nat, T # {}, NEW bound \in Nat, \A x \in T : x <= bound
  PROVE  \E x \in T : \A y \in T : y <= x
<1> DEFINE U == {bound - x : x \in T}
<1>1. U \in SUBSET Nat /\ U # {}
  <2>1. \A x \in T : bound - x \in Nat
    OBVIOUS
  <2>2. QED
    BY <2>1
<1>2. PICK u \in U : \A v \in U : u <= v
  BY <1>1, LeastNumber
<1>3. PICK x \in T : u = bound - x
  OBVIOUS
<1>4. \A y \in T : bound - x <= bound - y
  BY <1>2, <1>3
<1>5. QED
  BY <1>4

(***************************************************************************)
(* The decision of a market.                                               *)
(***************************************************************************)
Unbroken(closes) == \A m, k \in closes : \A x \in m .. k : x % Minute = 0 => x \in closes

\* The candles of a registered decision.
Registered == Required(Close - Effective)

WindowInv ==
  /\ WindowTypeOK /\ clock \in Clocks
  /\ now \in Int /\ Close - Horizon <= now /\ asked \in Int
  /\ at # "idle" => asked >= Close - Horizon
  /\ basis.read \in Int /\ predicted.read \in Int
  /\ at = "rechecking" => predicted.read <= asked
  /\ Unbroken(basis.closes)
  /\ clock.runner = "frozen" =>
       /\ basis.closes = {} \/ (basis.closes = Registered /\ basis.read >= Close - Horizon)
       /\ at \in {"predicted", "rechecking", "filled"} =>
            basis.closes = Registered /\ predicted.closes = Registered

\* Multiples of a minute stand in the order of their factors.
LEMMA FactorsOrdered ==
  ASSUME NEW a \in Int, NEW b \in Int, a * Minute <= b * Minute
  PROVE  a <= b
<1> SUFFICES ASSUME b + 1 <= a PROVE FALSE
  OBVIOUS
<1>1. Minute \in Nat \ {0}
  BY WindowAssumption
<1>2. (b + 1) * Minute <= a * Minute
  BY <1>1
<1>3. (b + 1) * Minute = b * Minute + Minute
  BY <1>1
<1> DEFINE p == a * Minute
           q == b * Minute
<1>4. p \in Int /\ q \in Int /\ p <= q /\ q + Minute <= p
  BY <1>1, <1>2, <1>3
<1> HIDE DEF p, q
<1>5. QED
  BY <1>1, <1>4

LEMMA WholeMinutes ==
  ASSUME NEW x \in Int, x % Minute = 0
  PROVE  \E q \in Int : x = q * Minute
<1>1. Minute \in Nat \ {0}
  BY WindowAssumption
<1>2. x \div Minute \in Int /\ x = (x \div Minute) * Minute
  BY <1>1
<1>3. QED
  BY <1>2

LEMMA RequiredUnbroken == ASSUME NEW d \in Int PROVE Unbroken(Required(d * Minute))
<1> SUFFICES ASSUME NEW m \in Required(d * Minute), NEW k \in Required(d * Minute),
                    NEW x \in m .. k, x % Minute = 0
             PROVE  x \in Required(d * Minute)
  BY DEF Unbroken
<1>1. Minute \in Nat \ {0} /\ Lookback \in Nat
  BY WindowAssumption
<1>2. PICK i \in 1 .. Lookback : m = d * Minute - i * Minute
  BY DEF Required
<1>3. PICK j \in 1 .. Lookback : k = d * Minute - j * Minute
  BY DEF Required
<1>4. d * Minute \in Int /\ i * Minute \in Int /\ j * Minute \in Int
  BY <1>1
<1>5. m \in Int /\ k \in Int /\ x \in Int /\ m <= x /\ x <= k
  BY <1>2, <1>3, <1>4
<1>6. PICK q \in Int : x = q * Minute
  BY <1>5, WholeMinutes
<1>7. m = (d - i) * Minute /\ k = (d - j) * Minute
  BY <1>1, <1>2, <1>3
<1>8. d - i <= q /\ q <= d - j
  <2>1. (d - i) * Minute <= q * Minute /\ q * Minute <= (d - j) * Minute
    BY <1>5, <1>6, <1>7
  <2>2. QED
    BY <2>1, FactorsOrdered
<1>9. d - q \in 1 .. Lookback
  BY <1>1, <1>8
<1>10. x = d * Minute - (d - q) * Minute
  BY <1>1, <1>6
<1>11. QED
  BY <1>9, <1>10 DEF Required

LEMMA RunUnbroken == ASSUME NEW candles \in SUBSET Int PROVE Unbroken(Run(candles))
<1> SUFFICES ASSUME NEW m \in Run(candles), NEW k \in Run(candles), NEW x \in m .. k, x % Minute = 0
             PROVE  x \in Run(candles)
  BY DEF Unbroken
<1>1. m \in Int /\ k \in Int /\ x \in Int /\ m <= x /\ x <= k /\ k < 0
  BY DEF Run
<1>2. \A y \in x .. (-1) : y \in m .. (-1)
  BY <1>1
<1>3. x \in m .. (-1)
  BY <1>1
<1>4. QED
  BY <1>1, <1>2, <1>3 DEF Run

\* What a reading of the inputs gives, whichever answers it was made of.
LEMMA InputsRead ==
  ASSUME WindowInv, at # "idle", NEW b \in Books, NEW t \in Answered, NEW candles \in Candles(t),
         Accepts(b[1], b[2], candles), Read(b[1], b[2], t, candles)
  PROVE  /\ basis'.read \in Int /\ asked <= basis'.read /\ basis'.read <= now
         /\ basis'.read >= Close - Horizon
         /\ now - basis'.oldest <= BookAge
         /\ Unbroken(basis'.closes)
         /\ clock.runner = "frozen" => basis'.closes = Registered
<1>1. b[1] \in Int /\ b[2] \in Int /\ Paired(b[1], b[2]) /\ t \in Int /\ asked <= t /\ t <= now
  <2>1. Stamps \subseteq Int
    BY WindowAssumption DEF Stamps, WindowInv
  <2>2. b[1] \in Stamps /\ b[2] \in Stamps /\ Paired(b[1], b[2])
    BY DEF Books
  <2>3. t \in Int /\ asked <= t /\ t <= now
    BY DEF Answered, WindowInv
  <2>4. QED
    BY <2>1, <2>2, <2>3
<1>2. basis'.read = t /\ basis'.oldest = Min({b[1], b[2]}) /\ basis'.closes = Closes(b[1], b[2], candles)
  BY DEF Read
<1>3. Min({b[1], b[2]}) \in {b[1], b[2]}
  BY <1>1, LeastOfTwo
<1>4. now - Min({b[1], b[2]}) <= BookAge
  BY <1>1, <1>3 DEF Paired, Fresh
<1>5. t >= Close - Horizon
  <2>1. Close \in Int /\ Horizon \in Int
    BY WindowAssumption DEF Close
  <2>2. QED
    BY <1>1, <2>1 DEF WindowInv
<1>6. CASE clock.runner = "frozen"
  <2> DEFINE c == Cutoff(b[1], b[2])
  <2>1. Closes(b[1], b[2], candles) = Required(c) /\ Close - c = Effective
    BY <1>6 DEF Closes, Accepts, FrozenAccepts
  <2>2. PICK d \in Int : c = d * Minute
    <3>1. Min({b[1], b[2]}) \in Int /\ Minute \in Nat \ {0}
      BY <1>1, <1>3, WindowAssumption
    <3>2. Min({b[1], b[2]}) \div Minute \in Int
      BY <3>1
    <3>3. QED
      BY <3>2 DEF Cutoff
  <2> HIDE DEF c
  <2>3. c = Close - Effective
    <3>1. Close \in Int /\ Effective \in Int /\ c \in Int
      BY <2>2, WindowAssumption DEF Close
    <3>2. QED
      BY <2>1, <3>1
  <2>4. QED
    BY <1>1, <1>2, <1>4, <1>5, <2>1, <2>2, <2>3, RequiredUnbroken DEF Registered
<1>7. CASE clock.runner # "frozen"
  <2>1. candles \in SUBSET Int
    BY WindowAssumption DEF Candles, Minutes
  <2>2. QED
    BY <1>1, <1>2, <1>4, <1>5, <1>7, <2>1, RunUnbroken DEF Closes
<1>8. QED
  BY <1>6, <1>7

LEMMA WindowInvInit == WindowInit => WindowInv
<1> SUFFICES ASSUME WindowInit PROVE WindowInv
  OBVIOUS
<1>1. Close \in Nat /\ Horizon \in Nat /\ Horizon <= Close
  BY WindowAssumption DEF Close
<1>2. QED
  BY <1>1 DEF WindowInit, WindowInv, WindowTypeOK, Nothing, Unbroken, Done

\* A step that reads no input keeps what was read.
LEMMA NothingRead ==
  ASSUME WindowInv, UNCHANGED clock,
         Tick \/ Claim \/ Choose \/ Pass \/ (at = "rechecking" /\ RecheckJev)
         \/ (at \in {"fetching", "rechecking"} /\ Enter("error") /\ UNCHANGED <<asked, basis, predicted>>)
  PROVE  WindowInv'
<1>1. Close \in Int /\ Horizon \in Int /\ Close >= 0
  BY WindowAssumption DEF Close
<1> USE DEF WindowInv, WindowTypeOK, Done, Enter
<1>2. CASE Tick
  BY <1>1, <1>2 DEF Tick
<1>3. CASE Claim
  BY <1>1, <1>3 DEF Claim
<1>4. CASE Choose
  BY <1>1, <1>4 DEF Choose
<1>5. CASE Pass
  BY <1>1, <1>5 DEF Pass
<1>6. CASE at = "rechecking" /\ RecheckJev
  BY <1>1, <1>6 DEF RecheckJev
<1>7. CASE at \in {"fetching", "rechecking"} /\ Enter("error") /\ UNCHANGED <<asked, basis, predicted>>
  BY <1>1, <1>7
<1>8. QED
  BY <1>2, <1>3, <1>4, <1>5, <1>6, <1>7

LEMMA PredictKeeps == ASSUME WindowInv, UNCHANGED clock, Predict PROVE WindowInv'
<1>1. CASE Enter("error") /\ UNCHANGED <<basis, predicted>>
  BY <1>1, NothingRead DEF Predict
<1>2. CASE /\ InWindow /\ Enter("predicted")
           /\ \E b \in Books, t \in Answered : \E candles \in Candles(t) :
                Accepts(b[1], b[2], candles) /\ Read(b[1], b[2], t, candles)
           /\ predicted' = basis'
  <2>1. PICK b \in Books, t \in Answered : \E candles \in Candles(t) :
          Accepts(b[1], b[2], candles) /\ Read(b[1], b[2], t, candles)
    BY <1>2
  <2>2. PICK candles \in Candles(t) : Accepts(b[1], b[2], candles) /\ Read(b[1], b[2], t, candles)
    BY <2>1
  <2>3. at # "idle" /\ at' = "predicted" /\ UNCHANGED <<now, asked>> /\ predicted' = basis'
    BY <1>2 DEF Predict, Enter
  <2>4. /\ basis'.read \in Int /\ asked <= basis'.read /\ basis'.read <= now
        /\ basis'.read >= Close - Horizon
        /\ Unbroken(basis'.closes)
        /\ clock.runner = "frozen" => basis'.closes = Registered
    BY <2>2, <2>3, InputsRead
  <2>5. QED
    BY <2>3, <2>4 DEF WindowInv, WindowTypeOK, Registered, Required, Unbroken, Close
<1>3. QED
  BY <1>1, <1>2 DEF Predict

LEMMA RecheckReads ==
  ASSUME WindowInv, UNCHANGED clock, RecheckFrozen
  PROVE  WindowInv' /\ (at' = "filled" => FreshAtFill)
<1>1. CASE Enter("error") /\ UNCHANGED <<basis, book>>
  BY <1>1, NothingRead DEF RecheckFrozen, Enter
<1>2. CASE /\ Remaining > clock.close_buffer /\ Enter("filled")
           /\ \E b \in Books, t \in Answered : \E candles \in Candles(t) :
                Accepts(b[1], b[2], candles) /\ Read(b[1], b[2], t, candles) /\ book' \in {b[1], b[2]}
  <2>1. PICK b \in Books, t \in Answered : \E candles \in Candles(t) :
          Accepts(b[1], b[2], candles) /\ Read(b[1], b[2], t, candles)
    BY <1>2
  <2>2. PICK candles \in Candles(t) : Accepts(b[1], b[2], candles) /\ Read(b[1], b[2], t, candles)
    BY <2>1
  <2>3. at = "rechecking" /\ at' = "filled" /\ UNCHANGED <<now, asked, predicted>>
    BY <1>2 DEF RecheckFrozen, Enter
  <2>4. /\ basis'.read \in Int /\ asked <= basis'.read /\ basis'.read <= now
        /\ basis'.read >= Close - Horizon /\ now - basis'.oldest <= BookAge
        /\ Unbroken(basis'.closes)
        /\ clock.runner = "frozen" => basis'.closes = Registered
    BY <2>2, <2>3, InputsRead
  <2>5. WindowInv'
    BY <2>3, <2>4 DEF WindowInv, WindowTypeOK, Registered, Required, Unbroken, Close, Done
  <2>6. FreshAtFill
    BY <2>4 DEF FreshAtFill, WindowInv
  <2>7. QED
    BY <2>5, <2>6
<1>3. QED
  BY <1>1, <1>2 DEF RecheckFrozen

LEMMA WindowKept ==
  ASSUME WindowInv, [WindowNext]_window_vars
  PROVE  /\ WindowInv'
         /\ [IF clock.runner = "frozen" THEN FreshAtFill ELSE InTimeAtFill]_window_vars
<1>1. CASE UNCHANGED window_vars
  BY <1>1 DEF window_vars, WindowInv, WindowTypeOK
<1>2. CASE WindowNext
  <2>1. CASE Tick \/ Claim \/ Choose \/ Pass
    <3>1. at' = "filled" => at = "filled"
      BY <2>1 DEF Tick, Claim, Choose, Pass, Enter
    <3>2. QED
      BY <1>2, <2>1, <3>1, NothingRead DEF WindowNext, FreshAtFill, InTimeAtFill
  <2>2. CASE Predict
    <3>1. at' # "filled"
      BY <2>2 DEF Predict, Enter
    <3>2. QED
      BY <1>2, <2>2, <3>1, PredictKeeps DEF WindowNext, FreshAtFill, InTimeAtFill
  <2>3. CASE RecheckFrozen
    <3>1. clock.runner = "frozen"
      BY <2>3 DEF RecheckFrozen
    <3>2. QED
      BY <1>2, <2>3, <3>1, RecheckReads DEF WindowNext, FreshAtFill
  <2>4. CASE RecheckJev
    <3>1. clock.runner = "jev" /\ at = "rechecking"
      BY <2>4 DEF RecheckJev
    <3>2. InTimeAtFill
      BY <2>4 DEF RecheckJev, InTimeAtFill, Enter, Fresh
    <3>3. QED
      BY <1>2, <2>4, <3>1, <3>2, NothingRead DEF WindowNext
  <2>5. QED
    BY <1>2, <2>1, <2>2, <2>3, <2>4 DEF WindowNext
<1>3. QED
  BY <1>1, <1>2

\* The candles of a registered decision were final when it was asked for.
LEMMA WindowSound ==
  ASSUME WindowInv
  PROVE  /\ WindowTypeOK /\ ClosesContiguous
         /\ clock.runner = "frozen" => ClosesFinal /\ SameCandles
<1>1. WindowTypeOK /\ ClosesContiguous
  BY DEF WindowInv, Unbroken, ClosesContiguous
<1>2. ASSUME clock.runner = "frozen" PROVE SameCandles
  BY <1>2 DEF WindowInv, SameCandles
<1>3. ASSUME clock.runner = "frozen", NEW m \in basis.closes
      PROVE  m + Minute + Publication <= basis.read
  <2>1. m \in Registered /\ basis.read >= Close - Horizon /\ basis.read \in Int
    BY <1>3 DEF WindowInv
  <2>2. PICK k \in 1 .. Lookback : m = (Close - Effective) - k * Minute
    BY <2>1 DEF Registered, Required
  <2>3. /\ Minute \in Nat \ {0} /\ Close \in Int /\ Effective \in Nat /\ Publication \in Nat
        /\ Horizon \in Nat /\ Horizon + Publication <= Effective /\ k \in Nat \ {0}
    BY WindowAssumption DEF Close
  <2> DEFINE back == k * Minute
  <2>4. back \in Int /\ Minute <= back
    BY <2>3
  <2>5. m = Close - Effective - back
    BY <2>2
  <2> HIDE DEF back
  <2>6. QED
    BY <2>1, <2>3, <2>4, <2>5
<1>4. QED
  BY <1>1, <1>2, <1>3 DEF ClosesFinal

\* For every policy, latency and drift of the stamps: a prediction rests on final closes in
\* one unbroken run, and a fill on inputs of the same candles that were read after the
\* latency, before the end of the market (observe_once, recheck_fill, observe_and_trade).
THEOREM InputsAlwaysFresh == WindowSpec => InputsFresh
<1>1. WindowInv /\ [WindowNext]_window_vars => WindowInv'
  BY WindowKept
<1>2. WindowInv /\ [WindowNext]_window_vars =>
        [IF clock.runner = "frozen" THEN FreshAtFill ELSE InTimeAtFill]_window_vars
  BY WindowKept
<1>3. WindowInv => /\ WindowTypeOK /\ ClosesContiguous
                   /\ clock.runner = "frozen" => ClosesFinal /\ SameCandles
  BY WindowSound
<1>4. QED
  BY WindowInvInit, <1>1, <1>2, <1>3, PTL DEF WindowSpec, InputsFresh

(***************************************************************************)
(* The bets.                                                               *)
(***************************************************************************)
\* The prices a bet is made at, in twentieths, and the cost of a share with its fee.
Entries == 1 .. 19
ShareUnits == 1 .. 3819

\* A share costs something and, with its fee, less than the dollar it may pay.
LEMMA UnitBounds ==
  ASSUME NEW e \in Entries
  PROVE  Unit(e) \in ShareUnits
<1> USE DEF Entries
<1>1. Unit(e) = e * (220 - e)
  BY DEF Unit, Fee
<1>2. (19 - e) * (201 - e) >= 0
  OBVIOUS
<1>3. (19 - e) * (201 - e) = 3819 - e * (220 - e)
  OBVIOUS
<1>4. e * (220 - e) >= 1
  OBVIOUS
<1>5. QED
  BY <1>1, <1>2, <1>3, <1>4 DEF ShareUnits

\* The whole tenths of a share a stake buys, within the visible depth.
LEMMA QuantityBounds ==
  ASSUME NEW money \in Nat, NEW u \in ShareUnits, NEW shown \in Nat
  PROVE  LET q == Quantity(money, u, shown) IN
         /\ q \in Nat /\ q * u <= money /\ q <= Visible(shown)
         /\ q = Visible(shown) \/ q * u + u > money
<1> DEFINE d == money \div u
           v == Visible(shown)
           q == Quantity(money, u, shown)
<1>1. d \in Nat /\ d * u <= money /\ money < d * u + u
  BY DivBounds DEF ShareUnits
<1>2. v \in Nat
  BY DEF Visible
<1>3. q \in {d, v} /\ q <= d /\ q <= v
  BY <1>1, <1>2, LeastNatural DEF Quantity
<1> HIDE DEF d, v, q
<1>4. q * u <= d * u
  BY <1>1, <1>2, <1>3 DEF ShareUnits
<1>5. q \in Nat /\ q * u <= money /\ q <= v /\ (q = v \/ q * u + u > money)
  <2> DEFINE least == q * u
             most == d * u
  <2>1. q \in Nat /\ least \in Nat /\ most \in Nat
    BY <1>1, <1>2, <1>3 DEF ShareUnits
  <2>2. least <= money
    <3>1. least <= most /\ most <= money
      BY <1>1, <1>4
    <3> HIDE DEF least, most
    <3>2. QED
      BY <2>1, <3>1
  <2>3. q = v \/ q * u + u > money
    BY <1>1, <1>3 DEF ShareUnits
  <2>4. QED
    BY <1>3, <2>1, <2>2, <2>3
<1>6. QED
  BY <1>5 DEF v, q

\* The side that is taken is one of those offered: a tie has one winner.
LEMMA BestOffered ==
  ASSUME BetAssumption, NEW quoted \in [Sides -> Asks], NEW chance \in Probabilities, Offers(quoted, chance) # {}
  PROVE  /\ Best(quoted, chance) \in Sides /\ Entry(quoted[Best(quoted, chance)]) \in Entries
         /\ Edge(chance, Best(quoted, chance), Entry(quoted[Best(quoted, chance)])) >= MinEdge * 200
<1> DEFINE E(s) == Edge(chance, s, Entry(quoted[s]))
           Wins(s, o) == \/ E(s) > E(o)
                         \/ E(s) = E(o) /\ s = (IF terms.runner = "frozen" THEN "DOWN" ELSE "UP")
<1>1. ASSUME NEW s \in Sides
      PROVE  quoted[s] \in Nat \ {0} /\ Entry(quoted[s]) \in Nat \ {0} /\ E(s) \in Int
  <2>1. quoted[s] \in Nat \ {0} /\ Slippage \in Nat /\ chance \in 0 .. 20
    BY DEF BetAssumption
  <2>2. Entry(quoted[s]) \in Nat \ {0}
    BY <2>1 DEF Entry
  <2>3. Unit(Entry(quoted[s])) \in Int /\ Chance(chance, s) \in Int
    BY <2>1, <2>2 DEF Unit, Fee, Chance
  <2>4. QED
    BY <2>1, <2>2, <2>3 DEF Edge
<1>2. \E s \in Offers(quoted, chance) : \A o \in Offers(quoted, chance) \ {s} : Wins(s, o)
  <2> HIDE DEF E
  <2>1. Offers(quoted, chance) \subseteq {"UP", "DOWN"} /\ E("UP") \in Int /\ E("DOWN") \in Int
    BY <1>1 DEF Offers, Sides
  <2>2. E("UP") > E("DOWN") \/ E("UP") < E("DOWN") \/ E("UP") = E("DOWN")
    BY <2>1
  <2>3. QED
    BY <2>1, <2>2
<1>3. Best(quoted, chance) \in Offers(quoted, chance)
  BY <1>2 DEF Best
<1>4. QED
  BY <1>1, <1>3 DEF Offers, Tradable, Entries

\* What JEV stakes is there, and a quarter of Kelly's at most where the policy says so.
LEMMA StakeBounds ==
  ASSUME BetAssumption, cash \in Nat, NEW gain \in Nat, NEW u \in ShareUnits
  PROVE  /\ Staked(gain, u) \in Nat /\ Staked(gain, u) <= cash
         /\ terms.sizing # "fixed" => Staked(gain, u) * (4 * (UnitDollar - u)) <= cash * gain
<1> DEFINE k == 4 * (UnitDollar - u)
           x == (cash * gain) \div k
           c == (x \div Cent) * Cent
<1>1. k \in Nat \ {0} /\ cash * gain \in Nat /\ MaxStake * Dollar \in Nat
  BY DEF ShareUnits, UnitDollar, BetAssumption, Dollar
<1>2. x \in Nat /\ x * k <= cash * gain
  <2> HIDE DEF k
  <2>1. QED
    BY <1>1, DivBounds
<1>3. c \in Nat /\ c <= x
  <2> HIDE DEF x
  <2>1. QED
    BY <1>2, DivBounds DEF Cent
<1> HIDE DEF x, c
<1>4. CASE terms.sizing = "fixed"
  BY <1>1, <1>4, LeastNatural DEF Staked
<1>5. CASE terms.sizing # "fixed"
  <2>1. Staked(gain, u) = Min({MaxStake * Dollar, c, cash})
    BY <1>5 DEF Staked, c, x
  <2>2. Staked(gain, u) \in Nat /\ Staked(gain, u) <= c /\ Staked(gain, u) <= cash
    BY <1>1, <1>3, <2>1, LeastOfThree
  <2> HIDE DEF k
  <2>3. Staked(gain, u) <= x
    BY <1>2, <1>3, <2>2
  <2>4. Staked(gain, u) * k <= x * k
    BY <1>1, <1>2, <2>2, <2>3
  <2>5. Staked(gain, u) * k <= cash * gain
    BY <1>1, <1>2, <2>2, <2>4
  <2>6. QED
    BY <2>2, <2>5 DEF k
<1>6. QED
  BY <1>4, <1>5

\* What is decided fits what is there, and what is pending is what the property says.
Decided ==
  stage = "decided" =>
    /\ bet.side \in Sides /\ bet.limit \in Entries
    /\ terms.runner = "jev" =>
         /\ bet.p \in 0 .. 20 /\ bet.quantity \in Nat /\ bet.cost \in Nat /\ bet.cost <= cash
         /\ Edge(bet.p, bet.side, bet.limit) >= MinEdge * 200
         /\ terms.sizing # "fixed" =>
              bet.cost * (4 * (UnitDollar - Unit(bet.limit))) <= cash * Edge(bet.p, bet.side, bet.limit)

Covered(f) ==
  /\ f.quantity \in Nat /\ f.quantity <= f.visible /\ f.entry >= f.ask
  /\ f.entry \in Entries /\ f.cost \in Nat /\ f.chance * 200 - Unit(f.entry) >= MinEdge * 200
  /\ terms.runner = "frozen" => f.quantity = f.visible \/ f.cost + Unit(f.entry) > MaxStake * Dollar
  /\ terms.runner = "jev" /\ terms.sizing # "fixed" =>
       f.cost * (4 * (UnitDollar - Unit(f.entry))) <= f.before * (f.chance * 200 - Unit(f.entry))

BetInv ==
  /\ terms \in Terms /\ cash \in Nat /\ stage \in {"idle", "decided"}
  /\ Decided /\ \A f \in pending : Covered(f)

LEMMA BetInvInit == BetInit => BetInv
<1> SUFFICES ASSUME BetInit PROVE BetInv
  OBVIOUS
<1>1. terms.capital \in Nat
  BY BetAssumption DEF BetAssumption, BetInit
<1>2. QED
  BY <1>1 DEF BetInit, BetInv, Decided, Dollar

\* A fill that is kept.
LEMMA KeepKeeps ==
  ASSUME BetInv, UNCHANGED terms, stage' = "idle",
         NEW side, NEW ask, NEW size, NEW p, NEW entry, NEW quantity, NEW cost,
         Keep(side, ask, size, p, entry, quantity, cost),
         quantity \in Nat, quantity <= Visible(size), entry >= ask, entry \in Entries,
         cost \in Nat, cost <= cash, Edge(p, side, entry) >= MinEdge * 200,
         terms.runner = "frozen" => quantity = Visible(size) \/ cost + Unit(entry) > MaxStake * Dollar,
         terms.runner = "jev" /\ terms.sizing # "fixed" =>
           cost * (4 * (UnitDollar - Unit(entry))) <= cash * Edge(p, side, entry)
  PROVE  BetInv'
<1>1. ASSUME NEW f \in pending' PROVE Covered(f)'
  <2>1. CASE f \in pending
    BY <2>1 DEF BetInv, Covered
  <2>2. CASE f \notin pending
    <3>1. /\ f.quantity = quantity /\ f.visible = Visible(size) /\ f.entry = entry /\ f.ask = ask
          /\ f.cost = cost /\ f.chance = Chance(p, side) /\ f.before = cash
      BY <2>2 DEF Keep
    <3>2. QED
      BY <3>1 DEF Covered, Edge
  <2>3. QED
    BY <2>1, <2>2
<1>2. cash' \in Nat
  BY DEF Keep, BetInv
<1>3. QED
  BY <1>1, <1>2 DEF BetInv, Decided

LEMMA NothingKept == ASSUME BetInv, UNCHANGED terms, stage' = "idle", NoFill PROVE BetInv'
BY DEF BetInv, Decided, NoFill, Covered

LEMMA DecideFrozenKeeps ==
  ASSUME BetInv, UNCHANGED terms, NEW asks \in [Sides -> Asks], NEW p \in Probabilities,
         DecideFrozen(asks, p)
  PROVE  BetInv'
<1>1. CASE Offers(asks, p) = {}
  BY <1>1 DEF BetInv, Decided, Covered, DecideFrozen
<1>2. CASE Offers(asks, p) # {}
  <2>1. Best(asks, p) \in Sides /\ Entry(asks[Best(asks, p)]) \in Entries
    BY <1>2, BestOffered, BetAssumption
  <2>2. /\ bet' = [side |-> Best(asks, p), limit |-> Entry(asks[Best(asks, p)])] /\ stage' = "decided"
        /\ terms.runner = "frozen" /\ UNCHANGED <<cash, pending>>
    BY <1>2 DEF DecideFrozen
  <2>3. QED
    BY <2>1, <2>2 DEF BetInv, Decided, Covered
<1>3. QED
  BY <1>1, <1>2

LEMMA RecheckKeeps ==
  ASSUME BetInv, UNCHANGED terms, NEW ask \in Asks, NEW size \in Sizes, NEW p \in Probabilities,
         recheck_fill(ask, size, p)
  PROVE  BetInv'
<1> DEFINE entry == Entry(ask)
           unit == Unit(entry)
           quantity == Quantity(MaxStake * Dollar, unit, size)
           Fills == /\ entry <= bet.limit /\ Tradable(entry) /\ Edge(p, bet.side, entry) >= MinEdge * 200
                    /\ cash >= MaxStake * Dollar /\ quantity >= Minimum * 10
<1> HIDE DEF entry, unit, quantity
<1>1. terms.runner = "frozen" /\ stage' = "idle"
  BY DEF recheck_fill
<1>2. CASE Fills
  <2>1. Keep(bet.side, ask, size, p, entry, quantity, quantity * unit)
    BY <1>2 DEF recheck_fill, entry, unit, quantity
  <2>2. ask \in Nat \ {0} /\ size \in Nat /\ Slippage \in Nat /\ MaxStake * Dollar \in Nat
    BY BetAssumption DEF BetAssumption, Dollar
  <2>3. entry \in Entries /\ entry >= ask
    BY <1>2, <2>2 DEF Entry, Tradable, entry, Entries
  <2>4. unit \in ShareUnits
    BY <2>3, UnitBounds DEF unit
  <2>5. /\ quantity \in Nat /\ quantity * unit <= MaxStake * Dollar /\ quantity <= Visible(size)
        /\ quantity = Visible(size) \/ quantity * unit + unit > MaxStake * Dollar
    BY <2>2, <2>4, QuantityBounds DEF quantity
  <2>6. quantity * unit \in Nat /\ quantity * unit <= cash
    <3> DEFINE cost == quantity * unit
    <3>1. cost \in Nat /\ cost <= MaxStake * Dollar
      BY <2>4, <2>5 DEF ShareUnits
    <3> HIDE DEF cost
    <3>2. cost \in Nat /\ cost <= cash
      BY <1>2, <2>2, <3>1 DEF BetInv
    <3>3. QED
      BY <3>2 DEF cost
  <2>7. QED
    BY <1>1, <1>2, <2>1, <2>3, <2>5, <2>6, KeepKeeps DEF unit
<1>3. CASE ~Fills
  BY <1>1, <1>3, NothingKept DEF recheck_fill, entry, unit, quantity
<1>4. QED
  BY <1>2, <1>3

LEMMA DecideKeeps ==
  ASSUME BetInv, UNCHANGED terms, NEW asks \in [Sides -> Asks], NEW sizes \in [Sides -> Sizes],
         NEW p \in Probabilities, decide(asks, sizes, p)
  PROVE  BetInv'
<1> DEFINE side == Best(asks, p)
           entry == Entry(asks[side])
           unit == Unit(entry)
           edge == Edge(p, side, entry)
           stake == Staked(edge, unit)
           quantity == Quantity(stake, unit, sizes[side])
           cost == ((quantity * unit) \div CostQuantum) * CostQuantum
<1> HIDE DEF side, entry, unit, edge, stake, quantity, cost
<1>1. CASE UNCHANGED <<stage, bet>>
  BY <1>1 DEF BetInv, Decided, Covered, decide
<1>2. CASE ~UNCHANGED <<stage, bet>>
  <2>1. /\ Offers(asks, p) # {} /\ stage' = "decided" /\ terms.runner = "jev"
        /\ bet' = [side |-> side, limit |-> entry, p |-> p, quantity |-> quantity, cost |-> cost]
        /\ UNCHANGED <<cash, pending>>
    BY <1>2 DEF decide, side, entry, unit, edge, stake, quantity, cost
  <2>2. side \in Sides /\ entry \in Entries /\ edge >= MinEdge * 200 /\ p \in 0 .. 20 /\ MinEdge \in Nat
    BY <2>1, BestOffered, BetAssumption DEF BetAssumption, side, entry, edge
  <2>3. unit \in ShareUnits
    BY <2>2, UnitBounds DEF unit
  <2>4. edge \in Nat
    <3>1. edge = Chance(p, side) * 200 - unit
      BY DEF Edge, edge, unit
    <3>2. Chance(p, side) \in Int
      BY <2>2 DEF Chance
    <3>3. edge \in Int
      BY <2>3, <3>1, <3>2 DEF ShareUnits
    <3>4. QED
      BY <2>2, <3>3
  <2>5. /\ stake \in Nat /\ stake <= cash
        /\ terms.sizing # "fixed" => stake * (4 * (UnitDollar - unit)) <= cash * edge
    BY <2>3, <2>4, StakeBounds, BetAssumption DEF BetInv, stake
  <2>6. sizes[side] \in Nat
    BY <2>2, BetAssumption DEF BetAssumption
  <2>7. quantity \in Nat /\ quantity * unit <= stake
    BY <2>3, <2>5, <2>6, QuantityBounds DEF quantity
  <2>8. quantity * unit \in Nat
    BY <2>3, <2>7 DEF ShareUnits
  <2>9. cost \in Nat /\ cost <= stake
    <3> DEFINE price == quantity * unit
    <3>1. price \in Nat /\ price <= stake /\ cost = (price \div CostQuantum) * CostQuantum
      BY <2>7, <2>8 DEF cost
    <3> HIDE DEF price
    <3>2. QED
      BY <2>5, <3>1, DivBounds DEF CostQuantum
  <2>10. cost <= cash
    BY <2>5, <2>9 DEF BetInv
  <2>11. terms.sizing # "fixed" => cost * (4 * (UnitDollar - unit)) <= cash * edge
    <3> DEFINE k == 4 * (UnitDollar - unit)
    <3> SUFFICES ASSUME terms.sizing # "fixed" PROVE cost * k <= cash * edge
      OBVIOUS
    <3>1. k \in Nat
      BY <2>3 DEF UnitDollar, ShareUnits
    <3>2. stake * k <= cash * edge
      BY <2>5
    <3> HIDE DEF k
    <3>3. cost * k <= stake * k
      BY <2>5, <2>9, <3>1
    <3>4. QED
      BY <2>4, <2>5, <2>9, <3>1, <3>2, <3>3 DEF BetInv
  <2>12. Decided'
    <3>1. /\ bet'.side = side /\ bet'.limit = entry /\ bet'.p = p /\ bet'.quantity = quantity
          /\ bet'.cost = cost
      BY <2>1
    <3>2. Unit(bet'.limit) = unit /\ Edge(bet'.p, bet'.side, bet'.limit) = edge
      BY <3>1 DEF unit, edge
    <3>3. QED
      BY <2>1, <2>2, <2>7, <2>9, <2>10, <2>11, <3>1, <3>2 DEF Decided
  <2>13. QED
    BY <2>1, <2>12 DEF BetInv, Covered
<1>3. QED
  BY <1>1, <1>2

LEMMA FreshBookKeeps ==
  ASSUME BetInv, UNCHANGED terms, NEW ask \in Asks, NEW size \in Sizes, FreshBook(ask, size)
  PROVE  BetInv'
<1>1. terms.runner = "jev" /\ stage = "decided" /\ stage' = "idle"
  BY DEF FreshBook
<1>2. CASE ask <= bet.limit /\ bet.quantity >= Minimum * 10 /\ bet.quantity <= Visible(size)
  <2>1. Keep(bet.side, ask, size, bet.p, bet.limit, bet.quantity, bet.cost)
    BY <1>2 DEF FreshBook
  <2>2. ask \in Nat
    BY BetAssumption DEF BetAssumption
  <2>3. bet.limit >= ask
    BY <1>1, <1>2, <2>2 DEF BetInv, Decided, Entries
  <2>4. QED
    BY <1>1, <1>2, <2>1, <2>3, KeepKeeps DEF BetInv, Decided
<1>3. CASE ~(ask <= bet.limit /\ bet.quantity >= Minimum * 10 /\ bet.quantity <= Visible(size))
  BY <1>1, <1>3, NothingKept DEF FreshBook
<1>4. QED
  BY <1>2, <1>3

LEMMA BetKept == BetInv /\ [BetNext]_bet_vars => BetInv'
<1> SUFFICES ASSUME BetInv, [BetNext]_bet_vars PROVE BetInv'
  OBVIOUS
<1>1. ASSUME NEW asks \in [Sides -> Asks], NEW p \in Probabilities, UNCHANGED terms,
             DecideFrozen(asks, p) \/ \E sizes \in [Sides -> Sizes] : decide(asks, sizes, p)
      PROVE  BetInv'
  BY <1>1, DecideFrozenKeeps, DecideKeeps
<1>2. ASSUME NEW ask \in Asks, NEW size \in Sizes, UNCHANGED terms,
             FreshBook(ask, size) \/ \E p \in Probabilities : recheck_fill(ask, size, p)
      PROVE  BetInv'
  BY <1>2, FreshBookKeeps, RecheckKeeps
<1>3. ASSUME NEW f \in pending, NEW payout \in SharePayouts, UNCHANGED terms, Settle(f, payout)
      PROVE  BetInv'
  <2>1. f.quantity * payout \in Nat
    <3>1. payout \in Nat
      BY DEF SharePayouts, Dollar
    <3>2. f.quantity \in Nat
      BY <1>3 DEF BetInv, Covered, Settle
    <3>3. QED
      BY <3>1, <3>2
  <2>2. QED
    BY <1>3, <2>1 DEF BetInv, Covered, Decided, Settle
<1>4. CASE UNCHANGED bet_vars
  BY <1>4 DEF bet_vars, BetInv, Decided, Covered
<1>5. QED
  BY <1>1, <1>2, <1>3, <1>4 DEF BetNext

LEMMA BetsAreCovered == BetInv => BetsCovered
<1> SUFFICES ASSUME BetInv PROVE BetsCovered
  OBVIOUS
<1>1. NeverOverdrawn /\ WithinDepth
  BY DEF BetInv, Covered, NeverOverdrawn, WithinDepth
<1>2. WorthItsCost
  BY DEF BetInv, Covered, WorthItsCost, Unit, Fee
<1>3. terms.runner = "frozen" => RegisteredBet
  BY DEF BetInv, Covered, RegisteredBet, Unit, Fee
<1>4. ASSUME terms.runner = "jev", terms.sizing = "fractional_kelly" PROVE WithinKelly
  <2> SUFFICES ASSUME NEW f \in pending
               PROVE  f.cost * 4 * (UnitDollar - Unit(f.entry)) <= f.before * (f.chance * 200 - Unit(f.entry))
    BY DEF WithinKelly, Unit, Fee
  <2>1. f.cost \in Nat /\ UnitDollar - Unit(f.entry) \in Int
    <3>1. f.cost \in Nat /\ f.entry \in Entries
      BY DEF BetInv, Covered
    <3>2. Unit(f.entry) \in ShareUnits
      BY <3>1, UnitBounds
    <3> DEFINE u == Unit(f.entry)
    <3> HIDE DEF u
    <3>3. u \in ShareUnits
      BY <3>2 DEF u
    <3>4. UnitDollar - u \in Int
      BY <3>3 DEF UnitDollar, ShareUnits
    <3>5. QED
      BY <3>1, <3>4 DEF u
  <2>2. f.cost * 4 * (UnitDollar - Unit(f.entry)) = f.cost * (4 * (UnitDollar - Unit(f.entry)))
    BY <2>1
  <2>3. QED
    BY <1>4, <2>2 DEF BetInv, Covered
<1>5. QED
  BY <1>1, <1>2, <1>3, <1>4 DEF BetsCovered

\* For every policy, book, probability and number of markets: a fill is paid from cash that
\* is there and taken from shares that are offered, for less than it is worth; the
\* challenger's is the registered bet whole, JEV's within a quarter of Kelly's formula
\* (recheck_fill, decide, observe_and_trade).
THEOREM BetsAlwaysCovered == BetSpec => []BetsCovered
BY BetInvInit, BetKept, BetsAreCovered, PTL DEF BetSpec

(***************************************************************************)
(* The history of a market.                                                *)
(***************************************************************************)

\* The decisions of a market, the earliest and the latest of them.
LEMMA DecisionTimes ==
  ASSUME NEW h \in Horizons
  PROVE  /\ Decision(h) \in Nat /\ earliest_decision \in Int /\ latest_decision \in Int
         /\ earliest_decision <= Decision(h) /\ Decision(h) <= latest_decision
<1>1. /\ Horizons \in SUBSET Nat /\ Horizons # {} /\ \A x \in Horizons : x <= Length
      /\ Epoch \in Nat /\ Length \in Nat
  BY HistoryAssumption
<1>2. \E x \in Horizons : \A y \in Horizons : x <= y
  BY <1>1, LeastNumber
<1>3. \E x \in Horizons : \A y \in Horizons : x >= y
  <2>1. \E x \in Horizons : \A y \in Horizons : y <= x
    BY <1>1, GreatestNumber
  <2>2. QED
    BY <1>1, <2>1
<1>4. Min(Horizons) \in Horizons /\ Min(Horizons) <= h
  BY <1>2 DEF Min
<1>5. Max(Horizons) \in Horizons /\ Max(Horizons) >= h
  BY <1>3 DEF Max
<1>6. QED
  <2> DEFINE low == Min(Horizons)
             high == Max(Horizons)
  <2> HIDE DEF low, high
  <2>1. low \in Nat /\ high \in Nat /\ h \in Nat /\ low <= h /\ h <= high /\ high <= Length
    BY <1>1, <1>4, <1>5 DEF low, high
  <2>2. earliest_decision = Epoch + Length - high /\ latest_decision = Epoch + Length - low
    BY DEF earliest_decision, latest_decision, Decision, low, high
  <2>3. Decision(h) = Epoch + Length - h
    BY DEF Decision
  <2>4. QED
    BY <1>1, <2>1, <2>2, <2>3

LEMMA PointShape ==
  ASSUME NEW p \in Points
  PROVE  p.token \in Tokens /\ p.time \in 1 .. LastTime /\ p.time \in Nat /\ p.resolution \in Nat
BY HistoryAssumption DEF Points, Times

\* A price that is found was known at the decision, is fresh, and the newest.
LEMMA PriceKnown ==
  ASSUME NEW points \in SUBSET Points, NEW decision \in Nat,
         _latest_price(points, decision) # None
  PROVE  LET p == _latest_price(points, decision) IN
         p \in points /\ p.time + p.resolution <= decision /\ decision - p.time <= MaxAge
<1> DEFINE E == Eligible(points, decision)
           p == _latest_price(points, decision)
<1>1. E \subseteq points /\ \A q \in E : q.time + q.resolution <= decision
  BY DEF Eligible
<1>2. PICK f \in E : decision - f.time <= MaxAge
  BY DEF _latest_price
<1>3. p = CHOOSE q \in E : \A r \in E : r.time <= q.time
  BY <1>2 DEF _latest_price
<1> HIDE DEF E, p
<1>4. \A q \in E : q.time \in Nat /\ q.time <= LastTime
  BY <1>1, PointShape, HistoryAssumption
<1>5. \E q \in E : \A r \in E : r.time <= q.time
  <2> DEFINE T == {q.time : q \in E}
  <2>1. T \in SUBSET Nat /\ T # {} /\ LastTime \in Nat /\ \A t \in T : t <= LastTime
    BY <1>2, <1>4, HistoryAssumption
  <2>2. PICK t \in T : \A s \in T : s <= t
    BY <2>1, GreatestNumber
  <2>3. QED
    BY <2>2
<1>6. p \in E /\ \A r \in E : r.time <= p.time
  BY <1>3, <1>5
<1>7. f.time <= p.time
  BY <1>2, <1>6
<1>8. decision - p.time <= MaxAge
  BY <1>2, <1>4, <1>6, <1>7, HistoryAssumption
<1>9. QED
  BY <1>1, <1>6, <1>8 DEF p

\* A row that is built knows nothing later than its decision, and two fresh prices.
LEMMA RowSound ==
  ASSUME record.points \in SUBSET Points, NEW h \in Horizons, NEW row, row = Row(h), row # None
  PROVE  /\ row.horizon = h
         /\ \A p \in {row.up, row.down} :
              /\ p.time + p.resolution <= Decision(h) /\ Decision(h) - p.time <= MaxAge
              /\ p.time >= row.spot
         /\ \A t \in row.closes : t + Bar <= Decision(h)
         /\ row.spot <= Decision(h) /\ row.effective >= h /\ row.spot >= Epoch
<1> DEFINE point(k) == _latest_price(OfToken(record.points, k), Decision(h))
           u == point("up")
           d == point("down")
           least == Min({u.time, d.time})
           feature == (least \div Bar) * Bar
           used == {feature - i * Bar : i \in 1 .. Warmup}
           effective == Epoch + Length - feature
<1>1. /\ point("up") # None /\ point("down") # None /\ 0 < effective /\ effective <= Length
      /\ row = [horizon |-> h, up |-> u, down |-> d, spot |-> feature, closes |-> used,
                effective |-> effective]
  BY DEF Row, Tokens
<1>2. Decision(h) \in Nat
  BY DecisionTimes
<1>3. \A k \in Tokens : OfToken(record.points, k) \in SUBSET Points
  BY DEF OfToken
<1>4. /\ u \in Points /\ u.time + u.resolution <= Decision(h) /\ Decision(h) - u.time <= MaxAge
      /\ d \in Points /\ d.time + d.resolution <= Decision(h) /\ Decision(h) - d.time <= MaxAge
  <2>1. "up" \in Tokens /\ "down" \in Tokens
    BY DEF Tokens
  <2>2. QED
    BY <1>1, <1>2, <1>3, <2>1, PriceKnown
<1> HIDE DEF point, u, d
<1>5. u.time \in Nat /\ u.resolution \in Nat /\ d.time \in Nat /\ d.resolution \in Nat
  BY <1>4, PointShape
<1>6. least \in Nat /\ least <= u.time /\ least <= d.time
  BY <1>5, LeastNatural
<1> HIDE DEF least
<1>7. Bar \in Nat \ {0} /\ Epoch \in Nat /\ Length \in Nat /\ h \in Nat /\ Warmup \in Nat
  BY HistoryAssumption
<1>8. feature \in Nat /\ feature <= least
  BY <1>6, <1>7
<1> HIDE DEF feature
<1>9. feature <= Decision(h) /\ feature <= u.time /\ feature <= d.time
  BY <1>2, <1>4, <1>5, <1>6, <1>8
<1>10. ASSUME NEW t \in used PROVE t + Bar <= Decision(h)
  <2>1. PICK i \in 1 .. Warmup : t = feature - i * Bar
    OBVIOUS
  <2> DEFINE back == i * Bar
  <2>2. back \in Int /\ Bar <= back
    BY <1>7
  <2>3. t = feature - back
    BY <2>1
  <2> HIDE DEF back
  <2>4. QED
    BY <1>2, <1>7, <1>8, <1>9, <2>2, <2>3
<1>11. effective >= h
  BY <1>7, <1>8, <1>9 DEF Decision
<1>12. feature >= Epoch
  BY <1>1, <1>7, <1>8
<1> HIDE DEF used, effective
<1>13. /\ row.horizon = h /\ row.up = u /\ row.down = d /\ row.spot = feature /\ row.closes = used
       /\ row.effective = effective
  BY <1>1
<1>14. QED
  BY <1>4, <1>9, <1>10, <1>11, <1>12, <1>13

----------------------------------------------------------------------------
HistoryInv ==
  /\ trades \subseteq {p \in Points : p.resolution = 0}
  /\ batch # None => batch \subseteq Points
  /\ taken \subseteq trades /\ \A p \in taken, q \in trades \ taken : q.time <= p.time
  /\ record # None => record.points \subseteq Points
  /\ NoLookAhead

LEMMA SameChoice ==
  ASSUME NEW S, NEW T,
         \A p : (p \in S /\ \A q \in S : q.time <= p.time) <=> (p \in T /\ \A q \in T : q.time <= p.time)
  PROVE  (CHOOSE p \in S : \A q \in S : q.time <= p.time) = (CHOOSE p \in T : \A q \in T : q.time <= p.time)
OBVIOUS

\* The newest trades hold the newest known price, as soon as they hold one old enough.
LEMMA PagesSuffice ==
  ASSUME trades \subseteq {p \in Points : p.resolution = 0},
         NEW T \in SUBSET trades, \A p \in T, q \in trades \ T : q.time <= p.time,
         NEW k \in Tokens, NEW h \in Horizons,
         T = trades \/ \E p \in OfToken(Early(T), k) : p.time <= earliest_decision
  PROVE  _latest_price(OfToken(Early(T), k), Decision(h)) = _latest_price(OfToken(trades, k), Decision(h))
<1> DEFINE some == Eligible(OfToken(Early(T), k), Decision(h))
           all == Eligible(OfToken(trades, k), Decision(h))
<1>1. /\ Decision(h) \in Nat /\ earliest_decision \in Int /\ latest_decision \in Int
      /\ earliest_decision <= Decision(h) /\ Decision(h) <= latest_decision
  BY DecisionTimes
<1>2. \A p \in trades : p.time \in Nat /\ p.resolution = 0 /\ p.token \in Tokens /\ p \in Points
  BY PointShape
<1>3. all = {p \in trades : p.token = k /\ p.time <= Decision(h)}
  BY <1>1, <1>2 DEF Eligible, OfToken
<1>4. some = {p \in T : p.token = k /\ p.time <= Decision(h)}
  BY <1>1, <1>2 DEF Eligible, OfToken, Early
<1>5. T = trades \/ \E p \in some : TRUE
  <2>1. ASSUME NEW p \in OfToken(Early(T), k), p.time <= earliest_decision PROVE p \in some
    BY <1>1, <1>2, <1>4, <2>1 DEF OfToken, Early
  <2>2. QED
    BY <2>1
<1> HIDE DEF some, all
<1>6. CASE T = trades
  BY <1>3, <1>4, <1>6 DEF _latest_price, some, all
<1>7. CASE \E p \in some : TRUE
  <2>1. PICK first \in some : TRUE
    BY <1>7
  <2>2. some \subseteq all /\ \A p \in some, q \in all \ some : q.time <= p.time
    BY <1>3, <1>4
\* Two trades of one token at one instant are one.
  <2>3. \A p \in some, q \in all : p.time = q.time => p = q
    BY <1>2, <1>3, <1>4 DEF Points
  <2>4. \A p : (p \in some /\ \A q \in some : q.time <= p.time) <=> (p \in all /\ \A q \in all : q.time <= p.time)
    <3>1. ASSUME NEW p \in some, \A q \in some : q.time <= p.time
          PROVE  p \in all /\ \A q \in all : q.time <= p.time
      BY <2>2, <3>1
    <3>2. ASSUME NEW p \in all, \A q \in all : q.time <= p.time
          PROVE  p \in some /\ \A q \in some : q.time <= p.time
      <4>1. CASE p \in some
        BY <2>2, <3>2, <4>1
      <4>2. CASE p \notin some
        <5>1. p.time <= first.time /\ first.time <= p.time
          BY <2>1, <2>2, <3>2, <4>2
        <5>2. p.time \in Nat /\ first.time \in Nat
          BY <1>2, <1>3, <1>4, <2>1
        <5>3. first = p
          BY <2>1, <2>3, <5>1, <5>2
        <5>4. QED
          BY <2>1, <4>2, <5>3
      <4>3. QED
        BY <4>1, <4>2
    <3>3. QED
      BY <3>1, <3>2
  <2> DEFINE newest == CHOOSE p \in some : \A q \in some : q.time <= p.time
             latest == CHOOSE p \in all : \A q \in all : q.time <= p.time
  <2>5. newest = latest
    BY <2>4, SameChoice
  <2>6. (\E p \in some : Decision(h) - p.time <= MaxAge) <=> (\E p \in all : Decision(h) - p.time <= MaxAge)
    <3>1. ASSUME NEW q \in all, Decision(h) - q.time <= MaxAge
          PROVE  \E p \in some : Decision(h) - p.time <= MaxAge
      <4>1. CASE q \in some
        BY <3>1, <4>1
      <4>2. CASE q \notin some
        <5>1. q.time <= first.time /\ q.time \in Nat /\ first.time \in Nat
          BY <1>2, <1>3, <1>4, <2>1, <2>2, <4>2
        <5>2. MaxAge \in Nat
          BY HistoryAssumption
        <5>3. Decision(h) - first.time <= MaxAge
          BY <1>1, <3>1, <5>1, <5>2
        <5>4. QED
          BY <2>1, <5>3
      <4>3. QED
        BY <4>1, <4>2
    <3>2. QED
      BY <2>2, <3>1
  <2>7. _latest_price(OfToken(Early(T), k), Decision(h)) =
          IF \E p \in some : Decision(h) - p.time <= MaxAge THEN newest ELSE None
    BY DEF _latest_price, some
  <2>8. _latest_price(OfToken(trades, k), Decision(h)) =
          IF \E p \in all : Decision(h) - p.time <= MaxAge THEN latest ELSE None
    BY DEF _latest_price, all
  <2> HIDE DEF newest, latest
  <2>9. QED
    BY <2>5, <2>6, <2>7, <2>8
<1>8. QED
  BY <1>5, <1>6, <1>7

LEMMA HistoryInvInit == HistoryInit => HistoryInv
<1> SUFFICES ASSUME HistoryInit PROVE HistoryInv
  OBVIOUS
<1>1. \A b \in Batches : b \subseteq Points
  BY DEF Batches, Points
<1>2. trades \subseteq {p \in Points : p.resolution = 0} /\ (batch # None => batch \subseteq Points)
  BY <1>1 DEF HistoryInit
<1>3. NoLookAhead
  BY DEF HistoryInit, NoLookAhead, EarlyStopLosesNothing, NothingLater, FreshPair
<1>4. QED
  BY <1>2, <1>3 DEF HistoryInit, HistoryInv

LEMMA BatchKeeps == ASSUME HistoryInv, BatchUsed PROVE HistoryInv'
<1>1. /\ record' = _make_price_record(Early(batch), "batch") /\ batch # None
      /\ UNCHANGED <<trades, batch, lost, taken, rows>>
  BY DEF BatchUsed, BatchCovers
<1>2. record'.points \subseteq Points /\ record'.source = "batch"
  BY <1>1 DEF HistoryInv, _make_price_record, Early
<1>3. NoLookAhead'
  BY <1>1, <1>2 DEF HistoryInv, NoLookAhead, EarlyStopLosesNothing, NothingLater, FreshPair
<1>4. QED
  BY <1>1, <1>2, <1>3 DEF HistoryInv

LEMMA PageKeeps == ASSUME HistoryInv, fetch_trade_histories PROVE HistoryInv'
<1>1. PICK page \in Pages :
        /\ taken' = taken \cup page
        /\ record' = IF taken' = trades \/ Enough(Early(taken \cup page), page)
                     THEN _make_price_record(Early(taken \cup page), "trades") ELSE None
  BY DEF fetch_trade_histories
<1>2. UNCHANGED <<trades, batch, lost, rows>>
  BY DEF fetch_trade_histories
<1>3. page \subseteq trades \ taken /\ \A p \in page, q \in (trades \ taken) \ page : q.time <= p.time
  BY DEF Pages, kSubset
<1>4. taken' \subseteq trades /\ \A p \in taken', q \in trades \ taken' : q.time <= p.time
  BY <1>1, <1>3 DEF HistoryInv
<1>5. record' # None =>
        /\ record'.points = Early(taken') /\ record'.source = "trades"
        /\ taken' = trades \/ \A k \in Tokens : \E p \in OfToken(Early(taken'), k) : p.time <= earliest_decision
  BY <1>1 DEF _make_price_record, Enough
<1>6. record' # None => record'.points \subseteq Points
  BY <1>4, <1>5 DEF Early, HistoryInv
<1>7. EarlyStopLosesNothing'
  <2> SUFFICES ASSUME record' # None, NEW k \in Tokens, NEW h \in Horizons
               PROVE  _latest_price(OfToken(record'.points, k), Decision(h))
                        = _latest_price(OfToken(trades, k), Decision(h))
    BY <1>2 DEF EarlyStopLosesNothing
  <2>1. taken' = trades \/ \E p \in OfToken(Early(taken'), k) : p.time <= earliest_decision
    BY <1>5
  <2>2. trades \subseteq {p \in Points : p.resolution = 0}
    BY DEF HistoryInv
  <2>3. QED
    BY <1>4, <1>5, <2>1, <2>2, PagesSuffice
<1>8. NoLookAhead'
  BY <1>2, <1>7 DEF HistoryInv, NoLookAhead, NothingLater, FreshPair
<1>9. QED
  BY <1>2, <1>4, <1>6, <1>8 DEF HistoryInv

LEMMA RowsKeep == ASSUME HistoryInv, build_observations PROVE HistoryInv'
<1>1. /\ record # None /\ rows' = {Row(h) : h \in Horizons} \ {None}
      /\ UNCHANGED <<trades, batch, lost, taken, record>>
  BY DEF build_observations
<1>2. record.points \in SUBSET Points
  BY <1>1 DEF HistoryInv
<1>3. ASSUME NEW row \in rows'
      PROVE  /\ \A p \in {row.up, row.down} :
                  /\ p.time + p.resolution <= Decision(row.horizon)
                  /\ Decision(row.horizon) - p.time <= MaxAge /\ p.time >= row.spot
             /\ \A t \in row.closes : t + Bar <= Decision(row.horizon)
             /\ row.spot <= Decision(row.horizon) /\ row.effective >= row.horizon /\ row.spot >= Epoch
  <2>1. PICK h \in Horizons : row = Row(h) /\ row # None
    BY <1>1
  <2>2. QED
    BY <1>2, <2>1, RowSound
<1>4. NothingLater' /\ FreshPair'
  BY <1>3 DEF NothingLater, FreshPair
<1>5. EarlyStopLosesNothing'
  BY <1>1 DEF HistoryInv, NoLookAhead, EarlyStopLosesNothing, _latest_price, Eligible, OfToken
<1>6. QED
  BY <1>1, <1>4, <1>5 DEF HistoryInv, NoLookAhead

LEMMA HistoryKept == HistoryInv /\ [HistoryNext]_history_vars => HistoryInv'
<1> SUFFICES ASSUME HistoryInv, UNCHANGED history_vars PROVE HistoryInv'
  BY BatchKeeps, PageKeeps, RowsKeep DEF HistoryNext
<1>1. UNCHANGED <<trades, batch, lost, taken, record, rows>>
  BY DEF history_vars
<1>2. NoLookAhead'
  BY <1>1 DEF HistoryInv, NoLookAhead, EarlyStopLosesNothing, NothingLater, FreshPair,
              _latest_price, Eligible, OfToken
<1>3. QED
  BY <1>1, <1>2 DEF HistoryInv

\* For every history, page size and horizons: a row of a data set knows everything before
\* its decision that is fresh, and nothing after it, although the pages are left early
\* (fetch_trade_histories, build_observations).
THEOREM NeverLooksAhead == HistorySpec => []NoLookAhead
<1>1. HistoryInv => NoLookAhead
  BY DEF HistoryInv
<1>2. QED
  BY HistoryInvInit, HistoryKept, <1>1, PTL DEF HistorySpec

(***************************************************************************)
(* The splits.                                                             *)
(***************************************************************************)

\* What the embargo is applied to: the epochs in three parts that stand in order.
InOrder(raw) ==
  /\ epochs = raw.train \cup raw.validation \cup raw.test
  /\ \A a \in raw.train : (\A b \in raw.validation : a < b) /\ (\A b \in raw.test : a < b)
  /\ \A a \in raw.validation, b \in raw.test : a < b

CutEpochs ==
  /\ cut.kind = "chronological" /\ {} \notin {parts.train, parts.validation, parts.test}
  /\ \E raw : /\ InOrder(raw) /\ parts = Embargoed(raw)
              /\ cut.start # None => cut.start \in Int /\ raw.test = {x \in epochs : x >= cut.start}

CutEvents ==
  /\ cut.kind = "temporal" /\ cut.train_end \in Int /\ cut.validation_end \in Int
  /\ cut.train_end < cut.validation_end
  /\ LET raw == RawEvents(cut.train_end, cut.validation_end)
     IN parts = [p \in Parts |-> {e \in raw[p] : e.cluster_id \notin Spanning(raw)}]

CutFold ==
  /\ cut.kind = "fold" /\ cut.start \in Int /\ cut.end \in Int
  /\ LET test == {e \in events : cut.start <= e.decision_at /\ e.decision_at < cut.end}
     IN parts = [train |-> TrainingOf(test, cut.start), validation |-> {}, test |-> test]

SplitInv ==
  /\ epochs \subseteq Epochs /\ embargo \in Nat
  /\ events \subseteq [decision_at : Decisions, lasts : 1 .. Longest, cluster_id : Clusters]
  /\ parts = None \/ CutEpochs \/ CutEvents \/ CutFold

----------------------------------------------------------------------------
(* Ranks. *)

Rank(S, e) == Cardinality({x \in S : x <= e})

LEMMA Ranked ==
  ASSUME NEW S \in SUBSET Int, IsFiniteSet(S), NEW e \in S
  PROVE  Rank(S, e) \in 1 .. Cardinality(S) /\ Cardinality(S) \in Nat
<1> DEFINE below == {x \in S : x <= e}
<1>1. below \in SUBSET S /\ e \in below
  OBVIOUS
<1> HIDE DEF below
<1>2. IsFiniteSet(below) /\ Cardinality(below) <= Cardinality(S)
  BY <1>1, FS_Subset
<1>3. Cardinality(below) \in Nat /\ Cardinality(S) \in Nat
  BY <1>2, FS_CardinalityType
<1>4. Cardinality(below) # 0
  BY <1>1, <1>2, FS_EmptySet
<1>5. Cardinality(below) \in 1 .. Cardinality(S)
  BY <1>2, <1>3, <1>4
<1>6. QED
  BY <1>3, <1>5 DEF Rank, below

LEMMA RankOrders ==
  ASSUME NEW S \in SUBSET Int, IsFiniteSet(S), NEW e \in S, NEW f \in S, Rank(S, e) < Rank(S, f)
  PROVE  e < f
<1> SUFFICES ASSUME f <= e PROVE FALSE
  OBVIOUS
<1> DEFINE low == {x \in S : x <= f}
           high == {x \in S : x <= e}
<1>1. low \in SUBSET high /\ high \in SUBSET S
  <2>1. \A x \in S : x <= f => x <= e
    OBVIOUS
  <2>2. QED
    BY <2>1
<1> HIDE DEF low, high
<1>2. IsFiniteSet(high) /\ IsFiniteSet(low)
  BY <1>1, FS_Subset
<1>3. Cardinality(low) <= Cardinality(high)
  BY <1>1, <1>2, FS_Subset
<1>4. Cardinality(low) \in Nat /\ Cardinality(high) \in Nat
  BY <1>2, FS_CardinalityType
<1>5. Cardinality(high) < Cardinality(low)
  BY DEF Rank, low, high
<1>6. QED
  BY <1>3, <1>4, <1>5

LEMMA SliceOf == ASSUME NEW S, NEW a, NEW b PROVE Slice(S, a, b) = {e \in S : Rank(S, e) \in a .. b}
BY DEF Slice, Rank

LEMMA CountsAreWhole ==
  ASSUME NEW n \in Nat
  PROVE  TrainCount(n) \in Int /\ FixedTrainCount(n) \in Int
<1>1. \A x \in Int : AtLeastOne(x) \in Int
  <2> TAKE x \in Int
  <2>1. \E m \in {1, x} : \A k \in {1, x} : m >= k
    BY 1 <= x \/ x <= 1
  <2>2. QED
    BY <2>1 DEF AtLeastOne, Max
<1>2. (6 * n) \div 10 \in Int /\ (3 * n - 1) \div 4 \in Int
  OBVIOUS
<1>3. AtLeastOne((3 * n - 1) \div 4) \in Int
  BY <1>1, <1>2
<1>4. Min({AtLeastOne((3 * n - 1) \div 4), n - 1}) \in Int
  <2> DEFINE a == AtLeastOne((3 * n - 1) \div 4)
             b == n - 1
  <2>1. a \in Int /\ b \in Int
    BY <1>3
  <2> HIDE DEF a, b
  <2>2. Min({a, b}) \in {a, b}
    BY <2>1, LeastOfTwo
  <2>3. Min({a, b}) \in Int
    BY <2>1, <2>2
  <2>4. QED
    BY <2>3 DEF a, b
<1>5. QED
  BY <1>1, <1>2, <1>4 DEF TrainCount, FixedTrainCount

\* A history that is split is cut in order, by ranks or at the fixed start.
LEMMA RawInOrder ==
  ASSUME epochs \subseteq Epochs, NEW start \in {None} \cup Epochs, Splittable(start)
  PROVE  /\ InOrder(RawSplit(start))
         /\ start # None => start \in Int /\ RawSplit(start).test = {x \in epochs : x >= start}
<1>1. epochs \in SUBSET Int /\ IsFiniteSet(epochs) /\ Cardinality(epochs) \in Nat
  BY SplitAssumption, FS_Subset, FS_CardinalityType
<1> DEFINE n == Cardinality(epochs)
           t == TrainCount(n)
           v == ValidationCount(n)
<1>2. CASE start = None
  <2>1. n \in Nat /\ t \in Int
    BY <1>1, CountsAreWhole
  <2>2. v \in Int /\ v >= 1
    <3>1. v >= 1
      BY <1>2 DEF Splittable
    <3>2. \A x \in Int : AtLeastOne(x) \in Int
      <4> TAKE x \in Int
      <4>1. \E m \in {1, x} : \A k \in {1, x} : m >= k
        BY 1 <= x \/ x <= 1
      <4>2. QED
        BY <4>1 DEF AtLeastOne, Max
    <3> DEFINE y == AtLeastOne((2 * n) \div 10)
               z == n - TrainCount(n) - 1
    <3>3. y \in Int /\ z \in Int
      BY <2>1, <3>2
    <3>4. v = Min({y, z})
      BY DEF ValidationCount
    <3> HIDE DEF y, z, v
    <3>5. QED
      BY <3>1, <3>3, <3>4, LeastOfTwo DEF v
  <2> DEFINE raw == [train |-> Slice(epochs, 1, t), validation |-> Slice(epochs, t + 1, t + v),
                     test |-> Slice(epochs, t + v + 1, n)]
  <2>3. RawSplit(start) = raw
    BY <1>2 DEF RawSplit
  <2>4. /\ raw.train = {e \in epochs : Rank(epochs, e) \in 1 .. t}
        /\ raw.validation = {e \in epochs : Rank(epochs, e) \in t + 1 .. t + v}
        /\ raw.test = {e \in epochs : Rank(epochs, e) \in t + v + 1 .. n}
    BY SliceOf
  <2> HIDE DEF n, t, v, raw
  <2>5. \A e \in epochs : Rank(epochs, e) \in 1 .. n
    BY <1>1, Ranked DEF n
  <2>6. epochs = raw.train \cup raw.validation \cup raw.test
    BY <2>1, <2>2, <2>4, <2>5
  <2>7. \A a, b \in epochs : Rank(epochs, a) < Rank(epochs, b) => a < b
    BY <1>1, RankOrders
  <2>8. \A a \in raw.train : (\A b \in raw.validation : a < b) /\ (\A b \in raw.test : a < b)
    <3> TAKE a \in raw.train
    <3>1. a \in epochs /\ Rank(epochs, a) \in Int /\ Rank(epochs, a) <= t
      BY <2>1, <2>4
    <3>2. \A b \in raw.validation : Rank(epochs, a) < Rank(epochs, b)
      BY <2>1, <2>2, <2>4, <3>1
    <3>3. \A b \in raw.test : Rank(epochs, a) < Rank(epochs, b)
      BY <2>1, <2>2, <2>4, <3>1
    <3>4. QED
      BY <2>4, <2>7, <3>1, <3>2, <3>3
  <2>9. \A a \in raw.validation, b \in raw.test : a < b
    <3> TAKE a \in raw.validation, b \in raw.test
    <3>1. Rank(epochs, a) < Rank(epochs, b)
      BY <2>1, <2>2, <2>4
    <3>2. QED
      BY <2>4, <2>7, <3>1
  <2>10. QED
    BY <1>2, <2>3, <2>6, <2>8, <2>9 DEF InOrder
<1>3. CASE start # None
  <2> DEFINE before == {e \in epochs : e < start}
             m == Cardinality(before)
             f == FixedTrainCount(m)
             raw == [train |-> Slice(before, 1, f), validation |-> Slice(before, f + 1, m),
                     test |-> epochs \ before]
  <2>1. RawSplit(start) = raw
    BY <1>3 DEF RawSplit
  <2>2. start \in Int
    BY <1>3, SplitAssumption
  <2>3. before \in SUBSET epochs /\ before \in SUBSET Int
    BY <1>1
  <2>4. IsFiniteSet(before) /\ m \in Nat
    BY <1>1, <2>3, FS_Subset, FS_CardinalityType
  <2>5. f \in Int
    BY <2>4, CountsAreWhole
  <2>6. /\ raw.train = {e \in before : Rank(before, e) \in 1 .. f}
        /\ raw.validation = {e \in before : Rank(before, e) \in f + 1 .. m}
        /\ raw.test = epochs \ before
    BY SliceOf
  <2>7. \A a \in before, b \in epochs \ before : a < b
    BY <1>1, <2>2
  <2>8. epochs \ before = {x \in epochs : x >= start}
    <3>1. \A x \in epochs : x \in before <=> ~(x >= start)
      BY <1>1, <2>2
    <3> HIDE DEF before
    <3>2. QED
      BY <3>1
  <2> HIDE DEF before, m, f, raw
  <2>9. \A e \in before : Rank(before, e) \in 1 .. m
    BY <2>3, <2>4, Ranked DEF m
  <2>10. epochs = raw.train \cup raw.validation \cup raw.test
    <3>1. \A e \in before : Rank(before, e) \in 1 .. f \/ Rank(before, e) \in f + 1 .. m
      BY <2>4, <2>5, <2>9
    <3>2. before = raw.train \cup raw.validation
      BY <2>6, <3>1
    <3>3. QED
      BY <2>3, <2>6, <3>2
  <2>11. \A a, b \in before : Rank(before, a) < Rank(before, b) => a < b
    BY <2>3, <2>4, RankOrders
  <2>12. \A a \in raw.train, b \in raw.validation : a < b
    <3> TAKE a \in raw.train, b \in raw.validation
    <3>1. Rank(before, a) < Rank(before, b)
      BY <2>5, <2>6
    <3>2. QED
      BY <2>6, <2>11, <3>1
  <2>13. InOrder(raw)
    BY <2>6, <2>7, <2>10, <2>12 DEF InOrder
  <2>14. QED
    BY <2>1, <2>2, <2>6, <2>8, <2>13
<1>4. QED
  BY <1>2, <1>3

----------------------------------------------------------------------------
LEMMA SplitInvInit == SplitInit => SplitInv
<1> SUFFICES ASSUME SplitInit PROVE SplitInv
  OBVIOUS
<1>1. \/ epochs \in SUBSET Epochs /\ events = {}
      \/ epochs = {} /\ events \subseteq [decision_at : Decisions, lasts : 1 .. Longest, cluster_id : Clusters]
  BY DEF SplitInit, kSubset
<1>2. QED
  BY <1>1, SplitAssumption DEF SplitInit, SplitInv

LEMMA SplitKept == SplitInv /\ [SplitNext]_split_vars => SplitInv'
<1> SUFFICES ASSUME SplitInv, [SplitNext]_split_vars PROVE SplitInv'
  OBVIOUS
<1>1. CASE UNCHANGED split_vars
  <2>1. UNCHANGED <<epochs, events, embargo, cut, parts>>
    BY <1>1 DEF split_vars
  <2>2. CutEpochs => CutEpochs'
    BY <2>1 DEF CutEpochs, InOrder, Embargoed, Before, After
  <2>3. CutEvents => CutEvents'
    BY <2>1 DEF CutEvents, RawEvents, Spanning, KnownBefore, settlement_at
  <2>4. CutFold => CutFold'
    BY <2>1 DEF CutFold, TrainingOf, KnownBefore, settlement_at
  <2>5. QED
    BY <2>1, <2>2, <2>3, <2>4 DEF SplitInv
<1>2. ASSUME NEW start \in {None} \cup Epochs, chronological_split(start) PROVE SplitInv'
  <2>1. /\ Splittable(start) /\ cut' = [kind |-> "chronological", start |-> start]
        /\ parts' = Embargoed(RawSplit(start)) /\ {} \notin {parts'.train, parts'.validation, parts'.test}
        /\ UNCHANGED <<epochs, events, embargo>>
    BY <1>2 DEF chronological_split
  <2>2. PICK raw : /\ InOrder(raw) /\ parts' = Embargoed(raw)
                   /\ start # None => start \in Int /\ raw.test = {x \in epochs : x >= start}
    BY <2>1, RawInOrder DEF SplitInv
  <2>3. InOrder(raw)' /\ parts' = Embargoed(raw)'
    BY <2>1, <2>2 DEF Embargoed, Before, After, InOrder
  <2>4. CutEpochs'
    BY <2>1, <2>2, <2>3 DEF CutEpochs
  <2>5. QED
    BY <2>1, <2>4 DEF SplitInv
<1>3. ASSUME NEW a \in Decisions, NEW b \in Decisions, temporal_split(a, b) PROVE SplitInv'
  <2>1. a \in Int /\ b \in Int
    BY SplitAssumption
  <2>2. CutEvents'
    BY <1>3, <2>1 DEF temporal_split, CutEvents, RawEvents, KnownBefore, settlement_at, Spanning
  <2>3. QED
    BY <1>3, <2>2 DEF SplitInv, temporal_split
<1>4. ASSUME NEW a \in Decisions, NEW b \in Decisions, walk_forward(a, b) PROVE SplitInv'
  <2>1. a \in Int /\ b \in Int
    BY SplitAssumption
  <2>2. CutFold'
    BY <1>4, <2>1 DEF walk_forward, CutFold, TrainingOf, KnownBefore, settlement_at
  <2>3. QED
    BY <1>4, <2>2 DEF SplitInv, walk_forward
<1>5. QED
  BY <1>1, <1>2, <1>3, <1>4 DEF SplitNext

\* What the embargo leaves of three parts in order: more than two embargoes between them,
\* and nothing lost but in those gaps.
LEMMA EmbargoHolds ==
  ASSUME epochs \subseteq Int, embargo \in Nat, CutEpochs
  PROVE  TwoEmbargoesApart /\ DroppedForCause
<1>1. PICK raw : /\ InOrder(raw) /\ parts = Embargoed(raw)
                 /\ cut.start # None => cut.start \in Int /\ raw.test = {x \in epochs : x >= cut.start}
  BY DEF CutEpochs
<1> DEFINE Tr == parts.train
           Va == parts.validation
           Te == parts.test
           T == raw.train
           V == raw.validation
           S == raw.test
<1>2. /\ Tr = {e \in T : \A x \in V : e < x - embargo}
      /\ Va = {e \in V : (\E x \in V : e >= x + embargo) /\ (\A x \in S : e < x - embargo)}
      /\ Te = {e \in S : \E x \in S : e >= x + embargo}
  BY <1>1 DEF Embargoed, Before, After
<1>3. /\ epochs = T \cup V \cup S
      /\ \A a \in T : (\A b \in V : a < b) /\ (\A b \in S : a < b)
      /\ \A a \in V, b \in S : a < b
  BY <1>1 DEF InOrder
<1>4. Tr # {} /\ Va # {} /\ Te # {}
  BY DEF CutEpochs
<1>5. cut.start # None => cut.start \in Int /\ S = {x \in epochs : x >= cut.start}
  BY <1>1
<1>6. T \subseteq Int /\ V \subseteq Int /\ S \subseteq Int
  BY <1>3
<1> HIDE DEF Tr, Va, Te, T, V, S
<1>7. \A a \in Tr, b \in Va : a + 2 * embargo < b
  BY <1>2, <1>6
<1>8. \A a \in Va, b \in Te : a + 2 * embargo < b
  BY <1>2, <1>6
<1>9. \A a \in Tr, b \in Te : a + 2 * embargo < b
  <2> TAKE a \in Tr, b \in Te
  <2>1. PICK v \in Va : TRUE
    BY <1>4
  <2>2. a \in Int /\ b \in Int /\ v \in Int
    BY <1>2, <1>6
  <2>3. a + 2 * embargo < v /\ v + 2 * embargo < b
    BY <1>7, <1>8
  <2>4. QED
    BY <2>2, <2>3
<1>10. TwoEmbargoesApart
  <2> SUFFICES ASSUME NEW i \in DOMAIN Ordered,
                      NEW a \in parts[Ordered[i][1]], NEW b \in parts[Ordered[i][2]]
               PROVE  a + 2 * embargo <= b /\ a # b
    BY DEF TwoEmbargoesApart
  <2>1. i \in {1, 2, 3}
    BY DEF Ordered
  <2>2. a + 2 * embargo < b /\ a \in Int /\ b \in Int
    <3>1. CASE i = 1
      <4>1. a \in Tr /\ b \in Va
        BY <3>1 DEF Ordered, Tr, Va
      <4>2. QED
        BY <1>2, <1>6, <1>7, <4>1
    <3>2. CASE i = 2
      <4>1. a \in Va /\ b \in Te
        BY <3>2 DEF Ordered, Va, Te
      <4>2. QED
        BY <1>2, <1>6, <1>8, <4>1
    <3>3. CASE i = 3
      <4>1. a \in Tr /\ b \in Te
        BY <3>3 DEF Ordered, Tr, Te
      <4>2. QED
        BY <1>2, <1>6, <1>9, <4>1
    <3>4. QED
      BY <2>1, <3>1, <3>2, <3>3
  <2>3. QED
    BY <2>2
<1> DEFINE First == {e \in epochs : (\A x \in Tr : x < e) /\ (\A y \in Va : e < y)}
           Second == {e \in epochs : (\A x \in Va : x < e) /\ (\A y \in Te : e < y)}
\* In the first gap: what is too near to the validation, or its beginning.
<1>11. ASSUME NEW e \in First
       PROVE  \/ e \in T /\ \E x \in V : e >= x - embargo
              \/ e \in V /\ \A x \in V : e < x + embargo
  <2>1. PICK v \in Va : e < v
    BY <1>4
  <2>2. e \notin Tr /\ e \in Int
    BY <1>3, <1>6
  <2>3. e \notin S
    BY <1>2, <1>3, <1>6, <2>1, <2>2
  <2>4. CASE e \in T
    BY <1>2, <1>6, <2>2, <2>4
  <2>5. CASE e \in V
    <3>1. e \notin Va
      BY <2>2
    <3>2. \A x \in S : e < x - embargo
      BY <1>2, <1>6, <2>1, <2>2
    <3>3. QED
      BY <1>2, <1>6, <2>2, <2>5, <3>1, <3>2
  <2>6. QED
    BY <1>3, <2>3, <2>4, <2>5
<1>12. ASSUME NEW e \in Second
       PROVE  \/ e \in V /\ \E x \in S : e >= x - embargo
              \/ e \in S /\ \A x \in S : e < x + embargo
  <2>1. PICK v \in Va : v < e
    BY <1>4
  <2>2. e \notin Va /\ e \notin Te /\ e \in Int
    BY <1>3, <1>6
  <2>3. e \notin T
    BY <1>2, <1>3, <1>6, <2>1, <2>2
  <2>4. CASE e \in V
    <3>1. \E x \in V : e >= x + embargo
      BY <1>2, <1>6, <2>1, <2>2
    <3>2. QED
      BY <1>2, <1>6, <2>2, <2>4, <3>1
  <2>5. CASE e \in S
    BY <1>2, <1>6, <2>2, <2>5
  <2>6. QED
    BY <1>3, <2>3, <2>4, <2>5
<1>13. \A a, b \in First : b - a < 2 * embargo
  BY <1>3, <1>6, <1>11
<1>14. \A a, b \in Second : b - a < 2 * embargo
  BY <1>3, <1>6, <1>12
<1>15. epochs = Tr \cup Va \cup Te \cup (First \cup Second)
  <2>1. ASSUME NEW e \in epochs, e \notin Tr \cup Va \cup Te PROVE e \in First \cup Second
    <3>1. CASE e \in T
      <4>1. PICK x \in V : e >= x - embargo
        BY <1>2, <1>6, <2>1, <3>1
      <4>2. \A a \in Tr : a < e
        BY <1>2, <1>6, <3>1, <4>1
      <4>3. \A y \in Va : e < y
        BY <1>2, <1>3, <3>1
      <4>4. QED
        BY <2>1, <4>2, <4>3
    <3>2. CASE e \in V /\ \A x \in V : e < x + embargo
      <4>1. \A a \in Tr : a < e
        BY <1>2, <1>3, <3>2
      <4>2. \A y \in Va : e < y
        BY <1>2, <1>6, <3>2
      <4>3. QED
        BY <2>1, <4>1, <4>2
    <3>3. CASE e \in V /\ ~\A x \in V : e < x + embargo
      <4>1. \E x \in V : e >= x + embargo
        BY <1>6, <3>3
      <4>2. PICK z \in S : e >= z - embargo
        BY <1>2, <1>6, <2>1, <3>3, <4>1
      <4>3. \A a \in Va : a < e
        BY <1>2, <1>6, <3>3, <4>2
      <4>4. \A y \in Te : e < y
        BY <1>2, <1>3, <3>3
      <4>5. QED
        BY <2>1, <4>3, <4>4
    <3>4. CASE e \in S
      <4>1. \A x \in S : e < x + embargo
        BY <1>2, <1>6, <2>1, <3>4
      <4>2. \A y \in Te : e < y
        BY <1>2, <1>6, <3>4, <4>1
      <4>3. \A a \in Va : a < e
        BY <1>2, <1>3, <3>4
      <4>4. QED
        BY <2>1, <4>2, <4>3
    <3>5. QED
      BY <1>3, <2>1, <3>1, <3>2, <3>3, <3>4
  <2>2. QED
    BY <1>2, <1>3, <2>1
<1>16. ASSUME cut.start # None
       PROVE  {e \in epochs : After(e, {x \in epochs : x >= cut.start}, embargo)} = Te
  <2>1. cut.start \in Int /\ S = {x \in epochs : x >= cut.start}
    BY <1>5, <1>16
  <2>2. \A e \in epochs : (\E x \in S : e >= x + embargo) => e >= cut.start
    BY <1>3, <1>6, <2>1
  <2>3. QED
    BY <1>2, <2>1, <2>2 DEF After
<1>17. DroppedForCause
  BY <1>13, <1>14, <1>15, <1>16 DEF DroppedForCause, Tr, Va, Te
<1>18. QED
  BY <1>10, <1>17

Training(raw, p) == {e \in raw[p] : e.cluster_id \notin Spanning(raw)}

\* The parts of the events: what a part keeps settled before the next begins.
LEMMA PurgeHolds ==
  ASSUME SplitInv, CutEvents
  PROVE  LabelsKnown /\ PurgedForCause
<1> DEFINE a == cut.train_end
           b == cut.validation_end
           raw == RawEvents(a, b)
           Timely(e) == \A x \in {a, b} : e.decision_at < x => settlement_at(e) + embargo < x
<1>1. a \in Int /\ b \in Int /\ a < b /\ cut.kind = "temporal" /\ embargo \in Int
  BY DEF CutEvents, SplitInv
<1>2. \A e \in events : e.decision_at \in Int /\ settlement_at(e) \in Int /\ e.cluster_id \in Clusters
  BY SplitAssumption DEF SplitInv, settlement_at
<1>3. parts = [p \in Parts |-> Training(raw, p)]
  BY DEF CutEvents, Training
<1>4. /\ parts["train"] = Training(raw, "train") /\ parts["validation"] = Training(raw, "validation")
      /\ parts["test"] = Training(raw, "test")
  BY <1>3 DEF Parts
<1>5. /\ raw["train"] = {e \in events : e.decision_at < a /\ KnownBefore(e, a)}
      /\ raw["validation"] = {e \in events : a <= e.decision_at /\ e.decision_at < b /\ KnownBefore(e, b)}
      /\ raw["test"] = {e \in events : e.decision_at >= b}
  BY DEF RawEvents
<1> HIDE DEF a, b, raw
<1>6. Parts = {"train", "validation", "test"}
  BY DEF Parts
<1>7. \A p, q \in Parts : \A e, f : p # q /\ e \in raw[p] /\ f \in raw[q] /\ e.cluster_id = f.cluster_id
                                 /\ e.cluster_id \in Clusters => e.cluster_id \in Spanning(raw)
  BY DEF Spanning
<1>8. ASSUME NEW p \in Parts, NEW q \in Parts, p # q, NEW e \in Training(raw, p), NEW f \in Training(raw, q)
      PROVE  e.cluster_id # f.cluster_id
  <2>1. e \in raw[p] /\ f \in raw[q] /\ e.cluster_id \notin Spanning(raw)
    BY DEF Training
  <2>2. e.cluster_id \in Clusters
    BY <1>2, <1>5, <1>6, <2>1
  <2>3. QED
    BY <1>7, <1>8, <2>1, <2>2
<1>9. LabelsKnown
  <2> SUFFICES ASSUME NEW i \in DOMAIN Ordered,
                      NEW e \in parts[Ordered[i][1]], NEW f \in parts[Ordered[i][2]]
               PROVE  settlement_at(e) + embargo < f.decision_at /\ e.cluster_id # f.cluster_id
    BY DEF LabelsKnown
  <2>1. i \in {1, 2, 3}
    BY DEF Ordered
  <2>2. CASE i = 1
    <3>1. e \in Training(raw, "train") /\ f \in Training(raw, "validation")
      BY <1>4, <2>2 DEF Ordered
    <3>2. e \in raw["train"] /\ f \in raw["validation"]
      BY <3>1 DEF Training
    <3>3. settlement_at(e) + embargo < f.decision_at
      BY <1>1, <1>2, <1>5, <3>2 DEF KnownBefore
    <3>4. QED
      BY <1>6, <1>8, <3>1, <3>3
  <2>3. CASE i = 2
    <3>1. e \in Training(raw, "validation") /\ f \in Training(raw, "test")
      BY <1>4, <2>3 DEF Ordered
    <3>2. e \in raw["validation"] /\ f \in raw["test"]
      BY <3>1 DEF Training
    <3>3. settlement_at(e) + embargo < f.decision_at
      BY <1>1, <1>2, <1>5, <3>2 DEF KnownBefore
    <3>4. QED
      BY <1>6, <1>8, <3>1, <3>3
  <2>4. CASE i = 3
    <3>1. e \in Training(raw, "train") /\ f \in Training(raw, "test")
      BY <1>4, <2>4 DEF Ordered
    <3>2. e \in raw["train"] /\ f \in raw["test"]
      BY <3>1 DEF Training
    <3>3. settlement_at(e) + embargo < f.decision_at
      BY <1>1, <1>2, <1>5, <3>2 DEF KnownBefore
    <3>4. QED
      BY <1>6, <1>8, <3>1, <3>3
  <2>5. QED
    BY <2>1, <2>2, <2>3, <2>4
\* An event whose labels are known at the boundaries after it is in the part of its time.
<1>10. ASSUME NEW e \in events, Timely(e)
       PROVE  \E p \in Parts : /\ e \in raw[p] /\ (p = "train" <=> e.decision_at < a)
                               /\ (p = "test" <=> e.decision_at >= b)
  <2>1. e.decision_at < a => e \in raw["train"]
    BY <1>1, <1>2, <1>5, <1>10 DEF KnownBefore
  <2>2. e.decision_at >= a /\ e.decision_at < b => e \in raw["validation"]
    BY <1>1, <1>2, <1>5, <1>10 DEF KnownBefore
  <2>3. e.decision_at >= b => e \in raw["test"]
    BY <1>5
  <2>4. QED
    BY <1>1, <1>2, <1>6, <2>1, <2>2, <2>3
<1>11. ASSUME NEW p \in Parts, NEW o \in raw[p]
       PROVE  /\ o \in events /\ Timely(o)
              /\ p = "train" <=> o.decision_at < a
              /\ p = "test" <=> o.decision_at >= b
  <2>1. o \in events
    BY <1>5, <1>6, <1>11
  <2>2. o.decision_at \in Int /\ settlement_at(o) \in Int
    BY <1>2, <2>1
  <2>3. CASE p = "train"
    <3>1. o.decision_at < a /\ settlement_at(o) + embargo < a
      BY <1>5, <1>11, <2>3 DEF KnownBefore
    <3>2. QED
      BY <1>1, <2>1, <2>2, <2>3, <3>1
  <2>4. CASE p = "validation"
    <3>1. a <= o.decision_at /\ o.decision_at < b /\ settlement_at(o) + embargo < b
      BY <1>5, <1>11, <2>4 DEF KnownBefore
    <3>2. QED
      BY <1>1, <2>1, <2>2, <2>4, <3>1
  <2>5. CASE p = "test"
    <3>1. o.decision_at >= b
      BY <1>5, <1>11, <2>5
    <3>2. QED
      BY <1>1, <2>1, <2>2, <2>5, <3>1
  <2>6. QED
    BY <1>6, <2>3, <2>4, <2>5
<1>12. ASSUME NEW e \in events \ (parts.train \cup parts.validation \cup parts.test), Timely(e)
       PROVE  \E o \in events : /\ Timely(o) /\ o.cluster_id = e.cluster_id
                                /\ \E x \in {a, b} : (o.decision_at < x) # (e.decision_at < x)
  <2>1. PICK p \in Parts : /\ e \in raw[p] /\ (p = "train" <=> e.decision_at < a)
                           /\ (p = "test" <=> e.decision_at >= b)
    BY <1>10, <1>12
  <2>2. e \notin Training(raw, p)
    BY <1>4, <1>6, <1>12
  <2>3. e.cluster_id \in Spanning(raw)
    BY <2>1, <2>2 DEF Training
  <2>4. PICK q \in Parts : q # p /\ \E o \in raw[q] : o.cluster_id = e.cluster_id
    BY <2>3 DEF Spanning
  <2>5. PICK o \in raw[q] : o.cluster_id = e.cluster_id
    BY <2>4
  <2>6. /\ o \in events /\ Timely(o)
        /\ q = "train" <=> o.decision_at < a
        /\ q = "test" <=> o.decision_at >= b
    BY <1>11
  <2>7. o.decision_at \in Int /\ e.decision_at \in Int
    BY <1>2, <1>12, <2>6
  <2>8. \E x \in {a, b} : (o.decision_at < x) # (e.decision_at < x)
    BY <1>1, <1>6, <2>1, <2>4, <2>6, <2>7
  <2>9. QED
    BY <2>5, <2>6, <2>8
<1>13. PurgedForCause
  BY <1>12 DEF PurgedForCause, a, b
<1>14. QED
  BY <1>9, <1>13

LEMMA FoldHolds == ASSUME SplitInv, CutFold PROVE LabelsKnown
<1> SUFFICES ASSUME NEW i \in DOMAIN Ordered,
                    NEW e \in parts[Ordered[i][1]], NEW f \in parts[Ordered[i][2]]
             PROVE  settlement_at(e) + embargo < f.decision_at /\ e.cluster_id # f.cluster_id
  BY DEF LabelsKnown
<1>1. \A x \in events : x.decision_at \in Int /\ settlement_at(x) \in Int
  BY SplitAssumption DEF SplitInv, settlement_at
<1>2. cut.start \in Int /\ embargo \in Int
  BY DEF CutFold, SplitInv
<1> DEFINE test == {x \in events : cut.start <= x.decision_at /\ x.decision_at < cut.end}
<1>3. parts["train"] = TrainingOf(test, cut.start) /\ parts["validation"] = {} /\ parts["test"] = test
  BY DEF CutFold
<1>4. i = 3
  <2>1. i \in {1, 2, 3} /\ Ordered[1][2] = "validation" /\ Ordered[2][1] = "validation"
    BY DEF Ordered
  <2>2. QED
    BY <1>3, <2>1
<1>5. e \in TrainingOf(test, cut.start) /\ f \in test
  BY <1>3, <1>4 DEF Ordered
<1>6. /\ e \in events /\ f \in events /\ cut.start <= f.decision_at
      /\ settlement_at(e) + embargo < cut.start /\ f.cluster_id # e.cluster_id
  BY <1>5 DEF TrainingOf, KnownBefore
<1>7. QED
  BY <1>1, <1>2, <1>6

LEMMA SplitSound == SplitInv => PartsApart
<1> SUFFICES ASSUME SplitInv PROVE PartsApart
  OBVIOUS
<1>1. epochs \subseteq Int /\ embargo \in Nat
  BY SplitAssumption DEF SplitInv
<1> USE DEF PartsApart, Chronological, OfEvents
<1>2. CASE parts = None
  BY <1>2 DEF TwoEmbargoesApart, DroppedForCause, LabelsKnown, PurgedForCause
<1>3. CASE CutEpochs
  BY <1>1, <1>3, EmbargoHolds DEF CutEpochs, LabelsKnown, PurgedForCause
<1>4. CASE CutEvents
  BY <1>4, PurgeHolds DEF CutEvents, TwoEmbargoesApart, DroppedForCause
<1>5. CASE CutFold
  BY <1>5, FoldHolds DEF CutFold, TwoEmbargoesApart, DroppedForCause, PurgedForCause
<1>6. QED
  BY <1>2, <1>3, <1>4, <1>5 DEF SplitInv

\* For every history, embargo, cut and fixed start: a part of a split learns only from
\* labels known before a later one decides, is two embargoes away from it, and loses nothing
\* else (chronological_split, temporal_split, walk_forward).
THEOREM PartsStayApart == SplitSpec => []PartsApart
BY SplitInvInit, SplitKept, SplitSound, PTL DEF SplitSpec

(***************************************************************************)
(* The holdout.                                                            *)
(***************************************************************************)
Beginning == {"claiming", "loading", "checking"}
Developing == {"developing", "measured", "saving", "testing"}

HoldoutShape ==
  /\ experiments \subseteq Identities /\ manifest \in {None} \cup Identities
  /\ candidate \in [Candidates -> {None} \cup Identities]
  /\ holdout_started \in BOOLEAN /\ opened = IF holdout_started THEN 1 ELSE 0
  /\ runs \in 0 .. MaxRuns
  /\ pc \in [Procs -> {"down"} \cup Beginning \cup Developing]
  /\ identity \in [Procs -> {None} \cup Identities]
  /\ index \in [Procs -> 0 .. Last + 1] /\ eligible \in [Procs -> SUBSET Candidates]

\* A run is of an experiment of this directory, at one of its candidates.
RunShape(p) ==
  /\ ~At(p, "down") => identity[p] \in experiments
  /\ IF pc[p] \in Developing THEN index[p] >= 1 ELSE eligible[p] = {}
  /\ pc[p] \in {"measured", "saving"} => index[p] <= Last
  /\ At(p, "testing") => index[p] > Last /\ eligible[p] # {} /\ holdout_started

\* The one result of an experiment.
Outcome(e) == [identity |-> e, spec |-> IF Passes[e] = {} THEN None ELSE Max(Passes[e])]

\* In a directory of one experiment, a run has gated every candidate it has passed.
RunOf(e, p) ==
  pc[p] \in Developing => /\ \A i \in 1 .. (index[p] - 1) : candidate[i] = e
                          /\ eligible[p] = Passes[e] \cap 1 .. (index[p] - 1)

FilesOf(e) ==
  /\ holdout_started => \A i \in Candidates : candidate[i] = e
  /\ final \in {None, Outcome(e)} /\ reported \subseteq {Outcome(e)}

AloneInv ==
  Alone => \A e \in experiments : FilesOf(e) /\ \A p \in Procs : RunOf(e, p)

HoldoutInv ==
  /\ HoldoutShape /\ \A p \in Procs : RunShape(p)
  /\ reported # {} => experiments # {}
  /\ AloneInv

LEMMA HoldoutInvInit == HoldoutInit => HoldoutInv
<1> SUFFICES ASSUME HoldoutInit PROVE HoldoutInv
  OBVIOUS
<1>1. HoldoutShape
  <2>1. 0 \in 0 .. Last + 1 /\ 0 \in 0 .. MaxRuns /\ {} \in SUBSET Candidates
    BY HoldoutAssumption
  <2>2. pc \in [Procs -> {"down"} \cup Beginning \cup Developing]
    BY DEF HoldoutInit
  <2>3. candidate \in [Candidates -> {None} \cup Identities] /\ identity \in [Procs -> {None} \cup Identities]
    BY DEF HoldoutInit
  <2>4. index \in [Procs -> 0 .. Last + 1] /\ eligible \in [Procs -> SUBSET Candidates]
    BY <2>1 DEF HoldoutInit
  <2>5. QED
    BY <2>1, <2>2, <2>3, <2>4 DEF HoldoutInit, HoldoutShape
<1>2. \A p \in Procs : RunShape(p)
  BY DEF HoldoutInit, RunShape, At, Developing
<1>3. AloneInv
  BY DEF HoldoutInit, AloneInv, FilesOf, RunOf, Developing
<1>4. QED
  BY <1>1, <1>2, <1>3 DEF HoldoutInit, HoldoutInv

\* A step of one run that leaves the files is about that run alone.
LEMMA RunMoves ==
  ASSUME HoldoutInv, HoldoutShape', NEW p \in Procs,
         UNCHANGED <<experiments, candidate, holdout_started, final, opened, reported>>,
         \A q \in Procs \ {p} : pc'[q] = pc[q] /\ identity'[q] = identity[q]
                                  /\ index'[q] = index[q] /\ eligible'[q] = eligible[q],
         RunShape(p)', \A e \in experiments : Alone => RunOf(e, p)'
  PROVE  HoldoutInv'
<1>1. \A q \in Procs : RunShape(q)'
  <2> TAKE q \in Procs
  <2>1. CASE q = p
    BY <2>1
  <2>2. CASE q # p
    BY <2>2 DEF HoldoutInv, RunShape, At
  <2>3. QED
    BY <2>1, <2>2
<1>2. AloneInv'
  <2> SUFFICES ASSUME Alone', NEW e \in experiments', NEW q \in Procs
               PROVE  FilesOf(e)' /\ RunOf(e, q)'
    BY DEF AloneInv
  <2>1. Alone /\ e \in experiments
    BY DEF Alone
  <2>2. FilesOf(e) /\ RunOf(e, q)
    BY <2>1 DEF HoldoutInv, AloneInv
  <2>3. FilesOf(e)'
    BY <2>2 DEF FilesOf
  <2>4. CASE q = p
    BY <2>1, <2>3, <2>4
  <2>5. CASE q # p
    BY <2>2, <2>3, <2>5 DEF RunOf
  <2>6. QED
    BY <2>4, <2>5
<1>3. QED
  BY <1>1, <1>2 DEF HoldoutInv

\* The end of a run, whatever ended it.
LEMMA RunEnds ==
  ASSUME HoldoutInv, NEW p \in Procs, Raises(p), UNCHANGED experiments
  PROVE  HoldoutInv'
<1>1. HoldoutShape'
  <2>1. {} \in SUBSET Candidates /\ 0 \in 0 .. Last + 1
    BY HoldoutAssumption
  <2>2. QED
    BY <2>1 DEF Raises, Ends, Goto, HoldoutInv, HoldoutShape, disk
<1>2. pc'[p] = "down" /\ eligible'[p] = {}
  BY DEF Raises, Ends, Goto, HoldoutInv, HoldoutShape
<1>3. RunShape(p)' /\ \A e \in experiments : Alone => RunOf(e, p)'
  BY <1>2 DEF RunShape, RunOf, At, Developing
<1>4. QED
  BY <1>1, <1>3, RunMoves DEF Raises, Ends, Goto, HoldoutInv, HoldoutShape, disk

LEMMA StartKeeps ==
  ASSUME HoldoutInv, NEW p \in Procs, UNCHANGED experiments,
         \/ \E id \in experiments : DevelopmentCheckpoint(p, id)
         \/ WriteManifest(p) \/ HoldoutClosed(p)
         \/ load_final(p) /\ final = None
  PROVE  HoldoutInv'
<1> USE DEF HoldoutShape, At, Goto, disk, local
<1>1. CASE \E id \in experiments : DevelopmentCheckpoint(p, id)
  <2> PICK id \in experiments : DevelopmentCheckpoint(p, id)
    BY <1>1
  <2>1. HoldoutShape'
    BY HoldoutAssumption DEF HoldoutInv, DevelopmentCheckpoint, Beginning
  <2>2. RunShape(p)' /\ \A e \in experiments : RunOf(e, p)'
    BY DEF HoldoutInv, RunShape, RunOf, Developing, DevelopmentCheckpoint
  <2>3. QED
    BY <2>1, <2>2, RunMoves DEF HoldoutInv, DevelopmentCheckpoint
<1>2. CASE WriteManifest(p)
  <2>1. HoldoutShape'
    BY <1>2 DEF HoldoutInv, RunShape, WriteManifest, Beginning
  <2>2. RunShape(p)' /\ \A e \in experiments : RunOf(e, p)'
    BY <1>2 DEF HoldoutInv, RunShape, RunOf, Developing, WriteManifest
  <2>3. QED
    BY <1>2, <2>1, <2>2, RunMoves DEF HoldoutInv, WriteManifest
<1>3. CASE HoldoutClosed(p)
  <2>1. HoldoutShape'
    BY <1>3, HoldoutAssumption DEF HoldoutInv, HoldoutClosed, Developing
  <2>2. pc'[p] = "developing" /\ index'[p] = 1 /\ eligible'[p] = {}
    BY <1>3 DEF HoldoutInv, RunShape, HoldoutClosed, Developing
  <2>3. RunShape(p)' /\ \A e \in experiments : RunOf(e, p)'
    BY <1>3, <2>2 DEF HoldoutInv, RunShape, RunOf, Developing, HoldoutClosed
  <2>4. QED
    BY <1>3, <2>1, <2>3, RunMoves DEF HoldoutInv, HoldoutClosed
<1>4. CASE load_final(p) /\ final = None
  <2>1. HoldoutShape'
    BY <1>4 DEF HoldoutInv, load_final, Beginning
  <2>2. RunShape(p)' /\ \A e \in experiments : RunOf(e, p)'
    BY <1>4 DEF HoldoutInv, RunShape, RunOf, Developing, load_final
  <2>3. QED
    BY <1>4, <2>1, <2>2, RunMoves DEF HoldoutInv, load_final
<1>5. QED
  BY <1>1, <1>2, <1>3, <1>4

\* A candidate is counted for what is gated so far.
LEMMA CountedShape ==
  ASSUME HoldoutInv, NEW p \in Procs, index[p] \in Candidates, pc[p] \in Developing,
         ~At(p, "testing"), Counted(p)
  PROVE  /\ index' \in [Procs -> 0 .. Last + 1] /\ eligible' \in [Procs -> SUBSET Candidates]
         /\ index'[p] = index[p] + 1
         /\ eligible'[p] = eligible[p] \cup ({index[p]} \cap Passes[identity[p]])
         /\ \A q \in Procs \ {p} : index'[q] = index[q] /\ eligible'[q] = eligible[q]
<1>1. identity[p] \in Identities
  BY DEF HoldoutInv, HoldoutShape, RunShape, At, Developing
<1>2. Passes[identity[p]] \subseteq Candidates
  BY <1>1, HoldoutAssumption
<1>3. index[p] + 1 \in 0 .. Last + 1
  BY HoldoutAssumption DEF Candidates
<1>4. QED
  BY <1>2, <1>3 DEF Counted, HoldoutInv, HoldoutShape

LEMMA CountedRun ==
  ASSUME HoldoutInv, NEW p \in Procs, index[p] \in Candidates, pc[p] \in Developing,
         ~At(p, "testing"), Counted(p), NEW e \in experiments, identity[p] = e, RunOf(e, p),
         candidate'[index[p]] = e, \A i \in Candidates \ {index[p]} : candidate'[i] = candidate[i]
  PROVE  RunOf(e, p)'
<1>1. index'[p] = index[p] + 1 /\ eligible'[p] = eligible[p] \cup ({index[p]} \cap Passes[e])
  BY CountedShape
<1>2. index[p] \in Nat /\ index[p] >= 1 /\ index[p] <= Last
  BY HoldoutAssumption DEF Candidates
<1>3. 1 .. (index'[p] - 1) = (1 .. (index[p] - 1)) \cup {index[p]}
  BY <1>1, <1>2
<1>4. \A i \in 1 .. (index[p] - 1) : candidate'[i] = e
  <2> TAKE i \in 1 .. (index[p] - 1)
  <2>1. i \in Candidates \ {index[p]}
    BY <1>2, HoldoutAssumption DEF Candidates
  <2>2. QED
    BY <2>1 DEF RunOf
<1>5. eligible'[p] = Passes[e] \cap 1 .. (index'[p] - 1)
  BY <1>1, <1>3 DEF RunOf
<1>6. QED
  BY <1>3, <1>4, <1>5 DEF RunOf

LEMMA LoadKeeps ==
  ASSUME HoldoutInv, NEW p \in Procs, UNCHANGED experiments, load_candidate(p)
  PROVE  HoldoutInv'
<1>1. /\ At(p, "developing") /\ index[p] \in Candidates /\ pc[p] \in Developing /\ ~At(p, "testing")
      /\ identity[p] \in experiments
  BY HoldoutAssumption DEF load_candidate, Measuring, HoldoutInv, HoldoutShape, RunShape, At,
                           Developing, Candidates
<1>2. Counted(p) /\ candidate[index[p]] = identity[p] /\ UNCHANGED <<disk, opened, pc, identity, reported, runs>>
  BY DEF load_candidate
<1>3. HoldoutShape'
  BY <1>1, <1>2, CountedShape DEF HoldoutInv, HoldoutShape, disk
<1>4. RunShape(p)'
  BY <1>1, <1>2, CountedShape DEF HoldoutInv, HoldoutShape, RunShape, At, Developing, Candidates
<1>5. ASSUME NEW e \in experiments, Alone PROVE RunOf(e, p)'
  <2>1. identity[p] = e /\ RunOf(e, p)
    BY <1>1, <1>5 DEF Alone, HoldoutInv, AloneInv
  <2>2. QED
    BY <1>1, <1>2, <2>1, CountedRun DEF disk
<1>6. QED
  BY <1>1, <1>2, <1>3, <1>4, <1>5, CountedShape, RunMoves DEF disk

LEMMA MeasureKeeps ==
  ASSUME HoldoutInv, NEW p \in Procs, UNCHANGED experiments, Measure(p) \/ SaveAllowed(p)
  PROVE  HoldoutInv'
<1> USE DEF HoldoutShape, At, Goto, disk, local
<1>1. /\ pc' = [pc EXCEPT ![p] = pc'[p]] /\ pc[p] \in Developing /\ pc'[p] \in {"measured", "saving"}
      /\ index[p] <= Last /\ UNCHANGED <<disk, opened, local, reported, runs>>
  BY DEF Measure, Measuring, SaveAllowed, HoldoutInv, RunShape, Developing
<1>2. HoldoutShape'
  BY <1>1 DEF HoldoutInv, Developing
<1>3. RunShape(p)' /\ \A e \in experiments : Alone => RunOf(e, p)'
  BY <1>1 DEF HoldoutInv, AloneInv, RunShape, RunOf, Developing
<1>4. QED
  BY <1>1, <1>2, <1>3, RunMoves DEF HoldoutInv

LEMMA SaveKeeps ==
  ASSUME HoldoutInv, NEW p \in Procs, UNCHANGED experiments, save_candidate(p)
  PROVE  HoldoutInv'
<1>1. /\ At(p, "saving") /\ index[p] \in Candidates /\ pc[p] \in Developing /\ ~At(p, "testing")
      /\ identity[p] \in experiments /\ identity[p] \in Identities
  BY HoldoutAssumption DEF save_candidate, HoldoutInv, HoldoutShape, RunShape, At, Developing, Candidates
<1>2. /\ Counted(p) /\ pc' = [pc EXCEPT ![p] = "developing"]
      /\ candidate' = [candidate EXCEPT ![index[p]] = identity[p]]
      /\ UNCHANGED <<manifest, holdout_started, final, opened, identity, reported, runs>>
  BY DEF save_candidate, Goto
<1>3. HoldoutShape'
  BY <1>1, <1>2, CountedShape DEF HoldoutInv, HoldoutShape, Developing
<1>4. ASSUME NEW q \in Procs PROVE RunShape(q)'
  <2>1. CASE q = p
    BY <1>1, <1>2, <2>1, CountedShape DEF HoldoutInv, HoldoutShape, RunShape, At, Developing, Candidates
  <2>2. CASE q # p
    BY <1>1, <1>2, <2>2, CountedShape DEF HoldoutInv, HoldoutShape, RunShape, At
  <2>3. QED
    BY <2>1, <2>2
<1>5. AloneInv'
  <2> SUFFICES ASSUME Alone', NEW e \in experiments', NEW q \in Procs
               PROVE  FilesOf(e)' /\ RunOf(e, q)'
    BY DEF AloneInv
  <2>1. Alone /\ e \in experiments /\ identity[p] = e
    BY <1>1 DEF Alone
  <2>2. FilesOf(e) /\ RunOf(e, q) /\ RunOf(e, p)
    BY <2>1 DEF HoldoutInv, AloneInv
  <2>3. \A i \in Candidates : candidate[i] = e => candidate'[i] = e
    BY <1>1, <1>2, <2>1 DEF HoldoutInv, HoldoutShape
  <2>4. FilesOf(e)'
    BY <1>2, <2>2, <2>3 DEF FilesOf
  <2>5. CASE q = p
    <3>1. candidate'[index[p]] = e /\ \A i \in Candidates \ {index[p]} : candidate'[i] = candidate[i]
      BY <1>1, <1>2, <2>1 DEF HoldoutInv, HoldoutShape
    <3>2. QED
      BY <1>1, <1>2, <2>1, <2>2, <2>4, <2>5, <3>1, CountedRun
  <2>6. CASE q # p
    <3>1. pc'[q] = pc[q] /\ index'[q] = index[q] /\ eligible'[q] = eligible[q]
      BY <1>1, <1>2, <2>6, CountedShape DEF HoldoutInv, HoldoutShape
    <3>2. \A i \in 1 .. (index[q] - 1) : i \in Candidates
      BY HoldoutAssumption DEF HoldoutInv, HoldoutShape, Candidates
    <3>3. QED
      BY <2>2, <2>3, <2>4, <3>1, <3>2 DEF RunOf
  <2>7. QED
    BY <2>5, <2>6
<1>6. QED
  BY <1>2, <1>3, <1>4, <1>5 DEF HoldoutInv

\* A run that ends and reports the outcome of its directory's experiment.
LEMMA ReportKeeps ==
  ASSUME HoldoutInv, NEW p \in Procs, UNCHANGED experiments, Ends(p), ~At(p, "down"),
         UNCHANGED <<manifest, candidate, holdout_started, opened, runs>>,
         NEW result, final' \in {final, result}, reported' \in {reported, reported \cup {result}},
         \A e \in experiments : Alone => result = Outcome(e)
  PROVE  HoldoutInv'
<1>1. HoldoutShape'
  <2>1. {} \in SUBSET Candidates /\ 0 \in 0 .. Last + 1
    BY HoldoutAssumption
  <2>2. QED
    BY <2>1 DEF Ends, Goto, HoldoutInv, HoldoutShape
<1>2. pc'[p] = "down" /\ eligible'[p] = {}
  BY DEF Ends, Goto, HoldoutInv, HoldoutShape
<1>3. \A q \in Procs \ {p} : pc'[q] = pc[q] /\ identity'[q] = identity[q]
                               /\ index'[q] = index[q] /\ eligible'[q] = eligible[q]
  BY DEF Ends, Goto, HoldoutInv, HoldoutShape
<1>4. ASSUME NEW q \in Procs PROVE RunShape(q)'
  <2>1. CASE q = p
    BY <1>2, <2>1 DEF RunShape, At, Developing
  <2>2. CASE q # p
    BY <1>3, <2>2 DEF HoldoutInv, RunShape, At
  <2>3. QED
    BY <2>1, <2>2
<1>5. experiments # {}
  BY DEF HoldoutInv, RunShape
<1>6. ASSUME Alone', NEW e \in experiments' PROVE FilesOf(e)' /\ \A q \in Procs : RunOf(e, q)'
  <2>1. Alone /\ e \in experiments
    BY <1>6 DEF Alone
  <2>2. result = Outcome(e) /\ FilesOf(e) /\ \A q \in Procs : RunOf(e, q)
    BY <2>1 DEF HoldoutInv, AloneInv
  <2>3. FilesOf(e)'
    BY <2>2 DEF FilesOf, Outcome
  <2>4. ASSUME NEW q \in Procs PROVE RunOf(e, q)'
    <3>1. CASE q = p
      BY <1>2, <3>1 DEF RunOf, Developing
    <3>2. CASE q # p
      BY <1>3, <2>2, <3>2 DEF RunOf
    <3>3. QED
      BY <3>1, <3>2
  <2>5. QED
    BY <2>3, <2>4
<1>7. QED
  BY <1>1, <1>4, <1>5, <1>6 DEF HoldoutInv, AloneInv

\* A run that has gated every candidate has the candidates that pass.
LEMMA AllGated ==
  ASSUME HoldoutInv, NEW p \in Procs, pc[p] \in Developing, index[p] > Last,
         NEW e \in experiments, Alone
  PROVE  /\ identity[p] = e /\ eligible[p] = Passes[e]
         /\ \A i \in Candidates : candidate[i] = e
<1>1. identity[p] = e /\ RunOf(e, p)
  BY DEF HoldoutInv, AloneInv, RunShape, At, Developing, Alone
<1>2. 1 .. (index[p] - 1) = Candidates
  BY HoldoutAssumption DEF HoldoutInv, HoldoutShape, Candidates
<1>3. Passes[e] \subseteq Candidates
  BY HoldoutAssumption DEF HoldoutInv, HoldoutShape
<1>4. QED
  BY <1>1, <1>2, <1>3 DEF RunOf

LEMMA FinalKeeps ==
  ASSUME HoldoutInv, NEW p \in Procs, UNCHANGED experiments,
         (load_final(p) /\ final # None) \/ NoCandidate(p) \/ SaveResult(p)
  PROVE  HoldoutInv'
<1>1. CASE load_final(p) /\ final # None
  <2>1. \A e \in experiments : Alone => final = Outcome(e)
    BY <1>1 DEF HoldoutInv, AloneInv, FilesOf
  <2>2. QED
    BY <1>1, <2>1, ReportKeeps DEF load_final, At, disk
<1>2. CASE NoCandidate(p)
  <2>1. pc[p] \in Developing /\ index[p] > Last /\ eligible[p] = {} /\ save_final(p, None) /\ ~At(p, "down")
    BY <1>2 DEF NoCandidate, Developed, At, Developing
  <2>2. \A e \in experiments : Alone => Result(p, None) = Outcome(e)
    BY <2>1, AllGated DEF Result, Outcome
  <2>3. QED
    BY <2>1, <2>2, ReportKeeps DEF save_final
<1>3. CASE SaveResult(p)
  <2>1. /\ pc[p] \in Developing /\ index[p] > Last /\ eligible[p] # {} /\ ~At(p, "down")
        /\ save_final(p, Max(eligible[p]))
    BY <1>3 DEF SaveResult, Selected, At, Developing, HoldoutInv, RunShape
  <2>2. \A e \in experiments : Alone => Result(p, Max(eligible[p])) = Outcome(e)
    BY <2>1, AllGated DEF Result, Outcome
  <2>3. QED
    BY <2>1, <2>2, ReportKeeps DEF save_final
<1>4. QED
  BY <1>1, <1>2, <1>3

LEMMA BeginKeeps ==
  ASSUME HoldoutInv, NEW p \in Procs, UNCHANGED experiments, begin_holdout(p)
  PROVE  HoldoutInv'
<1>1. /\ pc[p] \in Developing /\ index[p] > Last /\ eligible[p] # {} /\ ~At(p, "down")
      /\ ~holdout_started /\ holdout_started' = TRUE /\ opened' = opened + 1
      /\ pc' = [pc EXCEPT ![p] = "testing"]
      /\ UNCHANGED <<manifest, candidate, final, identity, index, eligible, reported, runs>>
  BY DEF begin_holdout, Developed, At, Goto, Developing, local
<1>2. HoldoutShape'
  BY <1>1 DEF HoldoutInv, HoldoutShape, Developing
<1>3. ASSUME NEW q \in Procs PROVE RunShape(q)'
  BY <1>1 DEF HoldoutInv, HoldoutShape, RunShape, At, Developing
<1>4. ASSUME Alone', NEW e \in experiments' PROVE FilesOf(e)' /\ \A q \in Procs : RunOf(e, q)'
  <2>1. Alone /\ e \in experiments
    BY <1>4 DEF Alone
  <2>2. FilesOf(e) /\ \A q \in Procs : RunOf(e, q)
    BY <2>1 DEF HoldoutInv, AloneInv
  <2>3. \A i \in Candidates : candidate[i] = e
    BY <1>1, <2>1, AllGated
  <2>4. FilesOf(e)'
    BY <1>1, <2>2, <2>3 DEF FilesOf, Outcome
  <2>5. ASSUME NEW q \in Procs PROVE RunOf(e, q)'
    BY <1>1, <2>2 DEF HoldoutInv, HoldoutShape, RunOf, Developing
  <2>6. QED
    BY <2>4, <2>5
<1>5. QED
  BY <1>1, <1>2, <1>3, <1>4 DEF HoldoutInv, AloneInv

LEMMA HoldoutKept == HoldoutInv /\ [HoldoutNext]_holdout_vars => HoldoutInv'
<1> SUFFICES ASSUME HoldoutInv, [HoldoutNext]_holdout_vars PROVE HoldoutInv'
  OBVIOUS
<1>1. ASSUME NEW p \in Procs, UNCHANGED experiments,
             RunStep(p) \/ Crash(p) \/ \E id \in experiments : DevelopmentCheckpoint(p, id)
      PROVE  HoldoutInv'
  <2>1. CASE Raises(p)
    BY <1>1, <2>1, RunEnds
  <2>2. CASE \/ \E id \in experiments : DevelopmentCheckpoint(p, id)
             \/ WriteManifest(p) \/ HoldoutClosed(p)
    BY <1>1, <2>2, StartKeeps
  <2>3. CASE load_final(p)
    BY <1>1, <2>3, StartKeeps, FinalKeeps
  <2>4. CASE load_candidate(p)
    BY <1>1, <2>4, LoadKeeps
  <2>5. CASE Measure(p) \/ SaveAllowed(p)
    BY <1>1, <2>5, MeasureKeeps
  <2>6. CASE save_candidate(p)
    BY <1>1, <2>6, SaveKeeps
  <2>7. CASE NoCandidate(p) \/ SaveResult(p)
    BY <1>1, <2>7, FinalKeeps
  <2>8. CASE begin_holdout(p)
    BY <1>1, <2>8, BeginKeeps
  <2>9. QED
    BY <1>1, <2>1, <2>2, <2>3, <2>4, <2>5, <2>6, <2>7, <2>8
       DEF RunStep, Crash, ReplayRefused, CorruptCandidate, SaveRefused, HoldoutTaken
<1>2. CASE UNCHANGED holdout_vars
  BY <1>2 DEF holdout_vars, disk, local, HoldoutInv, HoldoutShape, RunShape, AloneInv, Alone,
              FilesOf, RunOf, At
<1>3. QED
  BY <1>1, <1>2 DEF HoldoutNext

\* What the invariant says of a directory: one measurement, one result, of all candidates.
LEMMA HoldoutSound ==
  ASSUME HoldoutInv
  PROVE  HoldoutTypeOK /\ HoldoutOnce /\ (Alone => OneResult /\ SelectedFromAll)
<1>1. HoldoutTypeOK
  BY HoldoutAssumption DEF HoldoutInv, HoldoutShape, HoldoutTypeOK
<1>2. HoldoutOnce
  BY DEF HoldoutInv, HoldoutShape, HoldoutOnce
<1>3. ASSUME Alone PROVE OneResult
  <2>1. CASE reported = {}
    BY <2>1, FS_EmptySet DEF OneResult
  <2>2. CASE reported # {}
    <3>1. PICK e \in experiments : reported \subseteq {Outcome(e)}
      BY <1>3, <2>2 DEF HoldoutInv, AloneInv, FilesOf
    <3>2. reported = {Outcome(e)}
      BY <2>2, <3>1
    <3>3. QED
      BY <3>2, FS_Singleton DEF OneResult
  <2>3. QED
    BY <2>1, <2>2
<1>4. ASSUME Alone PROVE SelectedFromAll
  <2> SUFFICES ASSUME NEW p \in Procs, At(p, "testing")
               PROVE  /\ Selected(p) = Max(Passes[identity[p]])
                      /\ \A i \in Candidates : candidate[i] = identity[p]
    BY DEF SelectedFromAll
  <2>1. pc[p] \in Developing /\ index[p] > Last /\ identity[p] \in experiments
    BY DEF HoldoutInv, RunShape, At, Developing
  <2>2. QED
    BY <1>4, <2>1, AllGated DEF Selected
<1>5. QED
  BY <1>1, <1>2, <1>3, <1>4

\* Only save_candidate writes a candidate, and what it overwrites is what it writes.
LEMMA HoldoutCloses == HoldoutInv /\ [HoldoutNext]_holdout_vars => [Alone => Closed]_holdout_vars
<1> SUFFICES ASSUME HoldoutInv, HoldoutNext, Alone, holdout_started
             PROVE  candidate' = candidate
  BY DEF Closed
<1>1. PICK p \in Procs : RunStep(p) \/ Crash(p) \/ \E id \in experiments : DevelopmentCheckpoint(p, id)
  BY DEF HoldoutNext
<1>2. CASE save_candidate(p)
  <2>1. index[p] \in Candidates /\ identity[p] \in experiments
    BY <1>2, HoldoutAssumption
       DEF save_candidate, HoldoutInv, HoldoutShape, RunShape, At, Developing, Candidates
  <2>2. candidate[index[p]] = identity[p]
    BY <2>1 DEF HoldoutInv, AloneInv, FilesOf
  <2>3. candidate' = [candidate EXCEPT ![index[p]] = candidate[index[p]]]
    BY <1>2, <2>2 DEF save_candidate
  <2>4. QED
    BY <2>3 DEF HoldoutInv, HoldoutShape
<1>3. CASE ~save_candidate(p)
  BY <1>1, <1>3
     DEF RunStep, Crash, ReplayRefused, CorruptCandidate, SaveRefused, HoldoutTaken, Raises,
         DevelopmentCheckpoint, WriteManifest, load_final, HoldoutClosed, load_candidate, Measure,
         SaveAllowed, NoCandidate, SaveResult, save_final, begin_holdout, disk
<1>4. QED
  BY <1>2, <1>3

\* Whatever the runs, their order and their crashes: a directory's holdout is measured at
\* most once; where it is of one experiment, it is measured for the best of all candidates,
\* what is on file of them is never any other after it began, and every run reports the one
\* result of that experiment
\* (DevelopmentCheckpoint, evaluate_untouched_holdout, learn_validate_holdout).
THEOREM HoldoutMeasuredOnce == HoldoutSpec => MeasuredOnce
<1>1. HoldoutSpec => []HoldoutInv
  BY HoldoutInvInit, HoldoutKept, PTL DEF HoldoutSpec
<1>2. HoldoutInv => HoldoutTypeOK /\ HoldoutOnce /\ (Alone => OneResult /\ SelectedFromAll)
  BY HoldoutSound
<1>3. QED
  BY <1>1, <1>2, HoldoutCloses, PTL DEF HoldoutSpec, MeasuredOnce

(***************************************************************************)
(* The replay of a history.                                                *)
(***************************************************************************)
Deals == [at : Nat, settles : Nat, cost : Nat, payout : Nat]

ReplayShape ==
  /\ policy \in Policies /\ time \in Nat /\ ended \in BOOLEAN
  /\ current # None => current \in HistoricalRow /\ current.decision_at = time /\ ~ended
  /\ purse \in Int /\ reserved \in Int /\ peak \in Int /\ drawdown \in Int
  /\ deals \in Seq(Deals) /\ settled \in Seq(DOMAIN deals) /\ active \subseteq DOMAIN deals

\* Each trade is open or was released once.
Placed ==
  /\ \A i \in DOMAIN deals : i \in active <=> \A n \in DOMAIN settled : settled[n] # i
  /\ \A m, n \in DOMAIN settled : m < n => settled[m] # settled[n]

\* What was released settled before what is still open.
KnownFirst ==
  /\ \A n \in DOMAIN settled : ended \/ deals[settled[n]].settles <= time
  /\ current = None /\ ~ended => \A i \in active : deals[i].settles > time
  /\ \A m, n \in DOMAIN settled : m < n => deals[settled[m]].settles <= deals[settled[n]].settles
  /\ \A n \in DOMAIN settled, i \in active : deals[settled[n]].settles <= deals[i].settles

OpenCosts == [i \in active |-> deals[i].cost]
OpenPayouts == [i \in active |-> deals[i].payout]

Accounted ==
  /\ purse = policy.capital - Whole(Costs) + Whole(ReleasedPayouts)
  /\ reserved = Whole(Costs) - Whole(ReleasedCosts)
  /\ reserved = Total(OpenCosts)
  /\ Whole(Payouts) - Whole(ReleasedPayouts) = Total(OpenPayouts)
  /\ purse >= 0 /\ (Evaluates => reserved <= policy.maxLocked)

\* The highest of the first values of a curve, and the largest fall among them.
HighWater(curve, n, top, drop) ==
  /\ \E m \in 0 .. n : top = curve[m]
  /\ \A m \in 0 .. n : curve[m] <= top
  /\ \E l, m \in 0 .. n : l <= m /\ drop = curve[l] - curve[m]
  /\ \A l, m \in 0 .. n : l <= m => curve[l] - curve[m] <= drop

PeakTrue == Evaluates => HighWater(ResultAfter, Len(settled), peak, drawdown)

ReplayInv == ReplayShape /\ Placed /\ KnownFirst /\ Accounted /\ PeakTrue

\* A quotient of any number.
LEMMA DivBelow ==
  ASSUME NEW n \in Int, NEW d \in Nat \ {0}
  PROVE  n \div d \in Int /\ (n \div d) * d <= n
OBVIOUS

LEMMA GreatestOfTwo ==
  ASSUME NEW x \in Int, NEW y \in Int
  PROVE  Max({x, y}) \in {x, y} /\ x <= Max({x, y}) /\ y <= Max({x, y})
<1>1. \E m \in {x, y} : \A k \in {x, y} : k <= m
  BY x <= y \/ y <= x
<1>2. QED
  BY <1>1 DEF Max

LEMMA HighWaterFirst ==
  ASSUME NEW curve, curve[0] \in Int
  PROVE  HighWater(curve, 0, curve[0], 0)
<1>1. \A m \in 0 .. 0 : m = 0
  OBVIOUS
<1>2. QED
  BY <1>1 DEF HighWater

\* One value more: the peak and the fall that the code keeps are those of the longer curve.
LEMMA HighWaterNext ==
  ASSUME NEW n \in Nat, NEW old, NEW curve, \A m \in 0 .. n : curve[m] = old[m] /\ curve[m] \in Int,
         curve[n + 1] \in Int, NEW top \in Int, NEW drop \in Int, HighWater(old, n, top, drop),
         NEW top2, top2 = Max({top, curve[n + 1]}), NEW drop2, drop2 = Max({drop, top2 - curve[n + 1]})
  PROVE  HighWater(curve, n + 1, top2, drop2) /\ top2 \in Int /\ drop2 \in Int
<1> DEFINE e == curve[n + 1]
<1>1. 0 .. n + 1 = (0 .. n) \cup {n + 1} /\ e \in Int
  OBVIOUS
<1>2. top2 \in {top, e} /\ top <= top2 /\ e <= top2 /\ top2 \in Int
  BY <1>1, GreatestOfTwo
<1>3. top2 - e \in Int
  BY <1>1, <1>2
<1>4. drop2 \in {drop, top2 - e} /\ drop <= drop2 /\ top2 - e <= drop2 /\ drop2 \in Int
  BY <1>3, GreatestOfTwo
<1>5. /\ \E m \in 0 .. n : top = curve[m]
      /\ \A m \in 0 .. n : curve[m] <= top
      /\ \E l, m \in 0 .. n : l <= m /\ drop = curve[l] - curve[m]
      /\ \A l, m \in 0 .. n : l <= m => curve[l] - curve[m] <= drop
  BY DEF HighWater
<1>6. PICK m \in 0 .. n + 1 : top2 = curve[m]
  BY <1>1, <1>2, <1>5
<1>7. ASSUME NEW k \in 0 .. n + 1 PROVE curve[k] <= top2 /\ curve[k] \in Int
  BY <1>1, <1>2, <1>5
<1>8. \E k, l \in 0 .. n + 1 : k <= l /\ drop2 = curve[k] - curve[l]
  <2>1. CASE drop2 = drop
    BY <1>1, <1>5, <2>1
  <2>2. CASE drop2 = top2 - e
    <3>1. m <= n + 1 /\ n + 1 \in 0 .. n + 1 /\ drop2 = curve[m] - curve[n + 1]
      BY <1>6, <2>2
    <3>2. QED
      BY <3>1
  <2>3. QED
    BY <1>4, <2>1, <2>2
<1>9. ASSUME NEW k \in 0 .. n + 1, NEW l \in 0 .. n + 1, k <= l PROVE curve[k] - curve[l] <= drop2
  <2>1. CASE l \in 0 .. n
    <3>1. k \in 0 .. n
      BY <1>9, <2>1
    <3>2. curve[k] - curve[l] <= drop /\ curve[k] \in Int /\ curve[l] \in Int
      BY <1>5, <1>9, <2>1, <3>1
    <3>3. QED
      BY <1>4, <3>2
  <2>2. CASE l = n + 1
    BY <1>1, <1>2, <1>4, <1>7, <2>2
  <2>3. QED
    BY <1>1, <2>1, <2>2
<1>10. QED
  BY <1>2, <1>4, <1>6, <1>7, <1>8, <1>9 DEF HighWater

LEMMA PolicyTyped ==
  ASSUME ReplayShape
  PROVE  /\ policy.rule \in {"favorite", "underdog", "fixed", "kelly"}
         /\ policy.capital \in Nat /\ policy.risk \in Nat /\ policy.maxLocked \in Nat
         /\ policy.slippage \in Nat /\ policy.minimum \in Nat
         /\ policy.prices \subseteq (1 .. 9) \X (1 .. 9) /\ policy.chances \subseteq 0 .. 10
         /\ policy.times \subseteq Nat /\ policy.delays \subseteq Nat \ {0}
BY PolicyAssumption DEF ReplayShape

\* A price that can be bought at has a positive cost.
LEMMA UnitPositive ==
  ASSUME NEW entry \in 1 .. 9
  PROVE  UnitCost(entry) \in Nat \ {0}
BY DEF UnitCost

\* What a side that is chosen costs and may win.
IsSide(c) == c.unit \in Nat \ {0} /\ c.wins \in 0 .. 1 /\ c.chance \in Int

LEMMA ChoiceTyped ==
  ASSUME ReplayShape, current # None, NEW c \in Choice(current)
  PROVE  IsSide(c) /\ (~ Evaluates => c.unit < 1000)
<1> DEFINE r == current
<1>1. /\ r.price[1] \in 1 .. 9 /\ r.price[2] \in 1 .. 9 /\ r.up \in 0 .. 10 /\ r.outcome \in 0 .. 1
      /\ policy.slippage \in Nat
  BY PolicyTyped DEF ReplayShape, HistoricalRow, RowsOf
<1> HIDE DEF r
<1>2. ASSUME NEW price \in 1 .. 9, NEW chance \in Int, NEW wins \in 0 .. 1, price + policy.slippage < 10,
             c = Side(price, chance, wins)
      PROVE  IsSide(c)
  <2>1. price + policy.slippage \in 1 .. 9
    BY <1>1, <1>2
  <2>2. QED
    BY <1>2, <2>1, UnitPositive DEF Side, IsSide
<1>3. CASE Evaluates
  <2>1. c \in hypothesis_side(r)
    BY <1>3 DEF Choice, r
  <2>2. PICK price \in {r.price[1], r.price[2]}, wins \in {r.outcome, 1 - r.outcome} :
           c = Side(price, 0, wins) /\ price + policy.slippage < 10
    BY <2>1 DEF hypothesis_side
  <2>3. price \in 1 .. 9 /\ wins \in 0 .. 1 /\ 0 \in Int
    BY <1>1, <2>2
  <2>4. QED
    BY <1>2, <1>3, <2>2, <2>3
<1>4. CASE ~ Evaluates
  <2>1. c \in Profitable(r)
    BY <1>4 DEF Choice, BestSide, r
  <2>2. c \in BothSides(r) /\ c.price + policy.slippage < 10 /\ c.unit < 1000
    BY <2>1 DEF Profitable
  <2>3. PICK price \in 1 .. 9, chance \in Int, wins \in 0 .. 1 : c = Side(price, chance, wins)
    <3>1. CASE c = Side(r.price[1], r.up, r.outcome)
      BY <1>1, <3>1
    <3>2. CASE c = Side(r.price[2], 10 - r.up, 1 - r.outcome)
      <4>1. 10 - r.up \in Int /\ 1 - r.outcome \in 0 .. 1
        BY <1>1
      <4>2. QED
        BY <1>1, <3>2, <4>1
    <3>3. QED
      BY <2>2, <3>1, <3>2 DEF BothSides
  <2>4. price + policy.slippage < 10
    BY <2>2, <2>3 DEF Side
  <2>5. QED
    BY <1>2, <1>4, <2>2, <2>3, <2>4
<1>5. QED
  BY <1>3, <1>4

\* No order costs more than the cash, or in evaluate than the limit leaves.
LEMMA LotsAfford ==
  ASSUME ReplayShape, purse >= 0, NEW c, IsSide(c), ~ Evaluates => c.unit < 1000
  PROVE  /\ Lots(c) \in Int /\ Lots(c) * c.unit \in Int /\ Lots(c) * c.unit <= purse
         /\ Evaluates => Lots(c) * c.unit <= policy.maxLocked - reserved
<1> DEFINE u == c.unit
<1>1. u \in Nat \ {0} /\ c.chance \in Int /\ purse \in Int /\ reserved \in Int /\ policy.risk \in Nat
      /\ policy.maxLocked \in Nat
  BY PolicyTyped DEF IsSide, ReplayShape
<1>2. CASE Evaluates
  <2> DEFINE m == Min({policy.risk, purse, policy.maxLocked - reserved})
  <2>1. m \in Int /\ m <= purse /\ m <= policy.maxLocked - reserved
    <3>1. \A x, y, z \in Int : \E k \in {x, y, z} : \A j \in {x, y, z} : k <= j
      <4> TAKE x, y, z \in Int
      <4>1. QED
        BY (x <= y \/ y <= x) /\ (x <= z \/ z <= x) /\ (y <= z \/ z <= y)
    <3>2. policy.risk \in Int /\ policy.maxLocked - reserved \in Int
      BY <1>1
    <3>3. \E k \in {policy.risk, purse, policy.maxLocked - reserved} :
             \A j \in {policy.risk, purse, policy.maxLocked - reserved} : k <= j
      BY <1>1, <3>1, <3>2
    <3>4. QED
      BY <1>1, <3>2, <3>3 DEF Min
  <2>2. Lots(c) = m \div u
    BY <1>2 DEF Lots
  <2> HIDE DEF m, u
  <2>3. m \div u \in Int /\ (m \div u) * u <= m
    BY <1>1, <2>1, DivBelow
  <2>4. (m \div u) * u \in Int
    BY <1>1, <2>3
  <2>5. QED
    BY <1>1, <2>1, <2>2, <2>3, <2>4 DEF u
<1>3. CASE ~ Evaluates /\ budget(TRUE, c) > purse
  <2>1. Lots(c) = 0
    BY <1>3 DEF Lots
  <2>2. QED
    BY <1>1, <1>3, <2>1
<1>4. CASE ~ Evaluates /\ ~ (budget(TRUE, c) > purse)
  <2> DEFINE b == budget(FALSE, c)
  <2>1. b \in Int
    <3>1. CASE policy.rule = "fixed"
      BY <1>1, <3>1 DEF budget
    <3>2. CASE policy.rule # "fixed"
      <4> DEFINE g == Max({0, c.chance - u})
                 x == Rounded(FALSE, purse + reserved, 10)
                 y == Rounded(FALSE, (purse + reserved) * g, 4 * (1000 - u))
      <4>1. g \in Int
        <5>1. c.chance - u \in Int /\ 0 \in Int
          BY <1>1
        <5>2. QED
          BY <5>1, GreatestOfTwo
      <4> HIDE DEF g
      <4>2. x \in Int
        BY <1>1, DivBelow DEF Rounded
      <4>3. 4 * (1000 - u) \in Nat \ {0} /\ (purse + reserved) * g \in Int
        BY <1>1, <1>4, <4>1
      <4>4. y \in Int
        BY <4>3, DivBelow DEF Rounded
      <4>5. b = Min({policy.risk, x, y})
        BY <3>2 DEF budget, g
      <4> HIDE DEF x, y
      <4>6. \E k \in {policy.risk, x, y} : \A j \in {policy.risk, x, y} : k <= j
        BY <1>1, <4>2, <4>4, (policy.risk <= x \/ x <= policy.risk) /\ (policy.risk <= y \/ y <= policy.risk) /\ (x <= y \/ y <= x)
      <4>7. Min({policy.risk, x, y}) \in Int
        BY <1>1, <4>2, <4>4, <4>6 DEF Min
      <4> HIDE DEF b
      <4>8. QED
        BY <4>5, <4>7
    <3>3. QED
      BY <3>1, <3>2
  <2>2. Lots(c) = Min({purse, b}) \div u
    BY <1>4 DEF Lots
  <2> DEFINE m == Min({purse, b})
  <2> HIDE DEF b
  <2>3. m \in Int /\ m <= purse
    BY <1>1, <2>1, LeastOfTwo
  <2> HIDE DEF m, u
  <2>4. m \div u \in Int /\ (m \div u) * u <= m
    BY <1>1, <2>3, DivBelow
  <2>5. (m \div u) * u \in Int
    BY <1>1, <2>4
  <2>6. QED
    BY <1>1, <1>4, <2>2, <2>3, <2>4, <2>5 DEF u, m
<1>5. QED
  BY <1>2, <1>3, <1>4

\* The four sequences of amounts.
AmountsAre ==
         /\ Costs \in Seq(Int) /\ Payouts \in Seq(Int) /\ Len(Costs) = Len(deals) /\ Len(Payouts) = Len(deals)
         /\ ReleasedCosts \in Seq(Int) /\ ReleasedPayouts \in Seq(Int)
         /\ Len(ReleasedCosts) = Len(settled) /\ Len(ReleasedPayouts) = Len(settled)
         /\ Len(deals) \in Nat /\ DOMAIN deals = 1 .. Len(deals)
         /\ Len(settled) \in Nat /\ DOMAIN settled = 1 .. Len(settled)
         /\ \A i \in DOMAIN deals : deals[i] \in Deals
         /\ \A n \in DOMAIN settled : settled[n] \in DOMAIN deals

LEMMA AmountsTyped == ReplayShape => AmountsAre
<1> SUFFICES ASSUME ReplayShape PROVE AmountsAre
  OBVIOUS
<1>1. /\ Len(deals) \in Nat /\ DOMAIN deals = 1 .. Len(deals)
      /\ Len(settled) \in Nat /\ DOMAIN settled = 1 .. Len(settled)
      /\ \A i \in DOMAIN deals : deals[i] \in Deals
      /\ \A n \in DOMAIN settled : settled[n] \in DOMAIN deals
  BY DEF ReplayShape
<1>2. /\ \A i \in 1 .. Len(deals) : deals[i].cost \in Int /\ deals[i].payout \in Int
      /\ \A n \in 1 .. Len(settled) : deals[settled[n]].cost \in Int /\ deals[settled[n]].payout \in Int
  BY <1>1 DEF Deals
<1>3. /\ Costs \in [1 .. Len(deals) -> Int] /\ Payouts \in [1 .. Len(deals) -> Int]
      /\ ReleasedCosts \in [1 .. Len(settled) -> Int] /\ ReleasedPayouts \in [1 .. Len(settled) -> Int]
  BY <1>1, <1>2 DEF Costs, Payouts, ReleasedCosts, ReleasedPayouts
<1>4. /\ \A s \in [1 .. Len(deals) -> Int] : s \in Seq(Int) /\ Len(s) = Len(deals)
      /\ \A s \in [1 .. Len(settled) -> Int] : s \in Seq(Int) /\ Len(s) = Len(settled)
  BY <1>1
<1>5. QED
  BY <1>1, <1>3, <1>4 DEF AmountsAre

ActiveIs ==
         /\ IsFiniteSet(active) /\ OpenCosts \in [active -> Nat] /\ OpenPayouts \in [active -> Nat]
         /\ Total(OpenCosts) \in Nat /\ Total(OpenPayouts) \in Nat

LEMMA ActiveFinite == ReplayShape => ActiveIs
<1> SUFFICES ASSUME ReplayShape PROVE ActiveIs
  OBVIOUS
<1>0. AmountsAre
  BY AmountsTyped
<1>1. active \subseteq 1 .. Len(deals) /\ Len(deals) \in Nat
  BY <1>0 DEF AmountsAre, ReplayShape
<1>2. IsFiniteSet(active)
  <2>1. IsFiniteSet(1 .. Len(deals))
    BY <1>1, FS_Interval
  <2>2. QED
    BY <1>1, <2>1, FS_Subset
<1>3. OpenCosts \in [active -> Nat] /\ OpenPayouts \in [active -> Nat]
  BY <1>0 DEF AmountsAre, OpenCosts, OpenPayouts, Deals, ReplayShape
<1>4. QED
  BY <1>2, <1>3, TotalTyped DEF ActiveIs

LEMMA InitReplay == ReplayInit => ReplayInv
<1> SUFFICES ASSUME ReplayInit PROVE ReplayInv
  OBVIOUS
<1>1. policy \in Policies /\ policy.capital \in Nat /\ policy.maxLocked \in Nat
  BY PolicyAssumption DEF ReplayInit
<1>2. ReplayShape
  <2>1. deals \in Seq(Deals) /\ settled \in Seq(DOMAIN deals) /\ active \subseteq DOMAIN deals
    BY DEF ReplayInit
  <2>2. policy.capital \in Int /\ 0 \in Int /\ 0 \in Nat /\ FALSE \in BOOLEAN
    BY <1>1
  <2>3. QED
    BY <1>1, <2>1, <2>2 DEF ReplayInit, ReplayShape
<1>3. deals = <<>> /\ settled = <<>> /\ active = {} /\ DOMAIN deals = {} /\ DOMAIN settled = {} /\ Len(settled) = 0
  BY DEF ReplayInit
<1>4. Placed /\ KnownFirst
  BY <1>3 DEF Placed, KnownFirst
<1>5. /\ Costs = <<>> /\ Payouts = <<>> /\ ReleasedCosts = <<>> /\ ReleasedPayouts = <<>>
      /\ Whole(<<>>) = 0 /\ Sums(<<>>)[0] = 0
  <2>1. /\ Costs = <<>> /\ Payouts = <<>> /\ ReleasedCosts = <<>> /\ ReleasedPayouts = <<>>
    BY <1>3 DEF Costs, Payouts, ReleasedCosts, ReleasedPayouts
  <2>2. <<>> \in Seq(Int) /\ Len(<<>>) = 0
    OBVIOUS
  <2>3. Sums(<<>>)[0] = 0
    BY <2>2, SumsAre
  <2>4. QED
    BY <2>1, <2>2, <2>3 DEF Whole
<1>6. Total(OpenCosts) = 0 /\ Total(OpenPayouts) = 0
  <2>1. OpenCosts = [i \in {} |-> 0] /\ OpenPayouts = [i \in {} |-> 0]
    BY <1>3 DEF OpenCosts, OpenPayouts
  <2>2. QED
    BY <2>1, TotalZero, FS_EmptySet
<1>7. Accounted
  BY <1>1, <1>5, <1>6 DEF Accounted, ReplayInit
<1>8. PeakTrue
  <2>1. ResultAfter[0] = policy.capital /\ policy.capital \in Int
    BY <1>1, <1>3, <1>5 DEF ResultAfter
  <2>2. HighWater(ResultAfter, 0, policy.capital, 0)
    BY <2>1, HighWaterFirst
  <2>3. QED
    BY <1>3, <2>2 DEF PeakTrue, ReplayInit
<1>9. QED
  BY <1>2, <1>4, <1>7, <1>8 DEF ReplayInv

\* A trade that is released.
LEMMA ReleaseKeeps == ReplayInv /\ Release => ReplayInv'
<1> SUFFICES ASSUME ReplayInv, Release PROVE ReplayInv'
  OBVIOUS
<1> USE DEF ReplayInv
<1>0. AmountsAre /\ ActiveIs
  BY AmountsTyped, ActiveFinite
<1>1. PICK i \in Due :
        /\ Earliest(i) /\ purse' = purse + deals[i].payout /\ reserved' = reserved - deals[i].cost
        /\ active' = active \ {i} /\ settled' = Append(settled, i)
        /\ IF Evaluates
           THEN /\ peak' = Max({peak, purse' + reserved'})
                /\ drawdown' = Max({drawdown, peak' - (purse' + reserved')})
           ELSE UNCHANGED <<peak, drawdown>>
  BY DEF Release
<1>2. UNCHANGED <<policy, time, observed, current, deals, ended>>
  BY DEF Release
<1>3. i \in active /\ i \in DOMAIN deals /\ (ended \/ deals[i].settles <= time) /\ deals[i] \in Deals
  BY <1>0 DEF AmountsAre, Due, ReplayShape
<1>4. deals[i].cost \in Nat /\ deals[i].payout \in Nat /\ deals[i].settles \in Nat
  BY <1>3 DEF Deals
<1> DEFINE n == Len(settled)
<1>5. /\ n \in Nat /\ DOMAIN settled = 1 .. n /\ Len(settled') = n + 1 /\ DOMAIN settled' = 1 .. n + 1
      /\ settled' \in Seq(DOMAIN deals) /\ settled'[n + 1] = i /\ \A k \in 1 .. n : settled'[k] = settled[k]
      /\ \A k \in 1 .. n : settled[k] \in DOMAIN deals
  <2>1. settled \in Seq(DOMAIN deals) /\ i \in DOMAIN deals
    BY <1>3 DEF ReplayShape
  <2>2. settled' = Append(settled, i)
    BY <1>1
  <2> DEFINE d == DOMAIN deals
             s == settled'
  <2> HIDE DEF d, s
  <2>3. settled \in Seq(d) /\ i \in d /\ s = Append(settled, i)
    BY <2>1, <2>2 DEF d, s
  <2>4. /\ n \in Nat /\ DOMAIN settled = 1 .. n /\ Len(s) = n + 1 /\ DOMAIN s = 1 .. n + 1
        /\ s \in Seq(d) /\ s[n + 1] = i /\ (\A k \in 1 .. n : s[k] = settled[k])
        /\ \A k \in 1 .. n : settled[k] \in d
    BY <2>3
  <2>5. QED
    BY <2>4 DEF d, s
<1> HIDE DEF n
<1>6. \A k \in 1 .. n + 1 : k \in 1 .. n \/ k = n + 1
  BY <1>5
<1>7. Evaluates' = Evaluates
  BY <1>2 DEF Evaluates
<1>8. peak' \in Int /\ drawdown' \in Int /\ purse' \in Int /\ reserved' \in Int
      /\ (Evaluates => /\ peak <= peak' /\ purse' + reserved' <= peak' /\ peak' \in {peak, purse' + reserved'}
                       /\ drawdown <= drawdown' /\ peak' - (purse' + reserved') <= drawdown'
                       /\ drawdown' \in {drawdown, peak' - (purse' + reserved')})
  <2>1. purse \in Int /\ reserved \in Int /\ peak \in Int /\ drawdown \in Int
    BY DEF ReplayShape
  <2>2. purse' \in Int /\ reserved' \in Int /\ purse' + reserved' \in Int
    BY <1>1, <1>4, <2>1
  <2>3. CASE Evaluates
    <3>1. peak' = Max({peak, purse' + reserved'}) /\ drawdown' = Max({drawdown, peak' - (purse' + reserved')})
      BY <1>1, <2>3
    <3>2. peak' \in {peak, purse' + reserved'} /\ peak <= peak' /\ purse' + reserved' <= peak' /\ peak' \in Int
      BY <2>1, <2>2, <3>1, GreatestOfTwo
    <3>3. peak' - (purse' + reserved') \in Int
      BY <2>2, <3>2
    <3>4. /\ drawdown' \in {drawdown, peak' - (purse' + reserved')} /\ drawdown <= drawdown'
          /\ peak' - (purse' + reserved') <= drawdown' /\ drawdown' \in Int
      BY <2>1, <3>1, <3>3, GreatestOfTwo
    <3>5. QED
      BY <2>2, <3>2, <3>4
  <2>4. CASE ~ Evaluates
    BY <1>1, <2>1, <2>2, <2>4
  <2>5. QED
    BY <2>3, <2>4
<1>9. ReplayShape'
  <2>1. active' \subseteq DOMAIN deals
    BY <1>1 DEF ReplayShape
  <2>2. HistoricalRow' = HistoricalRow
    BY <1>2 DEF HistoricalRow
  <2>3. QED
    BY <1>2, <1>5, <1>8, <2>1, <2>2 DEF ReplayShape
<1>0p. AmountsAre' /\ ActiveIs'
  BY <1>9, AmountsTyped, ActiveFinite, PTL
<1>10. Placed'
  <2>1. \A k \in 1 .. n : settled[k] # i
    BY <1>3, <1>5 DEF Placed
  <2>2. ASSUME NEW k \in DOMAIN deals PROVE k \in active' <=> \A m \in 1 .. n + 1 : settled'[m] # k
    <3>1. CASE k = i
      BY <1>1, <1>5, <3>1
    <3>2. CASE k # i
      <4>1. k \in active' <=> k \in active
        BY <1>1, <3>2
      <4>2. k \in active <=> \A m \in 1 .. n : settled[m] # k
        BY <1>5 DEF Placed
      <4>3. QED
        BY <1>5, <1>6, <3>2, <4>1, <4>2
    <3>3. QED
      BY <3>1, <3>2
  <2>3. ASSUME NEW l \in 1 .. n + 1, NEW m \in 1 .. n + 1, l < m PROVE settled'[l] # settled'[m]
    <3>1. l \in 1 .. n
      BY <1>5, <2>3
    <3>2. CASE m = n + 1
      BY <1>5, <2>1, <3>1, <3>2
    <3>3. CASE m \in 1 .. n
      BY <1>5, <2>3, <3>1, <3>3 DEF Placed
    <3>4. QED
      BY <1>6, <3>2, <3>3
  <2>4. QED
    BY <1>2, <1>5, <2>2, <2>3 DEF Placed
<1>11. KnownFirst'
  <2>1. ASSUME NEW k \in 1 .. n + 1 PROVE ended \/ deals[settled'[k]].settles <= time
    BY <1>3, <1>5, <1>6 DEF KnownFirst
  <2>2. ~ (current = None /\ ~ ended)
    <3>1. ASSUME current = None, ~ ended PROVE FALSE
      <4>1. deals[i].settles > time /\ deals[i].settles <= time /\ time \in Nat
        BY <1>3, <3>1 DEF KnownFirst, ReplayShape
      <4>2. QED
        BY <1>4, <4>1
    <3>2. QED
      BY <3>1
  <2>3. ASSUME NEW l \in 1 .. n + 1, NEW m \in 1 .. n + 1, l < m
        PROVE  deals[settled'[l]].settles <= deals[settled'[m]].settles
    <3>1. l \in 1 .. n
      BY <1>5, <2>3
    <3>2. CASE m = n + 1
      BY <1>3, <1>5, <3>1, <3>2 DEF KnownFirst
    <3>3. CASE m \in 1 .. n
      BY <1>5, <2>3, <3>1, <3>3 DEF KnownFirst
    <3>4. QED
      BY <1>6, <3>2, <3>3
  <2>4. ASSUME NEW l \in 1 .. n + 1, NEW k \in active' PROVE deals[settled'[l]].settles <= deals[k].settles
    <3>1. k \in active
      BY <1>1
    <3>2. CASE l \in 1 .. n
      BY <1>5, <3>1, <3>2 DEF KnownFirst
    <3>3. CASE l = n + 1
      <4>1. deals[k].settles \in Nat
        BY <1>0, <3>1 DEF AmountsAre, Deals, ReplayShape
      <4>2. CASE k \in Due
        BY <1>1, <1>4, <1>5, <3>3, <4>1, <4>2 DEF Earliest
      <4>3. CASE k \notin Due
        <5>1. ~ ended /\ time < deals[k].settles /\ deals[i].settles <= time /\ time \in Nat
          BY <1>3, <3>1, <4>1, <4>3 DEF Due, ReplayShape
        <5>2. QED
          BY <1>4, <1>5, <3>3, <4>1, <5>1
      <4>4. QED
        BY <4>2, <4>3
    <3>4. QED
      BY <1>6, <3>2, <3>3
  <2>5. QED
    BY <1>2, <1>5, <2>1, <2>2, <2>3, <2>4 DEF KnownFirst
<1>12. /\ \A k \in 0 .. n : Sums(ReleasedCosts')[k] = Sums(ReleasedCosts)[k]
       /\ \A k \in 0 .. n : Sums(ReleasedPayouts')[k] = Sums(ReleasedPayouts)[k]
       /\ Sums(ReleasedCosts')[n + 1] = Whole(ReleasedCosts') /\ Sums(ReleasedPayouts')[n + 1] = Whole(ReleasedPayouts')
       /\ Whole(ReleasedCosts') = Whole(ReleasedCosts) + deals[i].cost
       /\ Whole(ReleasedPayouts') = Whole(ReleasedPayouts) + deals[i].payout
       /\ Whole(ReleasedCosts) \in Int /\ Whole(ReleasedPayouts) \in Int
  <2>1. /\ ReleasedCosts' \in Seq(Int) /\ Len(ReleasedCosts') = n + 1
        /\ ReleasedPayouts' \in Seq(Int) /\ Len(ReleasedPayouts') = n + 1
    BY <1>5, <1>0p DEF AmountsAre
  <2>2. /\ ReleasedCosts \in Seq(Int) /\ Len(ReleasedCosts) = n
        /\ ReleasedPayouts \in Seq(Int) /\ Len(ReleasedPayouts) = n
    BY <1>0 DEF AmountsAre, n
  <2>3. /\ \A k \in 1 .. n : ReleasedCosts'[k] = ReleasedCosts[k]
        /\ \A k \in 1 .. n : ReleasedPayouts'[k] = ReleasedPayouts[k]
        /\ ReleasedCosts'[n + 1] = deals[i].cost /\ ReleasedPayouts'[n + 1] = deals[i].payout
    BY <1>2, <1>5 DEF ReleasedCosts, ReleasedPayouts
  <2> DEFINE rc == ReleasedCosts
             rd == ReleasedCosts'
             rp == ReleasedPayouts
             rq == ReleasedPayouts'
  <2> HIDE DEF rc, rd, rp, rq
  <2>4. /\ \A k \in 0 .. n : Sums(rd)[k] = Sums(rc)[k]
        /\ Sums(rd)[n + 1] = Whole(rc) + rd[n + 1] /\ Whole(rd) = Whole(rc) + rd[n + 1] /\ Whole(rc) \in Int
    <3>1. rc \in Seq(Int) /\ rd \in Seq(Int) /\ Len(rd) = Len(rc) + 1 /\ Len(rc) = n /\ \A k \in 1 .. Len(rc) : rd[k] = rc[k]
      BY <2>1, <2>2, <2>3 DEF rc, rd
    <3>2. QED
      BY <3>1, SumsAppend
  <2>5. /\ \A k \in 0 .. n : Sums(rq)[k] = Sums(rp)[k]
        /\ Sums(rq)[n + 1] = Whole(rp) + rq[n + 1] /\ Whole(rq) = Whole(rp) + rq[n + 1] /\ Whole(rp) \in Int
    <3>1. rp \in Seq(Int) /\ rq \in Seq(Int) /\ Len(rq) = Len(rp) + 1 /\ Len(rp) = n /\ \A k \in 1 .. Len(rp) : rq[k] = rp[k]
      BY <2>1, <2>2, <2>3 DEF rp, rq
    <3>2. QED
      BY <3>1, SumsAppend
  <2>6. rd[n + 1] = deals[i].cost /\ rq[n + 1] = deals[i].payout
    BY <2>3 DEF rd, rq
  <2>7. QED
    BY <2>4, <2>5, <2>6 DEF rc, rd, rp, rq
<1>13. Costs' = Costs /\ Payouts' = Payouts
  BY <1>2 DEF Costs, Payouts
<1>14. /\ Total(OpenCosts) = Total(OpenCosts') + deals[i].cost
       /\ Total(OpenPayouts) = Total(OpenPayouts') + deals[i].payout
       /\ Total(OpenCosts') \in Nat /\ Total(OpenPayouts') \in Nat
  <2>1. IsFiniteSet(active') /\ OpenCosts' \in [active' -> Nat] /\ OpenPayouts' \in [active' -> Nat]
    BY <1>0p DEF ActiveIs
  <2>2. active = active' \cup {i} /\ i \notin active'
    BY <1>1, <1>3
  <2>3. /\ OpenCosts \in [active' \cup {i} -> Nat] /\ OpenPayouts \in [active' \cup {i} -> Nat]
        /\ \A j \in active' : OpenCosts[j] = OpenCosts'[j] /\ OpenPayouts[j] = OpenPayouts'[j]
        /\ OpenCosts[i] = deals[i].cost /\ OpenPayouts[i] = deals[i].payout
    BY <1>0, <1>2, <2>2 DEF ActiveIs, OpenCosts, OpenPayouts
  <2> DEFINE a == active'
             c == OpenCosts
             d == OpenCosts'
             p == OpenPayouts
             q == OpenPayouts'
  <2> HIDE DEF a, c, d, p, q
  <2>4. IsFiniteSet(a) /\ i \notin a /\ c \in [a \cup {i} -> Nat] /\ p \in [a \cup {i} -> Nat]
        /\ d \in [a -> Nat] /\ q \in [a -> Nat] /\ (\A j \in a : c[j] = d[j]) /\ \A j \in a : p[j] = q[j]
    BY <2>1, <2>2, <2>3 DEF a, c, d, p, q
  <2>5. Total(c) = Total(d) + c[i] /\ Total(d) \in Nat
    BY <2>4, TotalInsert
  <2>6. Total(p) = Total(q) + p[i] /\ Total(q) \in Nat
    BY <2>4, TotalInsert
  <2>7. QED
    BY <2>3, <2>5, <2>6 DEF a, c, d, p, q
<1>15. Whole(Costs) \in Int /\ Whole(Payouts) \in Int
  BY <1>0, WholeTyped DEF AmountsAre
<1>16. policy.capital \in Nat /\ policy.maxLocked \in Nat
  BY PolicyTyped
<1>17. Accounted'
  <2>1. /\ purse = policy.capital - Whole(Costs) + Whole(ReleasedPayouts)
        /\ reserved = Whole(Costs) - Whole(ReleasedCosts)
        /\ reserved = Total(OpenCosts)
        /\ Whole(Payouts) - Whole(ReleasedPayouts) = Total(OpenPayouts)
        /\ purse >= 0 /\ (Evaluates => reserved <= policy.maxLocked)
    BY DEF Accounted
  <2>2. /\ purse' = policy.capital - Whole(Costs) + Whole(ReleasedPayouts')
        /\ reserved' = Whole(Costs) - Whole(ReleasedCosts')
        /\ reserved' = Total(OpenCosts')
        /\ Whole(Payouts) - Whole(ReleasedPayouts') = Total(OpenPayouts')
        /\ purse' >= 0 /\ (Evaluates => reserved' <= policy.maxLocked)
    <3> DEFINE wc == Whole(Costs)
               wp == Whole(Payouts)
               rc == Whole(ReleasedCosts)
               rp == Whole(ReleasedPayouts)
               rd == Whole(ReleasedCosts')
               rq == Whole(ReleasedPayouts')
               tc == Total(OpenCosts)
               tp == Total(OpenPayouts)
               td == Total(OpenCosts')
               tq == Total(OpenPayouts')
               c == deals[i].cost
               p == deals[i].payout
    <3>1. /\ wc \in Int /\ wp \in Int /\ rc \in Int /\ rp \in Int /\ rd = rc + c /\ rq = rp + p
          /\ td \in Nat /\ tq \in Nat /\ tc = td + c /\ tp = tq + p /\ c \in Nat /\ p \in Nat
          /\ policy.capital \in Nat /\ policy.maxLocked \in Nat
      BY <1>4, <1>12, <1>14, <1>15, <1>16
    <3>2. purse = policy.capital - wc + rp /\ reserved = wc - rc /\ reserved = tc /\ wp - rp = tp
          /\ purse >= 0 /\ (Evaluates => reserved <= policy.maxLocked) /\ purse' = purse + p /\ reserved' = reserved - c
      BY <1>1, <2>1
    <3> HIDE DEF wc, wp, rc, rp, rd, rq, tc, tp, td, tq, c, p
    <3>3. purse' = policy.capital - wc + rq /\ reserved' = wc - rd /\ reserved' = td /\ wp - rq = tq
          /\ purse' >= 0 /\ (Evaluates => reserved' <= policy.maxLocked)
      BY <3>1, <3>2
    <3>4. QED
      BY <3>3 DEF wc, wp, rq, rd, td, tq
  <2>3. QED
    BY <1>2, <1>7, <1>13, <2>2 DEF Accounted
<1>18. PeakTrue'
  <2> DEFINE r == ResultAfter
             q == ResultAfter'
             rc == Sums(ReleasedCosts)
             rd == Sums(ReleasedCosts')
             rp == Sums(ReleasedPayouts)
             rq == Sums(ReleasedPayouts')
             start == policy.capital
  <2>1. (\A k \in 0 .. n : r[k] = start + rp[k] - rc[k]) /\ \A k \in 0 .. n + 1 : q[k] = start + rq[k] - rd[k]
    BY <1>2, <1>5 DEF ResultAfter, n
  <2>2. \A k \in 0 .. n : rp[k] \in Int /\ rc[k] \in Int /\ rq[k] = rp[k] /\ rd[k] = rc[k]
    BY <1>0, <1>12, SumsAre DEF AmountsAre, n
  <2>3. rq[n + 1] = Whole(ReleasedPayouts') /\ rd[n + 1] = Whole(ReleasedCosts')
    BY <1>12
  <2>4. purse' = start - Whole(Costs) + Whole(ReleasedPayouts') /\ reserved' = Whole(Costs) - Whole(ReleasedCosts')
    BY <1>2, <1>13, <1>17 DEF Accounted
  <2> HIDE DEF r, q, rc, rd, rp, rq, start
  <2>5. start \in Int /\ n + 1 \in 0 .. n + 1 /\ \A k \in 0 .. n : k \in 0 .. n + 1
    BY <1>5, <1>16 DEF start
  <2>6. \A k \in 0 .. n : q[k] = r[k] /\ q[k] \in Int
    BY <2>1, <2>2, <2>5
  <2>7. q[n + 1] = purse' + reserved' /\ q[n + 1] \in Int
    <3> DEFINE wc == Whole(ReleasedCosts')
               wp == Whole(ReleasedPayouts')
               w == Whole(Costs)
    <3>1. wc \in Int /\ wp \in Int /\ w \in Int
      BY <1>4, <1>12, <1>15
    <3>2. q[n + 1] = start + wp - wc /\ purse' = start - w + wp /\ reserved' = w - wc
      BY <2>1, <2>3, <2>4, <2>5
    <3> HIDE DEF wc, wp, w
    <3>3. QED
      BY <2>5, <3>1, <3>2
  <2>8. ASSUME Evaluates PROVE HighWater(q, n + 1, peak', drawdown')
    <3>1. HighWater(r, n, peak, drawdown) /\ peak \in Int /\ drawdown \in Int
      BY <2>8 DEF PeakTrue, ReplayShape, n, r
    <3>2. peak' = Max({peak, q[n + 1]}) /\ drawdown' = Max({drawdown, peak' - q[n + 1]})
      BY <1>1, <2>7, <2>8
    <3>3. QED
      BY <1>5, <2>6, <2>7, <3>1, <3>2, HighWaterNext
  <2>9. QED
    BY <1>5, <1>7, <2>8 DEF PeakTrue, q
<1>19. QED
  BY <1>9, <1>10, <1>11, <1>17, <1>18

\* A trade that is bought.
LEMMA BuyKeeps == ReplayInv /\ Buy => ReplayInv'
<1> SUFFICES ASSUME ReplayInv, Buy PROVE ReplayInv'
  OBVIOUS
<1> USE DEF ReplayInv
<1>0. AmountsAre /\ ActiveIs
  BY AmountsTyped, ActiveFinite
<1>1. PICK c \in Bought :
        /\ purse' = purse - Deal(current, c).cost /\ reserved' = reserved + Deal(current, c).cost
        /\ deals' = Append(deals, Deal(current, c)) /\ active' = active \cup {Len(deals) + 1}
  BY DEF Buy
<1>2. /\ UNCHANGED <<policy, time, observed, settled, peak, drawdown, ended>>
      /\ current # None /\ current' = None /\ Due = {} /\ ~ ended
  BY DEF Buy, ReplayShape
<1> DEFINE d == Deal(current, c)
           n == Len(deals)
<1>3. /\ d.settles \in Nat /\ d.settles > time /\ d.at \in Nat /\ time \in Nat
      /\ d.cost = Lots(c) * c.unit /\ d.payout = Lots(c) * 1000 * c.wins
      /\ d = [at |-> d.at, settles |-> d.settles, cost |-> d.cost, payout |-> d.payout]
  <2>1. current.decision_at = time /\ time \in Nat /\ current.delay \in Nat \ {0}
    BY <1>2, PolicyTyped DEF ReplayShape, HistoricalRow, RowsOf
  <2>2. QED
    BY <2>1 DEF Deal
<1>4. IsSide(c) /\ Lots(c) > 0 /\ (~ Evaluates => c.unit < 1000)
  BY <1>2, ChoiceTyped DEF Bought
<1>5. /\ d.cost \in Nat /\ d.payout \in Nat /\ d.cost <= purse
      /\ Evaluates => d.cost <= policy.maxLocked - reserved
  <2>1. /\ Lots(c) \in Int /\ Lots(c) * c.unit \in Int /\ Lots(c) * c.unit <= purse
        /\ Evaluates => Lots(c) * c.unit <= policy.maxLocked - reserved
    BY <1>4, LotsAfford DEF Accounted
  <2>2. Lots(c) \in Nat
    BY <1>4, <2>1
  <2>3. Lots(c) * c.unit \in Nat /\ Lots(c) * 1000 * c.wins \in Nat
    BY <1>4, <2>2 DEF IsSide
  <2>4. QED
    BY <1>3, <2>1, <2>3
<1>6. d \in Deals
  BY <1>3, <1>5 DEF Deals
<1> HIDE DEF d
<1>7. /\ n \in Nat /\ DOMAIN deals = 1 .. n /\ DOMAIN deals' = 1 .. n + 1 /\ deals' \in Seq(Deals)
      /\ deals'[n + 1] = d /\ (\A i \in 1 .. n : deals'[i] = deals[i] /\ deals[i] \in Deals) /\ Len(deals') = n + 1
  <2>1. deals \in Seq(Deals) /\ deals' = Append(deals, d)
    BY <1>1 DEF d, ReplayShape
  <2> DEFINE e == deals'
  <2> HIDE DEF e
  <2>2. e = Append(deals, d)
    BY <2>1 DEF e
  <2>3. /\ n \in Nat /\ DOMAIN deals = 1 .. n /\ DOMAIN e = 1 .. n + 1 /\ e \in Seq(Deals)
        /\ e[n + 1] = d /\ (\A i \in 1 .. n : e[i] = deals[i] /\ deals[i] \in Deals) /\ Len(e) = n + 1
    BY <1>6, <2>1, <2>2
  <2>4. QED
    BY <2>3 DEF e
<1>8. active' = active \cup {n + 1} /\ purse' = purse - d.cost /\ reserved' = reserved + d.cost
  BY <1>1 DEF d
<1> HIDE DEF n
<1>9. /\ 1 .. n + 1 = (1 .. n) \cup {n + 1} /\ n + 1 \notin 1 .. n
      /\ active \subseteq 1 .. n
      /\ DOMAIN settled = 1 .. Len(settled) /\ \A m \in DOMAIN settled : settled[m] \in 1 .. n
  BY <1>0, <1>7 DEF AmountsAre, ReplayShape
<1>10. Evaluates' = Evaluates
  BY <1>2 DEF Evaluates
<1>11. ReplayShape'
  <2>1. settled \in Seq(DOMAIN deals')
    <3>1. DOMAIN deals \subseteq DOMAIN deals' /\ settled \in Seq(DOMAIN deals)
      BY <1>7, <1>9 DEF ReplayShape
    <3> DEFINE p == DOMAIN deals
               q == DOMAIN deals'
    <3> HIDE DEF p, q
    <3>2. p \subseteq q /\ settled \in Seq(p)
      BY <3>1 DEF p, q
    <3>3. settled \in Seq(q)
      BY <3>2
    <3>4. QED
      BY <3>3 DEF q
  <2>2. purse' \in Int /\ reserved' \in Int
    BY <1>5, <1>8 DEF ReplayShape
  <2>3. active' \subseteq DOMAIN deals'
    BY <1>7, <1>8, <1>9
  <2>4. QED
    BY <1>2, <1>7, <2>1, <2>2, <2>3 DEF ReplayShape
<1>0p. AmountsAre' /\ ActiveIs'
  BY <1>11, AmountsTyped, ActiveFinite, PTL
<1>12. Placed'
  <2>1. ASSUME NEW i \in 1 .. n + 1 PROVE i \in active' <=> \A m \in DOMAIN settled : settled[m] # i
    <3>1. CASE i = n + 1
      BY <1>8, <1>9, <3>1
    <3>2. CASE i \in 1 .. n
      BY <1>7, <1>8, <1>9, <3>2 DEF Placed
    <3>3. QED
      BY <1>9, <3>1, <3>2
  <2>2. QED
    BY <1>2, <1>7, <2>1 DEF Placed
<1>13. KnownFirst'
  <2>1. \A m \in DOMAIN settled : deals'[settled[m]] = deals[settled[m]] /\ deals[settled[m]].settles <= time
                                  /\ deals[settled[m]].settles \in Nat
    BY <1>2, <1>7, <1>9 DEF KnownFirst, Deals
  <2>2. ASSUME NEW i \in active' PROVE deals'[i].settles > time /\ deals'[i].settles \in Nat
    <3>1. CASE i = n + 1
      BY <1>3, <1>7, <3>1
    <3>2. CASE i \in active
      <4>1. ~ (deals[i].settles <= time) /\ deals'[i] = deals[i] /\ deals[i].settles \in Nat
        BY <1>2, <1>7, <1>9, <3>2 DEF Due, Deals
      <4>2. QED
        BY <1>3, <4>1
    <3>3. QED
      BY <1>8, <3>1, <3>2
  <2>3. \A l, m \in DOMAIN settled : l < m => deals[settled[l]].settles <= deals[settled[m]].settles
    BY DEF KnownFirst
  <2>4. \A m \in DOMAIN settled, i \in active' : deals'[settled[m]].settles <= deals'[i].settles
    BY <1>3, <2>1, <2>2
  <2>5. QED
    BY <1>2, <2>1, <2>2, <2>3, <2>4 DEF KnownFirst
<1>14. ReleasedCosts' = ReleasedCosts /\ ReleasedPayouts' = ReleasedPayouts
  BY <1>2, <1>7, <1>9 DEF ReleasedCosts, ReleasedPayouts
<1>15. Whole(Costs') = Whole(Costs) + d.cost /\ Whole(Payouts') = Whole(Payouts) + d.payout
  <2> DEFINE c1 == Costs
             c2 == Costs'
             p1x == Payouts
             p2x == Payouts'
  <2>1. /\ c1 \in Seq(Int) /\ p1x \in Seq(Int) /\ Len(c1) = n /\ Len(p1x) = n
        /\ c2 \in Seq(Int) /\ p2x \in Seq(Int) /\ Len(c2) = n + 1 /\ Len(p2x) = n + 1
    BY <1>0, <1>0p, <1>7 DEF AmountsAre, n
  <2>2. /\ \A i \in 1 .. n : c2[i] = c1[i] /\ p2x[i] = p1x[i]
        /\ c2[n + 1] = d.cost /\ p2x[n + 1] = d.payout
    BY <1>7 DEF Costs, Payouts
  <2> HIDE DEF c1, c2, p1x, p2x
  <2>3. Whole(c2) = Whole(c1) + c2[n + 1]
    <3>1. c1 \in Seq(Int) /\ c2 \in Seq(Int) /\ Len(c2) = Len(c1) + 1 /\ \A i \in 1 .. Len(c1) : c2[i] = c1[i]
      BY <2>1, <2>2
    <3>2. Whole(c2) = Whole(c1) + c2[Len(c2)]
      BY <3>1, SumsAppend
    <3>3. QED
      BY <2>1, <3>2
  <2>4. Whole(p2x) = Whole(p1x) + p2x[n + 1]
    <3>1. p1x \in Seq(Int) /\ p2x \in Seq(Int) /\ Len(p2x) = Len(p1x) + 1 /\ \A i \in 1 .. Len(p1x) : p2x[i] = p1x[i]
      BY <2>1, <2>2
    <3>2. Whole(p2x) = Whole(p1x) + p2x[Len(p2x)]
      BY <3>1, SumsAppend
    <3>3. QED
      BY <2>1, <3>2
  <2>5. QED
    BY <2>2, <2>3, <2>4 DEF c1, c2, p1x, p2x
<1>16. /\ Total(OpenCosts') = Total(OpenCosts) + d.cost
       /\ Total(OpenPayouts') = Total(OpenPayouts) + d.payout
       /\ Total(OpenCosts) \in Nat /\ Total(OpenPayouts) \in Nat
  <2> DEFINE c1 == OpenCosts
             c2 == OpenCosts'
             p1x == OpenPayouts
             p2x == OpenPayouts'
  <2>1. /\ IsFiniteSet(active) /\ n + 1 \notin active /\ c1 \in [active -> Nat] /\ p1x \in [active -> Nat]
        /\ c2 \in [active \cup {n + 1} -> Nat] /\ p2x \in [active \cup {n + 1} -> Nat]
    BY <1>0, <1>0p, <1>8, <1>9 DEF ActiveIs
  <2>2. /\ \A i \in active : c2[i] = c1[i] /\ p2x[i] = p1x[i]
        /\ c2[n + 1] = d.cost /\ p2x[n + 1] = d.payout
    BY <1>7, <1>8, <1>9 DEF OpenCosts, OpenPayouts
  <2> HIDE DEF c1, c2, p1x, p2x
  <2>3. Total(c2) = Total(c1) + c2[n + 1] /\ Total(c1) \in Nat
    <3>1. IsFiniteSet(active) /\ n + 1 \notin active /\ c1 \in [active -> Nat] /\ c2 \in [active \cup {n + 1} -> Nat]
          /\ \A i \in active : c2[i] = c1[i]
      BY <2>1, <2>2
    <3>2. QED
      BY <3>1, TotalInsert
  <2>4. Total(p2x) = Total(p1x) + p2x[n + 1] /\ Total(p1x) \in Nat
    <3>1. IsFiniteSet(active) /\ n + 1 \notin active /\ p1x \in [active -> Nat] /\ p2x \in [active \cup {n + 1} -> Nat]
          /\ \A i \in active : p2x[i] = p1x[i]
      BY <2>1, <2>2
    <3>2. QED
      BY <3>1, TotalInsert
  <2>5. QED
    BY <2>2, <2>3, <2>4 DEF c1, c2, p1x, p2x
<1>17. Accounted'
  <2> DEFINE wc == Whole(Costs)
             wp == Whole(Payouts)
             vc == Whole(Costs')
             vp == Whole(Payouts')
             rc == Whole(ReleasedCosts)
             rp == Whole(ReleasedPayouts)
             tc == Total(OpenCosts)
             tp == Total(OpenPayouts)
             td == Total(OpenCosts')
             tq == Total(OpenPayouts')
             x == d.cost
             y == d.payout
  <2>1. /\ wc \in Int /\ wp \in Int /\ rc \in Int /\ rp \in Int /\ vc = wc + x /\ vp = wp + y
        /\ tc \in Nat /\ tp \in Nat /\ td = tc + x /\ tq = tp + y /\ x \in Nat /\ y \in Nat
        /\ policy.capital \in Nat /\ policy.maxLocked \in Nat
    BY <1>0, <1>5, <1>15, <1>16, WholeTyped, PolicyTyped DEF AmountsAre
  <2>2. purse = policy.capital - wc + rp /\ reserved = wc - rc /\ reserved = tc /\ wp - rp = tp
        /\ purse >= 0 /\ (Evaluates => reserved <= policy.maxLocked) /\ purse' = purse - x /\ reserved' = reserved + x
        /\ x <= purse /\ (Evaluates => x <= policy.maxLocked - reserved)
    BY <1>5, <1>8 DEF Accounted
  <2> HIDE DEF wc, wp, vc, vp, rc, rp, tc, tp, td, tq, x, y
  <2>3. purse' = policy.capital - vc + rp /\ reserved' = vc - rc /\ reserved' = td /\ vp - rp = tq
        /\ purse' >= 0 /\ (Evaluates => reserved' <= policy.maxLocked)
    BY <2>1, <2>2
  <2>4. QED
    BY <1>2, <1>10, <1>14, <2>3 DEF Accounted, vc, vp, rc, rp, td, tq
<1>18. PeakTrue'
  <2>1. ResultAfter' = ResultAfter
    BY <1>2, <1>14 DEF ResultAfter
  <2>2. QED
    BY <1>2, <1>10, <2>1 DEF PeakTrue
<1>19. QED
  BY <1>11, <1>12, <1>13, <1>17, <1>18

\* The other steps leave the account and the trades alone.
LEMMA OthersKeep ==
  ReplayInv /\ (Ignore \/ Finish \/ (\E r \in HistoricalRow : Observe(r)) \/ UNCHANGED replay_vars) => ReplayInv'
<1> SUFFICES ASSUME ReplayInv, Ignore \/ Finish \/ (\E r \in HistoricalRow : Observe(r)) \/ UNCHANGED replay_vars
             PROVE  ReplayInv'
  OBVIOUS
<1> USE DEF ReplayInv
<1>0. AmountsAre
  BY AmountsTyped
<1>1. UNCHANGED <<policy, purse, reserved, active, deals, settled, peak, drawdown>>
  BY DEF Ignore, Finish, Observe, replay_vars
<1>2. Placed' /\ Accounted' /\ PeakTrue'
  <2>1. Placed'
    BY <1>1 DEF Placed
  <2>2. Evaluates' = Evaluates /\ ResultAfter' = ResultAfter /\ Costs' = Costs /\ Payouts' = Payouts
        /\ ReleasedCosts' = ReleasedCosts /\ ReleasedPayouts' = ReleasedPayouts
        /\ OpenCosts' = OpenCosts /\ OpenPayouts' = OpenPayouts
    BY <1>1 DEF Evaluates, ResultAfter, Costs, Payouts, ReleasedCosts, ReleasedPayouts, OpenCosts, OpenPayouts
  <2>3. QED
    BY <1>1, <2>1, <2>2 DEF Accounted, PeakTrue
<1>3. HistoricalRow' = HistoricalRow
  BY <1>1 DEF HistoricalRow
<1>4. \A i \in DOMAIN deals : deals[i].settles \in Nat
  BY <1>0 DEF AmountsAre, Deals
<1>5. CASE Ignore
  <2>1. ReplayShape'
    BY <1>1, <1>3, <1>5 DEF Ignore, ReplayShape
  <2>2. ~ ended => \A i \in active : deals[i].settles > time
    BY <1>4, <1>5 DEF Ignore, Due, ReplayShape
  <2>3. KnownFirst'
    BY <1>1, <1>5, <2>2 DEF Ignore, KnownFirst
  <2>4. QED
    BY <1>2, <2>1, <2>3
<1>6. CASE Finish
  <2>1. ReplayShape'
    BY <1>1, <1>3, <1>6 DEF Finish, ReplayShape
  <2>2. KnownFirst'
    BY <1>1, <1>6 DEF Finish, KnownFirst
  <2>3. QED
    BY <1>2, <2>1, <2>2
<1>7. CASE \E r \in HistoricalRow : Observe(r)
  <2>1. PICK r \in HistoricalRow : Observe(r)
    BY <1>7
  <2>2. r.decision_at \in Nat /\ time \in Nat /\ time <= time' /\ time' = r.decision_at
        /\ current' = r /\ ended' = ended /\ ~ ended
    BY <2>1, PolicyTyped DEF HistoricalRow, RowsOf, Observe, ReplayShape
  <2>3. r # None
    BY <2>1, PolicyAssumption DEF ReplayShape, HistoricalRow
  <2>4. ReplayShape'
    BY <1>1, <1>3, <2>2 DEF ReplayShape
  <2>5. \A m \in DOMAIN settled : deals[settled[m]].settles \in Nat
    BY <1>0, <1>4 DEF AmountsAre
  <2>6. KnownFirst'
    BY <1>1, <2>2, <2>3, <2>5 DEF KnownFirst
  <2>7. QED
    BY <1>2, <2>4, <2>6
<1>8. CASE UNCHANGED replay_vars
  <2>1. ReplayShape'
    BY <1>1, <1>3, <1>8 DEF replay_vars, ReplayShape
  <2>2. KnownFirst'
    BY <1>1, <1>8 DEF replay_vars, KnownFirst
  <2>3. QED
    BY <1>2, <2>1, <2>2
<1>9. QED
  BY <1>5, <1>6, <1>7, <1>8

LEMMA ReplayKept == ReplayInv /\ [ReplayNext]_replay_vars => ReplayInv'
BY ReleaseKeeps, BuyKeeps, OthersKeep DEF ReplayNext

\* When all is released, what was released is all.
LEMMA ReplaySound == ReplayInv => CashExplained /\ ReleasedInTime /\ WithinCash /\ DrawdownTrue
<1> SUFFICES ASSUME ReplayInv PROVE CashExplained /\ ReleasedInTime /\ WithinCash /\ DrawdownTrue
  OBVIOUS
<1> USE DEF ReplayInv
<1>0. AmountsAre /\ ActiveIs
  BY AmountsTyped, ActiveFinite
<1>1. CashExplained
  <2> DEFINE wc == Whole(Costs)
             wp == Whole(Payouts)
             rc == Whole(ReleasedCosts)
             rp == Whole(ReleasedPayouts)
             tc == Total(OpenCosts)
             tp == Total(OpenPayouts)
  <2>1. wc \in Int /\ wp \in Int /\ rc \in Int /\ rp \in Int /\ policy.capital \in Nat
    BY <1>0, WholeTyped, PolicyTyped DEF AmountsAre
  <2>2. purse = policy.capital - wc + rp /\ reserved = wc - rc /\ reserved = tc /\ wp - rp = tp
    BY DEF Accounted
  <2>3. active = {} => tc = 0 /\ tp = 0
    <3>1. ASSUME active = {} PROVE tc = 0 /\ tp = 0
      <4>1. OpenCosts = [i \in {} |-> 0] /\ OpenPayouts = [i \in {} |-> 0]
        BY <3>1 DEF OpenCosts, OpenPayouts
      <4>2. QED
        BY <4>1, TotalZero, FS_EmptySet
    <3>2. QED
      BY <3>1
  <2> HIDE DEF wc, wp, rc, rp, tc, tp
  <2>4. active = {} => reserved = 0 /\ purse = policy.capital - wc + wp
    BY <2>1, <2>2, <2>3
  <2>5. QED
    BY <2>2, <2>4 DEF CashExplained, wc, wp, rc, rp
<1>2. ReleasedInTime
  <2>1. ASSUME ~ ended, current = None \/ Due = {}, NEW i \in DOMAIN deals, deals[i].settles <= time
        PROVE  \E n \in DOMAIN settled : settled[n] = i
    <3>1. i \notin active
      <4>1. SUFFICES ASSUME i \in active PROVE FALSE
        OBVIOUS
      <4>2. deals[i].settles \in Nat /\ time \in Nat
        BY <1>0 DEF AmountsAre, Deals, ReplayShape
      <4>3. current = None
        BY <2>1, <4>1 DEF Due
      <4>4. deals[i].settles > time
        BY <2>1, <4>1, <4>3 DEF KnownFirst
      <4>5. QED
        BY <2>1, <4>2, <4>4
    <3>2. QED
      BY <3>1 DEF Placed
  <2>2. QED
    BY <2>1 DEF ReleasedInTime, KnownFirst, Placed
<1>3. WithinCash
  BY <1>0 DEF WithinCash, Accounted, ActiveIs
<1>4. DrawdownTrue
  <2>1. DOMAIN ResultAfter = 0 .. Len(settled)
    BY DEF ResultAfter
  <2>2. QED
    BY <2>1 DEF DrawdownTrue, PeakTrue, HighWater
<1>5. QED
  BY <1>1, <1>2, <1>3, <1>4

(***************************************************************************)
(* The backtests and the Monte Carlo of ruin.                              *)
(***************************************************************************)
TestShape ==
  /\ setup \in Setups /\ epoch \in Nat /\ capital \in Int /\ skipped \in Nat
  /\ bets \in Seq([epoch : Nat, pnl : Int])
  /\ run # None => run \in [capital : Int, ruined : BOOLEAN, block : SUBSET Nat, drawn : Seq(Int)]
  /\ run # None => run.block \subseteq DOMAIN bets

\* Every stake was there, no trade is of a later observation, and none follows the ruin.
StakesCovered ==
  /\ capital = EquityAfter[Len(bets)]
  /\ \A i \in DOMAIN bets : EquityAfter[i - 1] >= setup.stake
  /\ \A i \in DOMAIN bets : bets[i].epoch <= epoch
  /\ ruined_at # None => /\ capital < setup.stake /\ skipped > 0
                         /\ \A i \in DOMAIN bets : bets[i].epoch < ruined_at

TestInv == TestShape /\ StakesCovered /\ RuinAtFirst

LEMMA SetupTyped ==
  ASSUME TestShape
  PROVE  /\ setup.capital \in Nat \ {0} /\ setup.stake \in Nat \ {0} /\ setup.horizon \in Nat \ {0}
         /\ setup.stake <= setup.capital /\ setup.slippage \in Nat
         /\ setup.prices \subseteq (1 .. 9) \X (1 .. 9) /\ setup.chances \subseteq 0 .. 1000
<1> DEFINE s == setup
<1>1. s \in Setups
  BY DEF TestShape
<1> HIDE DEF s
<1>2. /\ {s.capital, s.stake, s.horizon} \subseteq Nat \ {0} /\ s.stake <= s.capital /\ s.slippage \in Nat
      /\ s.prices \subseteq (1 .. 9) \X (1 .. 9) /\ s.chances \subseteq 0 .. 1000
  <2>1. {s.capital, s.stake, s.horizon} \subseteq Nat \ {0}
    BY <1>1, SetupAssumption, Zenon
  <2>2. s.stake <= s.capital /\ s.slippage \in Nat
    BY <1>1, SetupAssumption, Zenon
  <2>3. s.prices \subseteq (1 .. 9) \X (1 .. 9) /\ s.chances \subseteq 0 .. 1000
    <3>1. s.prices \subseteq (1 .. 9) \X (1 .. 9)
      <4> DEFINE P == (1 .. 9) \X (1 .. 9)
      <4>1. \A t \in Setups : t.prices \subseteq P
        BY SetupAssumption
      <4> HIDE DEF P
      <4>2. s.prices \subseteq P
        BY <1>1, <4>1
      <4>3. QED
        BY <4>2 DEF P
    <3>2. s.chances \subseteq 0 .. 1000
      BY <1>1, SetupAssumption, Zenon
    <3>3. QED
      BY <3>1, <3>2
  <2>4. QED
    BY <2>1, <2>2, <2>3
<1>3. QED
  BY <1>2 DEF s

BetsAre ==
  /\ Pnls \in Seq(Int) /\ Len(Pnls) = Len(bets) /\ Len(bets) \in Nat /\ DOMAIN bets = 1 .. Len(bets)
  /\ \A i \in DOMAIN bets : bets[i] \in [epoch : Nat, pnl : Int]

LEMMA BetsTyped == TestShape => BetsAre
<1> SUFFICES ASSUME TestShape PROVE BetsAre
  OBVIOUS
<1>1. /\ Len(bets) \in Nat /\ DOMAIN bets = 1 .. Len(bets)
      /\ \A i \in DOMAIN bets : bets[i] \in [epoch : Nat, pnl : Int]
  <2> DEFINE B == [epoch : Nat, pnl : Int]
  <2>1. bets \in Seq(B)
    BY DEF TestShape
  <2> HIDE DEF B
  <2>2. Len(bets) \in Nat /\ DOMAIN bets = 1 .. Len(bets) /\ \A i \in DOMAIN bets : bets[i] \in B
    BY <2>1
  <2>3. QED
    BY <2>2 DEF B
<1>2. Pnls \in [1 .. Len(bets) -> Int]
  BY <1>1 DEF Pnls
<1>3. \A s \in [1 .. Len(bets) -> Int] : s \in Seq(Int) /\ Len(s) = Len(bets)
  BY <1>1
<1>4. QED
  BY <1>1, <1>2, <1>3 DEF BetsAre

\* What a trade wins or loses is a number: its price is one that can be bought at.
LEMMA PnlTyped ==
  ASSUME TestShape, NEW o \in Observation, NEW t \in Signals(o)
  PROVE  Pnl(t) \in Int
<1>1. /\ o.price[1] \in 1 .. 9 /\ o.price[2] \in 1 .. 9 /\ o.outcome_up \in 0 .. 1 /\ setup.slippage \in Nat
      /\ setup.stake \in Nat
  BY SetupTyped DEF Observation
<1>2. ASSUME NEW price \in 1 .. 9, NEW won \in 0 .. 1, price + setup.slippage < 10,
             t = [unit |-> ShareCost(price + setup.slippage), payout |-> won]
      PROVE  Pnl(t) \in Int
  <2> DEFINE entry == price + setup.slippage
             u == ShareCost(entry)
  <2>1. entry \in 1 .. 9
    BY <1>1, <1>2
  <2> HIDE DEF entry
  <2>2. u \in Nat \ {0}
    BY <2>1 DEF ShareCost
  <2>3. t.unit = u /\ t.payout = won
    BY <1>2 DEF entry
  <2> HIDE DEF u
  <2>4. setup.stake * 1000 * won \in Int
    BY <1>1, <1>2
  <2>5. (setup.stake * 1000 * won) \div u \in Int
    BY <2>2, <2>4, DivBelow
  <2>6. QED
    BY <1>1, <2>3, <2>5 DEF Pnl
<1>3. PICK price \in {o.price[1], o.price[2]}, won \in {o.outcome_up, 1 - o.outcome_up} :
         /\ price + setup.slippage < 10
         /\ t = [unit |-> ShareCost(price + setup.slippage), payout |-> won]
  <2>1. CASE setup.rule = "fixed"
    <3>1. t \in simulate_trade(o)
      BY <2>1 DEF Signals
    <3>2. QED
      BY <3>1 DEF simulate_trade
  <2>2. CASE setup.rule # "fixed"
    <3>1. t \in learned_trade(o)
      BY <2>2 DEF Signals
    <3>2. PICK k \in {1, 2} : /\ o.price[k] + setup.slippage < 10
                              /\ t = [unit |-> ShareCost(o.price[k] + setup.slippage),
                                      payout |-> IF k = 1 THEN o.outcome_up ELSE 1 - o.outcome_up]
      BY <3>1 DEF learned_trade
    <3>3. QED
      BY <3>2
  <2>3. QED
    BY <2>1, <2>2
<1>4. price \in 1 .. 9 /\ won \in 0 .. 1
  BY <1>1, <1>3
<1>5. QED
  BY <1>2, <1>3, <1>4

LEMMA InitTest == TestInit => TestInv
<1> SUFFICES ASSUME TestInit PROVE TestInv
  OBVIOUS
<1>1. setup.capital \in Nat /\ setup \in Setups
  BY SetupAssumption DEF TestInit
<1>2. bets = <<>> /\ DOMAIN bets = {} /\ Len(bets) = 0 /\ Pnls = <<>> /\ run = None /\ ruined_at = None
  BY DEF TestInit, Pnls
<1>3. TestShape
  <2>1. setup.capital \in Int /\ 0 \in Nat /\ <<>> \in Seq([epoch : Nat, pnl : Int])
    BY <1>1
  <2>2. QED
    BY <1>1, <1>2, <2>1 DEF TestInit, TestShape
<1>4. StakesCovered
  <2>1. <<>> \in Seq(Int)
    OBVIOUS
  <2>2. Sums(<<>>)[0] = 0
    BY <2>1, SumsAre
  <2>3. EquityAfter[0] = setup.capital
    BY <1>1, <1>2, <2>2 DEF EquityAfter
  <2>4. QED
    BY <1>2, <2>3 DEF TestInit, StakesCovered
<1>5. QED
  BY <1>2, <1>3, <1>4 DEF TestInv, RuinAtFirst

\* One observation: a trade, a signal that cannot be funded, or nothing.
LEMMA EvaluateKeeps == ASSUME TestInv, NEW o \in Observation, evaluate(o) PROVE TestInv'
<1> USE DEF TestInv
<1>0. BetsAre
  BY BetsTyped
<1>1. run = None /\ epoch' = epoch + 1 /\ UNCHANGED <<setup, run>> /\ epoch \in Nat /\ epoch' \in Nat
      /\ setup.stake \in Nat /\ setup.capital \in Nat /\ capital \in Int
  BY SetupTyped DEF evaluate, TestShape
<1>2. RuinAtFirst'
  BY <1>1 DEF RuinAtFirst
<1>3. ASSUME UNCHANGED <<capital, bets>>, skipped' \in Nat,
             ruined_at' # None => /\ capital < setup.stake /\ skipped' > 0
                                  /\ \A i \in DOMAIN bets : bets[i].epoch < ruined_at'
      PROVE  TestInv'
  <2>1. EquityAfter' = EquityAfter
    BY <1>1, <1>3 DEF EquityAfter, Pnls
  <2>2. TestShape'
    BY <1>1, <1>3 DEF TestShape
  <2>3. \A i \in DOMAIN bets : bets[i].epoch <= epoch'
    BY <1>0, <1>1 DEF StakesCovered, BetsAre
  <2>4. StakesCovered'
    BY <1>1, <1>3, <2>1, <2>3 DEF StakesCovered
  <2>5. QED
    BY <1>2, <2>2, <2>4
<1>4. CASE Signals(o) = {} /\ UNCHANGED <<capital, skipped, ruined_at, bets>>
  BY <1>3, <1>4 DEF StakesCovered, TestShape
<1>5. CASE /\ ~ Funded(capital)
           /\ skipped' = skipped + 1 /\ ruined_at' = IF ruined_at = None THEN epoch + 1 ELSE ruined_at
           /\ UNCHANGED <<capital, bets>>
  <2>1. capital < setup.stake /\ skipped \in Nat /\ skipped' \in Nat /\ skipped' > 0
    BY <1>1, <1>5 DEF Funded, TestShape
  <2>2. \A i \in DOMAIN bets : bets[i].epoch < ruined_at'
    <3>1. CASE ruined_at = None
      BY <1>0, <1>1, <1>5, <3>1 DEF StakesCovered, BetsAre
    <3>2. CASE ruined_at # None
      BY <1>5, <3>2 DEF StakesCovered
    <3>3. QED
      BY <3>1, <3>2
  <2>3. QED
    BY <1>3, <1>5, <2>1, <2>2
<1>6. ASSUME NEW t \in Signals(o), Funded(capital), capital' = capital + Pnl(t),
             bets' = Append(bets, [epoch |-> epoch + 1, pnl |-> Pnl(t)]), UNCHANGED <<skipped, ruined_at>>
      PROVE  TestInv'
  <2> DEFINE n == Len(bets)
             p == Pnl(t)
             b == [epoch |-> epoch + 1, pnl |-> p]
             new == bets'
  <2>1. p \in Int /\ b \in [epoch : Nat, pnl : Int] /\ b.pnl = p /\ b.epoch = epoch + 1
    <3>1. p \in Int
      BY PnlTyped
    <3> HIDE DEF p
    <3>2. QED
      BY <1>1, <3>1
  <2>2. new = Append(bets, b) /\ bets \in Seq([epoch : Nat, pnl : Int])
    BY <1>6 DEF TestShape
  <2> HIDE DEF b, p, new
  <2>3. /\ n \in Nat /\ DOMAIN bets = 1 .. n /\ Len(new) = n + 1 /\ DOMAIN new = 1 .. n + 1
        /\ new \in Seq([epoch : Nat, pnl : Int]) /\ new[n + 1] = b /\ \A i \in 1 .. n : new[i] = bets[i]
    BY <2>1, <2>2
  <2>4. TestShape'
    BY <1>1, <1>6, <2>1, <2>3 DEF TestShape, new, p
  <2>0. BetsAre'
    BY <2>4, BetsTyped, PTL
  <2>5. /\ \A k \in 0 .. n : EquityAfter'[k] = EquityAfter[k]
        /\ EquityAfter[n] \in Int /\ EquityAfter'[n + 1] = EquityAfter[n] + p
    <3> DEFINE q == Pnls
               r == Pnls'
    <3>1. q \in Seq(Int) /\ r \in Seq(Int) /\ Len(q) = n /\ Len(r) = Len(q) + 1
      BY <1>0, <2>0, <2>3 DEF BetsAre, new
    <3>2. r[n + 1] = p /\ \A i \in 1 .. n : r[i] = q[i]
      BY <2>1, <2>3 DEF Pnls, new
    <3>3. /\ \A k \in 0 .. n : EquityAfter[k] = setup.capital + Sums(q)[k]
          /\ \A k \in 0 .. n + 1 : EquityAfter'[k] = setup.capital + Sums(r)[k]
      BY <1>1, <2>3 DEF EquityAfter, new
    <3> HIDE DEF q, r
    <3>4. \A i \in 1 .. Len(q) : r[i] = q[i]
      BY <3>1, <3>2
    <3> HIDE DEF n
    <3>5. (\A k \in 0 .. n : Sums(r)[k] = Sums(q)[k]) /\ Sums(r)[n + 1] = Whole(q) + r[n + 1] /\ Whole(q) \in Int
      BY <3>1, <3>4, SumsAppend
    <3>6. Whole(q) = Sums(q)[n]
      BY <3>1 DEF Whole
    <3>7. n \in 0 .. n /\ n + 1 \in 0 .. n + 1 /\ \A k \in 0 .. n : k \in 0 .. n + 1
      BY <2>3
    <3>8. EquityAfter[n] = setup.capital + Whole(q) /\ EquityAfter'[n + 1] = setup.capital + (Whole(q) + p)
      BY <3>2, <3>3, <3>5, <3>6, <3>7
    <3>9. QED
      BY <1>1, <2>1, <3>3, <3>5, <3>7, <3>8
  <2>6. StakesCovered'
    <3>1. capital = EquityAfter[n] /\ capital >= setup.stake /\ ruined_at = None
      BY <1>1, <1>6 DEF StakesCovered, Funded
    <3>2. capital' = EquityAfter'[n + 1]
      BY <1>6, <2>5, <3>1 DEF p
    <3>3. ASSUME NEW i \in 1 .. n + 1
          PROVE  EquityAfter'[i - 1] >= setup.stake /\ new[i].epoch <= epoch + 1
      <4>1. CASE i = n + 1
        <5>1. i - 1 = n /\ n \in 0 .. n
          BY <2>3, <4>1
        <5>2. QED
          BY <1>1, <2>1, <2>3, <2>5, <3>1, <4>1, <5>1
      <4>2. CASE i \in 1 .. n
        <5>1. i \in DOMAIN bets /\ new[i] = bets[i]
          BY <2>3, <4>2
        <5>2. bets[i].epoch <= epoch /\ bets[i].epoch \in Nat /\ EquityAfter[i - 1] >= setup.stake
          BY <1>0, <5>1 DEF StakesCovered, BetsAre
        <5> HIDE DEF n
        <5>3. i - 1 \in 0 .. n
          BY <2>3, <4>2
        <5>4. EquityAfter'[i - 1] = EquityAfter[i - 1]
          BY <2>5, <5>3
        <5>5. QED
          BY <1>1, <5>1, <5>2, <5>4
      <4>3. QED
        BY <2>3, <4>1, <4>2
    <3>4. QED
      BY <1>1, <1>6, <2>3, <3>1, <3>2, <3>3 DEF StakesCovered, new
  <2>7. QED
    BY <1>2, <2>4, <2>6
<1>7. QED
  BY <1>4, <1>5, <1>6 DEF evaluate

\* The runs of the Monte Carlo.
LEMMA RunKeeps == ASSUME TestInv, Begin \/ DrawBlock \/ Trade PROVE TestInv'
<1> USE DEF TestInv
<1>0. BetsAre
  BY BetsTyped
<1>1. UNCHANGED <<setup, epoch, capital, skipped, ruined_at, bets>>
  BY DEF Begin, DrawBlock, Trade
<1>2. StakesCovered'
  <2>1. EquityAfter' = EquityAfter
    BY <1>1 DEF EquityAfter, Pnls
  <2>2. QED
    BY <1>1, <2>1 DEF StakesCovered
<1>3. /\ setup.capital \in Nat /\ setup.stake \in Nat /\ setup.horizon \in Nat /\ setup.stake <= setup.capital
      /\ DOMAIN bets \subseteq Nat
  BY <1>0, SetupTyped DEF BetsAre
<1>4. CASE Begin
  <2>1. run' = [capital |-> setup.capital, ruined |-> ~ Funded(setup.capital), block |-> {}, drawn |-> <<>>]
    BY <1>4 DEF Begin
  <2>2. Funded(setup.capital) \in BOOLEAN /\ setup.capital \in Int /\ <<>> \in Seq(Int) /\ Len(<<>>) = 0
    BY <1>3 DEF Funded
  <2>3. Whole(<<>>) = 0
    BY <2>2, SumsAre DEF Whole
  <2>4. TestShape'
    BY <1>1, <2>1, <2>2 DEF TestShape
  <2>5. RuinAtFirst'
    <3>1. run'.capital = setup.capital /\ run'.ruined = ~ Funded(setup.capital) /\ run'.drawn = <<>>
      BY <2>1
    <3>2. Funded(setup.capital) /\ ~ (setup.capital < setup.stake) /\ setup.capital = setup.capital + Whole(<<>>)
      BY <1>3, <2>3 DEF Funded
    <3>3. \A i \in 1 .. Len(<<>>) - 1 : FALSE
      BY <2>2
    <3>4. /\ Len(run'.drawn) <= setup.horizon /\ run'.capital = setup.capital + Whole(run'.drawn)
          /\ \A i \in 1 .. Len(run'.drawn) - 1 : setup.capital + Sums(run'.drawn)[i] >= setup.stake
      <4>1. Len(run'.drawn) <= setup.horizon
        BY <1>3, <2>2, <3>1
      <4>2. run'.capital = setup.capital + Whole(run'.drawn)
        BY <3>1, <3>2
      <4>3. QED
        BY <3>1, <3>3, <4>1, <4>2
    <3>5. run'.ruined <=> run'.capital < setup.stake
      BY <3>1, <3>2
    <3>6. QED
      BY <1>1, <3>4, <3>5 DEF RuinAtFirst
  <2>6. QED
    BY <1>2, <2>4, <2>5
<1>5. CASE DrawBlock
  <2>1. PICK i \in DOMAIN bets : run' = [run EXCEPT !.block = Block(DayOf(bets[i]))]
    BY <1>5 DEF DrawBlock
  <2>2. run # None /\ run \in [capital : Int, ruined : BOOLEAN, block : SUBSET Nat, drawn : Seq(Int)]
    BY <1>5 DEF DrawBlock, Going, TestShape
  <2> DEFINE B == Block(DayOf(bets[i]))
  <2>3. B \subseteq DOMAIN bets
    BY DEF Block
  <2> HIDE DEF B
  <2>4. run' = [run EXCEPT !.block = B]
    BY <2>1 DEF B
  <2>5. /\ run' \in [capital : Int, ruined : BOOLEAN, block : SUBSET Nat, drawn : Seq(Int)]
        /\ run'.block = B /\ run'.capital = run.capital /\ run'.ruined = run.ruined /\ run'.drawn = run.drawn
    BY <1>3, <2>2, <2>3, <2>4
  <2>6. TestShape'
    BY <1>1, <2>3, <2>5 DEF TestShape
  <2>7. RuinAtFirst'
    BY <1>1, <2>2, <2>5 DEF RuinAtFirst
  <2>8. QED
    BY <1>2, <2>6, <2>7
<1>6. CASE Trade
  <2>1. PICK i \in run.block :
          run' = [capital |-> run.capital + bets[i].pnl, ruined |-> ~ Funded(run.capital + bets[i].pnl),
                  block |-> run.block \ {i}, drawn |-> Append(run.drawn, bets[i].pnl)]
    BY <1>6 DEF Trade
  <2>2. /\ run # None /\ run \in [capital : Int, ruined : BOOLEAN, block : SUBSET Nat, drawn : Seq(Int)]
        /\ run.block \subseteq DOMAIN bets /\ Len(run.drawn) < setup.horizon /\ ~ run.ruined
    BY <1>6 DEF Trade, Going, TestShape
  <2> DEFINE p == bets[i].pnl
             c == run.capital
             d == run.drawn
             e == Append(d, p)
             n == Len(d)
  <2>3. p \in Int /\ c \in Int /\ d \in Seq(Int)
    BY <1>0, <2>1, <2>2 DEF BetsAre
  <2>4. /\ run'.capital = c + p /\ (run'.ruined <=> ~ Funded(c + p)) /\ run'.block = run.block \ {i} /\ run'.drawn = e
        /\ run' = [capital |-> c + p, ruined |-> ~ Funded(c + p), block |-> run.block \ {i}, drawn |-> e]
    BY <2>1
  <2>5. /\ n <= setup.horizon /\ c = setup.capital + Whole(d)
        /\ \A k \in 1 .. n - 1 : setup.capital + Sums(d)[k] >= setup.stake
        /\ ~ (c < setup.stake) /\ n < setup.horizon
    BY <2>2 DEF RuinAtFirst
  <2> HIDE DEF p, c, d, e
  <2>6. e \in Seq(Int) /\ Len(e) = n + 1 /\ n \in Nat /\ e[n + 1] = p /\ \A k \in 1 .. n : e[k] = d[k]
    BY <2>3 DEF e
  <2>7. TestShape'
    <3>1. Funded(c + p) \in BOOLEAN /\ c + p \in Int
      BY <1>3, <2>3 DEF Funded
    <3>2. run' \in [capital : Int, ruined : BOOLEAN, block : SUBSET Nat, drawn : Seq(Int)]
      BY <2>2, <2>4, <2>6, <3>1
    <3>3. QED
      BY <1>1, <2>2, <2>4, <3>2 DEF TestShape
  <2>8. /\ (\A k \in 0 .. n : Sums(e)[k] = Sums(d)[k]) /\ Whole(e) = Whole(d) + p /\ Whole(d) \in Int
        /\ Whole(d) = Sums(d)[n]
    <3>1. Len(e) = Len(d) + 1 /\ \A k \in 1 .. Len(d) : e[k] = d[k]
      BY <2>6
    <3>2. (\A k \in 0 .. Len(d) : Sums(e)[k] = Sums(d)[k]) /\ Whole(e) = Whole(d) + e[Len(e)] /\ Whole(d) \in Int
      BY <2>3, <2>6, <3>1, SumsAppend
    <3>3. QED
      BY <2>6, <3>2 DEF Whole
  <2>9. \A k \in 1 .. n : setup.capital + Sums(e)[k] >= setup.stake
    <3>1. ASSUME NEW k \in 1 .. n PROVE setup.capital + Sums(e)[k] >= setup.stake
      <4>1. Sums(e)[k] = Sums(d)[k]
        BY <2>6, <2>8
      <4>2. CASE k \in 1 .. n - 1
        BY <2>5, <4>1, <4>2
      <4>3. CASE k = n
        BY <1>3, <2>3, <2>5, <2>8, <4>1, <4>3
      <4>4. QED
        BY <2>6, <4>2, <4>3
    <3>2. QED
      BY <3>1
  <2>10. RuinAtFirst'
    <3>1. Len(e) <= setup.horizon /\ Len(e) - 1 = n
      BY <1>3, <2>5, <2>6
    <3>2. c + p = setup.capital + Whole(e)
      <4> DEFINE w == Whole(d)
                 v == Whole(e)
      <4>1. v = w + p /\ w \in Int /\ c = setup.capital + w
        BY <2>5, <2>8
      <4> HIDE DEF w, v
      <4>2. c + p = setup.capital + v
        BY <1>3, <2>3, <4>1
      <4>3. QED
        BY <4>2 DEF v
    <3>3. ~ Funded(c + p) <=> c + p < setup.stake
      BY <1>3, <2>3 DEF Funded
    <3>4. QED
      BY <1>1, <2>4, <2>9, <3>1, <3>2, <3>3 DEF RuinAtFirst
  <2>11. QED
    BY <1>2, <2>7, <2>10
<1>7. QED
  BY <1>4, <1>5, <1>6

LEMMA TestKept == TestInv /\ [TestNext]_test_vars => TestInv'
<1> SUFFICES ASSUME TestInv, [TestNext]_test_vars PROVE TestInv'
  OBVIOUS
<1>1. CASE UNCHANGED test_vars
  <2>1. EquityAfter' = EquityAfter
    BY <1>1 DEF EquityAfter, Pnls, test_vars
  <2>2. QED
    BY <1>1, <2>1 DEF TestInv, TestShape, StakesCovered, RuinAtFirst, test_vars
<1>2. QED
  BY <1>1, EvaluateKeeps, RunKeeps DEF TestNext

\* The path that is summarised is the equity after each trade, with its peak and its
\* largest fall.
LEMMA PathIs ==
  ASSUME TestInv, NEW i \in 0 .. Len(bets)
  PROVE  Path[i].equity = EquityAfter[i] /\ HighWater(EquityAfter, i, Path[i].peak, Path[i].fall)
<1> USE DEF TestInv
<1>0. BetsAre /\ setup.capital \in Int
  BY BetsTyped, SetupTyped
<1> DEFINE n == Len(bets)
           V == [equity : Int, peak : Int, fall : Int]
           first == [equity |-> setup.capital, peak |-> setup.capital, fall |-> 0]
           Advance(v, p) == LET equity == v.equity + p
                              top == Max({v.peak, equity})
                          IN [equity |-> equity, peak |-> top, fall |-> Max({v.fall, top - equity})]
           Step == [k \in 1 .. n |-> [v \in V |-> Advance(v, bets[k].pnl)]]
           IsPathOf(f) == f = [k \in 0 .. n |-> IF k = 0 THEN first ELSE Advance(f[k - 1], bets[k].pnl)]
<1>1. n \in Nat /\ first \in V /\ \A k \in 1 .. n : bets[k].pnl \in Int
  BY <1>0 DEF BetsAre
<1>2. ASSUME NEW v \in V, NEW p \in Int PROVE Advance(v, p) \in V
  <2> DEFINE equity == v.equity + p
             top == Max({v.peak, equity})
             drop == Max({v.fall, top - equity})
  <2>1. equity \in Int /\ v.peak \in Int /\ v.fall \in Int
    OBVIOUS
  <2> HIDE DEF equity
  <2>2. top \in Int
    BY <2>1, GreatestOfTwo
  <2> HIDE DEF top
  <2>3. top - equity \in Int
    BY <2>1, <2>2
  <2>4. drop \in Int
    BY <2>1, <2>3, GreatestOfTwo
  <2>5. Advance(v, p) = [equity |-> equity, peak |-> top, fall |-> drop]
    BY DEF equity, top
  <2> HIDE DEF drop, Advance
  <2>6. QED
    BY <2>1, <2>2, <2>4, <2>5
<1> HIDE DEF Advance, first, V
<1>3. Step \in [1 .. n -> [V -> V]]
  BY <1>1, <1>2
<1>4. PICK f : IsPath(f, n, first, V, Step)
  <2> HIDE DEF Step, n
  <2>1. QED
    BY <1>1, <1>3, PathExists
<1>5. StepByStep(f, n, first, V, Step) /\ f = [k \in 0 .. n |-> f[k]]
  <2> HIDE DEF Step, n
  <2>1. StepByStep(f, n, first, V, Step)
    BY <1>1, <1>3, <1>4, PathTyped
  <2>2. QED
    BY <2>1 DEF StepByStep
<1>6. IsPathOf(f)
  <2>1. ASSUME NEW k \in 0 .. n PROVE f[k] = IF k = 0 THEN first ELSE Advance(f[k - 1], bets[k].pnl)
    <3>1. CASE k = 0
      BY <1>5, <3>1 DEF StepByStep
    <3>2. CASE k \in 1 .. n
      <4>1. k - 1 \in 0 .. n /\ f[k - 1] \in V /\ f[k] = Step[k][f[k - 1]]
        <5>1. k - 1 \in 0 .. n
          BY <1>1, <3>2
        <5> HIDE DEF Step, n
        <5>2. QED
          BY <1>5, <3>2, <5>1 DEF StepByStep
      <4>2. QED
        BY <3>2, <4>1
    <3>3. QED
      BY <1>1, <3>1, <3>2
  <2>2. QED
    BY <1>5, <2>1, Zenon
<1>7. Path = CHOOSE g : IsPathOf(g)
  BY DEF Path, Advance, first
<1>8. IsPathOf(Path)
  <2> HIDE DEF IsPathOf
  <2>1. QED
    BY <1>6, <1>7
<1> DEFINE path == Path
           curve == EquityAfter
<1>9. path[0] = first /\ \A k \in 1 .. n : path[k] = Advance(path[k - 1], bets[k].pnl)
  BY <1>1, <1>8
<1>10. curve[0] = setup.capital /\ \A k \in 1 .. n : curve[k] = curve[k - 1] + bets[k].pnl /\ curve[k - 1] \in Int
  <2>1. /\ \A k \in 0 .. n : curve[k] = setup.capital + Sums(Pnls)[k] /\ Sums(Pnls)[k] \in Int
        /\ Sums(Pnls)[0] = 0 /\ \A k \in 1 .. n : Sums(Pnls)[k] = Sums(Pnls)[k - 1] + Pnls[k]
    BY <1>0, SumsAre DEF EquityAfter, BetsAre
  <2>2. \A k \in 1 .. n : Pnls[k] = bets[k].pnl
    BY <1>0 DEF Pnls, BetsAre
  <2> HIDE DEF curve
  <2>3. ASSUME NEW k \in 1 .. n PROVE curve[k] = curve[k - 1] + bets[k].pnl /\ curve[k - 1] \in Int
    <3> DEFINE s == Sums(Pnls)[k - 1]
               p == bets[k].pnl
    <3>1. k - 1 \in 0 .. n /\ k \in 0 .. n
      BY <1>1
    <3>2. curve[k - 1] = setup.capital + s /\ curve[k] = setup.capital + (s + p) /\ s \in Int /\ p \in Int
      BY <1>1, <2>1, <2>2, <3>1
    <3> HIDE DEF s, p
    <3>3. curve[k] = curve[k - 1] + p /\ curve[k - 1] \in Int
      BY <1>0, <3>2
    <3>4. QED
      BY <3>3 DEF p
  <2>4. QED
    BY <1>0, <1>1, <2>1, <2>3
<1> DEFINE Good(k) == /\ path[k].equity = curve[k] /\ HighWater(curve, k, path[k].peak, path[k].fall)
                      /\ path[k].peak \in Int /\ path[k].fall \in Int /\ \A m \in 0 .. k : curve[m] \in Int
           T == {k \in 0 .. n : Good(k)}
<1> HIDE DEF path, curve, n
<1>11. 0 \in T
  <2>1. path[0].equity = curve[0] /\ path[0].peak = curve[0] /\ path[0].fall = 0 /\ curve[0] \in Int
    BY <1>0, <1>9, <1>10 DEF first
  <2>2. HighWater(curve, 0, path[0].peak, path[0].fall)
    BY <2>1, HighWaterFirst
  <2>3. Good(0)
    BY <2>1, <2>2
  <2>4. QED
    BY <1>1, <2>3
<1>12. ASSUME NEW k \in 0 .. n, k # n, k \in T PROVE k + 1 \in T
  <2>1. k + 1 \in 1 .. n /\ (k + 1) - 1 = k /\ Good(k) /\ k \in Nat
    BY <1>1, <1>12
  <2> DEFINE v == path[k]
             w == path[k + 1]
             p == bets[k + 1].pnl
  <2>2. w = Advance(v, p) /\ curve[k + 1] = curve[k] + p /\ p \in Int /\ curve[k] \in Int /\ v.equity = curve[k]
    BY <1>1, <1>9, <1>10, <2>1
  <2>3. curve[k + 1] \in Int
    BY <2>2
  <2> HIDE DEF v, w, p
  <2>4. /\ w.equity = curve[k + 1] /\ w.peak = Max({v.peak, curve[k + 1]})
        /\ w.fall = Max({v.fall, w.peak - curve[k + 1]})
    BY <2>2 DEF Advance
  <2>5. HighWater(curve, k, v.peak, v.fall) /\ v.peak \in Int /\ v.fall \in Int /\ \A m \in 0 .. k : curve[m] \in Int
    BY <2>1 DEF v
  <2>6. HighWater(curve, k + 1, w.peak, w.fall) /\ w.peak \in Int /\ w.fall \in Int
    <3> DEFINE top == v.peak
               drop == v.fall
               top2 == w.peak
               drop2 == w.fall
    <3>1. top2 = Max({top, curve[k + 1]}) /\ drop2 = Max({drop, top2 - curve[k + 1]})
      BY <2>4
    <3>2. /\ HighWater(curve, k, top, drop) /\ top \in Int /\ drop \in Int
          /\ \A m \in 0 .. k : curve[m] = curve[m] /\ curve[m] \in Int
      BY <2>5
    <3> HIDE DEF top, drop, top2, drop2
    <3>3. HighWater(curve, k + 1, top2, drop2) /\ top2 \in Int /\ drop2 \in Int
      BY <2>1, <2>3, <3>1, <3>2, HighWaterNext
    <3>4. QED
      BY <3>3 DEF top2, drop2
  <2>7. \A m \in 0 .. k + 1 : curve[m] \in Int
    BY <2>1, <2>3, <2>5
  <2>8. Good(k + 1)
    BY <2>4, <2>6, <2>7 DEF w
  <2>9. QED
    BY <1>1, <2>1, <2>8
<1> HIDE DEF T
<1>13. 0 .. n \subseteq T
  BY <1>1, <1>11, <1>12, UpTo
<1>14. QED
  BY <1>13 DEF T, path, curve, n

LEMMA TestSound == TestInv => PathExecutable /\ SummaryTrue /\ RuinAtFirst
<1> SUFFICES ASSUME TestInv PROVE PathExecutable /\ SummaryTrue
  BY DEF TestInv
<1>1. Len(bets) \in 0 .. Len(bets)
  BY BetsTyped DEF TestInv, BetsAre
<1>2. Summary.equity = EquityAfter[Len(bets)] /\ HighWater(EquityAfter, Len(bets), Summary.peak, Summary.fall)
  BY <1>1, PathIs DEF Summary
<1>3. SummaryTrue
  <2>1. DOMAIN EquityAfter = 0 .. Len(bets)
    BY DEF EquityAfter
  <2>2. QED
    BY <1>2, <2>1 DEF SummaryTrue, TestInv, StakesCovered, HighWater
<1>4. QED
  BY <1>3 DEF PathExecutable, TestInv, StakesCovered

\* No simulation of this repository reports an account that could not have been: the cash
\* is that of the outcomes that were known by then and never overdrawn, what is released
\* is released once and in time, the drawdown is the largest fall, and the ruin is the
\* first stake that cannot be paid (settle, summarize_trades, monte_carlo_risk_of_ruin).
THEOREM AccountsAlwaysTrue == SimulationsSpec => []AccountsTrue
<1>1. SimulationsInit => ReplayInv /\ TestInv
  BY InitReplay, InitTest DEF SimulationsInit
<1>2. ReplayInv /\ TestInv /\ [SimulationsNext]_<<replay_vars, test_vars>> => ReplayInv' /\ TestInv'
  <2>1. [SimulationsNext]_<<replay_vars, test_vars>> => [ReplayNext]_replay_vars /\ [TestNext]_test_vars
    BY DEF SimulationsNext
  <2>2. QED
    BY <2>1, ReplayKept, TestKept
<1>3. ReplayInv /\ TestInv => AccountsTrue
  BY ReplaySound, TestSound DEF AccountsTrue
<1>4. QED
  BY <1>1, <1>2, <1>3, PTL DEF SimulationsSpec
=============================================================================
