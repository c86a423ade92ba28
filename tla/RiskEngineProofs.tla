-------------------------- MODULE RiskEngineProofs --------------------------
(***************************************************************************)
(* What holds of RiskEngine for every set of orders, plans, prices, keys,  *)
(* processes and limits: its types and the validity of the books, the      *)
(* stops, and on top of them what is promised of orders, positions, money  *)
(* and the envelope.                                                       *)
(***************************************************************************)
EXTENDS RiskEngine, TotalProofs

USE DEF Times, Sides, CommandKinds

(* Amounts of money, and those computed from a plan, are natural numbers.  *)

\* Rounding up a natural amount gives a natural amount.
LEMMA MoneyUpNat ==
  ASSUME NEW x \in Nat, NEW d \in Nat, d > 0
  PROVE  MoneyUp(x, d) \in Nat
BY DEF MoneyUp

LEMMA ProceedsDownNat ==
  ASSUME NEW x \in Nat, NEW d \in Nat, d > 0
  PROVE  ProceedsDown(x, d) \in Nat
BY DEF ProceedsDown

LEMMA ProductNat ==
  ASSUME NEW x \in Nat, NEW y \in Nat
  PROVE  x * y \in Nat
OBVIOUS

LEMMA MoneyNat ==
  ASSUME NEW q \in Nat, NEW p \in Nat
  PROVE  Money(q, p) \in Nat /\ Proceeds(q, p) \in Nat
BY ProductNat, MoneyUpNat, ProceedsDownNat, OneAssumption DEF Money, Proceeds

\* The cost that leaves with a part of a position is never more than its cost.
LEMMA BasisShareBound ==
  ASSUME NEW cost \in Nat, NEW q \in Nat, NEW n \in Nat, q <= n, q > 0
  PROVE  BasisShare(cost, q, n) \in Nat /\ BasisShare(cost, q, n) <= cost
<1>1. CASE q = n
  BY <1>1 DEF BasisShare
<1>2. CASE q # n
  <2>1. cost * q \in Nat /\ cost * q <= cost * n
    OBVIOUS
  <2> DEFINE d == (cost * q) \div n
  <2>2. d \in Nat /\ d * n <= cost * q
    BY <2>1
  <2>3. d * n <= cost * n
    BY <2>1, <2>2
  <2>4. d <= cost
    BY <2>3, <2>2
  <2>5. QED
    BY <1>2, <2>2, <2>4 DEF BasisShare, ProceedsDown
<1>3. QED
  BY <1>1, <1>2

LEMMA FeeForNat ==
  ASSUME NEW p, PlanOK(p), NEW q \in Nat, NEW r \in Nat, r <= One
  PROVE  FeeFor(p, q, r) \in Nat
<1>1. p.feeRate \in Nat /\ One - r \in Nat
  BY FeeScaleAssumption, OneAssumption DEF PlanOK
<1>2. q * p.feeRate * r \in Nat /\ q * p.feeRate * r * (One - r) \in Nat
  BY <1>1, ProductNat
<1>3. FeeScale * One \in Nat /\ FeeScale * One > 0
  BY FeeScaleAssumption, OneAssumption
<1>4. FeeScale * One * One \in Nat /\ FeeScale * One * One > 0
  BY <1>3, OneAssumption
<1>5. QED
  BY <1>2, <1>3, <1>4, MoneyUpNat DEF FeeFor

LEMMA CostCapNat ==
  ASSUME NEW p, PlanOK(p)
  PROVE  CostCap(p) \in Nat
<1> DEFINE r == IF p.feeModel = "polymarket_curve" THEN Least(p.limit, One \div 2) ELSE p.limit
<1>1. p.quantity \in Nat /\ p.limit \in Nat /\ p.limit <= One
  BY DEF PlanOK
<1>2. One \div 2 \in Nat
  BY OneAssumption
<1>3. r \in Nat /\ r <= One
  BY <1>1, <1>2, OneAssumption DEF Least
<1>4. FeeFor(p, p.quantity, r) \in Nat
  BY <1>1, <1>3, FeeForNat
<1>5. Money(p.quantity, p.limit) \in Nat
  BY <1>1, MoneyNat
<1>6. QED
  BY <1>4, <1>5, DustAssumption DEF CostCap
-----------------------------------------------------------------------------
(* Type correctness, one lemma for each transaction.                       *)

LEMMA InitType == Init => TypeOK
BY AbsentAssumption DEF Init, TypeOK, FillRecords, CommandRecords, NoIntent

LEMMA DepositType ==
  ASSUME TypeOK, NEW k \in DepositKeys, NEW n \in Amounts, Deposit(k, n)
  PROVE  TypeOK'
<1>1. n \in Nat
  BY InputsAssumption
<1>2. bal' \in [Accounts -> Int]
  BY <1>1 DEF TypeOK, Deposit, Post, Accounts
<1>3. QED
  BY <1>1, <1>2 DEF TypeOK, Deposit, intentVars, positionVars

\* The marks are integers again, no lower than before or than the new result.
LEMMA HighWater ==
  ASSUME TypeOK, bal' \in [Accounts -> Int], UpdateHighWater
  PROVE  /\ control' \in [halted : BOOLEAN, paused : BOOLEAN, leaseExpires : Nat,
                          high : Int, businessHigh : Int]
         /\ control'.halted = control.halted
         /\ control'.paused = control.paused
         /\ control'.high >= control.high
         /\ control'.businessHigh >= control.businessHigh
         /\ control'.high >= Pnl(bal')
         /\ control'.businessHigh >= BusinessPnl(bal')
<1>1. Pnl(bal') \in Int /\ BusinessPnl(bal') \in Int
  BY DEF Pnl, BusinessPnl, Accounts
<1>2. control.high \in Int /\ control.businessHigh \in Int
  BY DEF TypeOK
<1>3. /\ Greatest(control.high, Pnl(bal')) \in Int
      /\ Greatest(control.high, Pnl(bal')) >= control.high
      /\ Greatest(control.high, Pnl(bal')) >= Pnl(bal')
      /\ Greatest(control.businessHigh, BusinessPnl(bal')) \in Int
      /\ Greatest(control.businessHigh, BusinessPnl(bal')) >= control.businessHigh
      /\ Greatest(control.businessHigh, BusinessPnl(bal')) >= BusinessPnl(bal')
  BY <1>1, <1>2 DEF Greatest
<1>4. QED
  BY <1>3 DEF UpdateHighWater, TypeOK

LEMMA OperatingCostType ==
  ASSUME TypeOK, NEW k \in ExpenseKeys, NEW n \in Amounts, RecordOperatingCost(k, n)
  PROVE  TypeOK'
<1>1. n \in Nat
  BY InputsAssumption
<1>2. bal' \in [Accounts -> Int]
  BY <1>1 DEF TypeOK, RecordOperatingCost, Post, Accounts
<1>3. control' \in [halted : BOOLEAN, paused : BOOLEAN, leaseExpires : Nat,
                    high : Int, businessHigh : Int]
  BY <1>2, HighWater DEF RecordOperatingCost
<1>4. QED
  BY <1>1, <1>2, <1>3 DEF TypeOK, RecordOperatingCost, intentVars, positionVars

LEMMA ControlType ==
  ASSUME TypeOK, ControlStep
  PROVE  TypeOK'
<1>1. ASSUME Halt PROVE TypeOK'
  BY <1>1 DEF TypeOK, Halt, ledgerVars, intentVars, positionVars
<1>2. ASSUME NEW t \in Times, NEW ttl \in 1 .. MaxTtl, RenewControlLease(t, ttl)
      PROVE  TypeOK'
  BY <1>2, TimeAssumption DEF TypeOK, RenewControlLease, ledgerVars, intentVars, positionVars
<1>3. ASSUME NEW c \in Commands, NEW kind \in CommandKinds, NEW e \in Times, NEW t \in Times,
             ProposeCommand(c, kind, e, t)
      PROVE  TypeOK'
  BY <1>3 DEF TypeOK, ProposeCommand, CommandRecords, ledgerVars, intentVars, positionVars
<1>4. ASSUME NEW c \in Commands, NEW d \in Times, NEW t \in Times, ConsumeControlCommand(c, d, t)
      PROVE  TypeOK'
  <2>1. commands[c] \in [status : {"PROPOSED", "CONSUMED"}, kind : CommandKinds,
                         created : Times, expires : Times]
    BY <1>4 DEF TypeOK, CommandRecords, NoCommand, ConsumeControlCommand
  <2>2. commands' \in [Commands -> CommandRecords]
    BY <1>4, <2>1 DEF TypeOK, CommandRecords, ConsumeControlCommand
  <2>3. QED
    BY <1>4, <2>2 DEF TypeOK, ConsumeControlCommand, ledgerVars, intentVars, positionVars
<1>5. QED
  BY <1>1, <1>2, <1>3, <1>4 DEF ControlStep

LEMMA LeaseType ==
  ASSUME TypeOK, LeaseStep
  PROVE  TypeOK'
<1>1. ASSUME NEW o \in Owners, NEW t \in Times, NEW ttl \in 1 .. MaxTtl, AcquireExecutor(o, t, ttl)
      PROVE  TypeOK'
  BY <1>1, TimeAssumption DEF TypeOK, AcquireExecutor, EpochFor, ledgerVars, intentVars, positionVars
<1>2. ASSUME NEW ex \in Executors, NEW t \in Times, ReleaseExecutor(ex, t)
      PROVE  TypeOK'
  BY <1>2, TimeAssumption DEF TypeOK, ReleaseExecutor, ledgerVars, intentVars, positionVars
<1>3. QED
  BY <1>1, <1>2 DEF LeaseStep

LEMMA ApproveType ==
  ASSUME TypeOK, NEW a \in Approvals, NEW p \in Plans, NEW t \in Times, ApproveSimulated(a, p, t)
  PROVE  TypeOK'
BY DEF TypeOK, ApproveSimulated, ledgerVars, positionVars

\* What a reservation does to the books.
LEMMA PrepareEffect ==
  ASSUME TypeOK, NEW a \in Approvals, NEW p \in Plans, NEW t \in Times, Prepare(a, p, t)
  PROVE  \E r \in Nat :
           /\ r = IF p.side = "BUY" THEN CostCap(p) ELSE 0
           /\ reserved' = [reserved EXCEPT ![a] = r]
           /\ bal' \in [Accounts -> Int]
           /\ bal'["cash"] = bal["cash"] - r
           /\ bal'["cash"] >= 0
           /\ bal'["reserved"] = bal["reserved"] + r
           /\ \A k \in Accounts \ {"cash", "reserved"} : bal'[k] = bal[k]
<1> DEFINE r == IF p.side = "BUY" THEN CostCap(p) ELSE 0
<1>1. r \in Nat
  BY CostCapNat, PlansAssumption
<1>2. /\ Post([cash |-> -r, reserved |-> r])
      /\ bal["cash"] >= r
      /\ reserved' = [reserved EXCEPT ![a] = r]
  BY DEF Prepare, ReserveIntent
<1> HIDE DEF r
<1>3. /\ bal' \in [Accounts -> Int]
      /\ bal'["cash"] = bal["cash"] - r
      /\ bal'["cash"] >= 0
      /\ bal'["reserved"] = bal["reserved"] + r
      /\ \A k \in Accounts \ {"cash", "reserved"} : bal'[k] = bal[k]
  BY <1>1, <1>2 DEF TypeOK, Post, Accounts
<1>4. QED
  BY <1>1, <1>2, <1>3 DEF r

LEMMA PrepareType ==
  ASSUME TypeOK, NEW a \in Approvals, NEW p \in Plans, NEW t \in Times, Prepare(a, p, t)
  PROVE  TypeOK'
<1>1. bal' \in [Accounts -> Int] /\ reserved' \in [Approvals -> Nat]
  <2>1. PICK r \in Nat : /\ reserved' = [reserved EXCEPT ![a] = r]
                         /\ bal' \in [Accounts -> Int]
    BY PrepareEffect
  <2>2. QED
    BY <2>1 DEF TypeOK
<1>2. state' \in [Approvals -> OrderStates \cup {NoIntent}] /\ updated' \in [Approvals -> Nat]
  BY TimeAssumption DEF TypeOK, Prepare, ReserveIntent, OrderStates
<1>3. \A b \in Approvals : state'[b] # NoIntent => approval'[b] \in Plans
  BY DEF TypeOK, Prepare, ReserveIntent, ApprovalUsable
<1>4. QED
  BY <1>1, <1>2, <1>3 DEF TypeOK, Prepare, ReserveIntent, positionVars

\* A release moves the reservation back to cash, or only clears it when its
\* ledger transaction was already posted.
LEMMA ReleaseEffect ==
  ASSUME TypeOK, NEW a \in Approvals, Release(a)
  PROVE  /\ bal' \in [Accounts -> Int]
         /\ reserved' = [reserved EXCEPT ![a] = 0]
         /\ released' \in [Approvals -> Nat]
         /\ \A b \in Approvals : released'[b] # 0 => b = a \/ released[b] # 0
         /\ released[a] = 0 => /\ bal'["reserved"] = bal["reserved"] - reserved[a]
                               /\ bal'["cash"] = bal["cash"] + reserved[a]
         /\ \A k \in Accounts \ {"cash", "reserved"} : bal'[k] = bal[k]
<1>1. CASE reserved[a] = 0
  BY <1>1 DEF Release, TypeOK, Accounts
<1>2. CASE reserved[a] # 0 /\ released[a] = 0
  BY <1>2 DEF Release, TypeOK, Accounts, Post
<1>3. CASE reserved[a] # 0 /\ released[a] # 0
  BY <1>3 DEF Release, TypeOK, Accounts
<1>4. QED
  BY <1>1, <1>2, <1>3

LEMMA TransitionType ==
  ASSUME TypeOK, NEW a \in Approvals, NEW s \in OrderStates, NEW t \in Times, NEW ex,
         Transition(a, s, t, ex)
  PROVE  TypeOK'
<1>1. /\ bal' \in [Accounts -> Int]
      /\ reserved' \in [Approvals -> Nat]
      /\ released' \in [Approvals -> Nat]
  <2>1. CASE s \in Releasing
    BY <2>1, ReleaseEffect DEF Transition, TypeOK
  <2>2. CASE s \notin Releasing
    BY <2>2 DEF Transition, TypeOK
  <2>3. QED
    BY <2>1, <2>2
<1>2. state[a] # NoIntent
  BY DEF Transition, TransitionAllowed, Allowed, NoIntent, OrderStates, Terminal
<1>3. /\ state' \in [Approvals -> OrderStates \cup {NoIntent}]
      /\ updated' \in [Approvals -> Nat]
      /\ approval' = approval
      /\ \A b \in Approvals : state'[b] # NoIntent => approval'[b] \in Plans
  BY <1>2, TimeAssumption DEF TypeOK, Transition
<1>4. QED
  BY <1>1, <1>3 DEF TypeOK, Transition, positionVars

LEMMA TransitionHaltsType ==
  ASSUME TypeOK, NEW a \in Approvals, NEW t \in Times, NEW ex, TransitionHalts(a, t, ex)
  PROVE  TypeOK'
BY DEF TypeOK, TransitionHalts, ledgerVars, intentVars, positionVars

LEMMA ConfirmCancelType ==
  ASSUME TypeOK, NEW a \in Approvals, NEW n, NEW t \in Times, ConfirmCancel(a, n, t)
  PROVE  TypeOK'
<1>1. Release(a) /\ state[a] # NoIntent
  BY DEF ConfirmCancel, NoIntent
<1>2. state' \in [Approvals -> OrderStates \cup {NoIntent}] /\ updated' \in [Approvals -> Nat]
  BY TimeAssumption DEF TypeOK, ConfirmCancel, OrderStates, Terminal
<1>3. \A b \in Approvals : state'[b] # NoIntent => approval'[b] \in Plans
  BY <1>1 DEF TypeOK, ConfirmCancel
<1>4. /\ bal' \in [Accounts -> Int]
      /\ reserved' \in [Approvals -> Nat]
      /\ released' \in [Approvals -> Nat]
  BY <1>1, ReleaseEffect DEF TypeOK
<1>5. QED
  BY <1>2, <1>3, <1>4 DEF TypeOK, ConfirmCancel, positionVars
-----------------------------------------------------------------------------
(* Fills and settlement.                                                   *)

\* A fill is of an intent, whose plan was approved; its numbers are natural.
LEMMA FillFacts ==
  ASSUME TypeOK, NEW f \in Trades, NEW a \in Approvals, NEW q \in 1 .. MaxQuantity,
         NEW p \in 1 .. One, NEW fee \in 0 .. MaxFee, NEW t \in Times, NEW ex,
         NEW l \in Levels \cup {NoLevel}, FillAllowed(f, a, q, p, fee, t, ex, l)
  PROVE  /\ PlanOf(a) \in Plans
         /\ PlanOK(PlanOf(a))
         /\ PlanOf(a).asset \in Assets
         /\ PlanOf(a).cluster \in Clusters
         /\ PlanOf(a).side \in Sides
         /\ PlanOf(a).quantity \in Nat
         /\ q \in Nat /\ q > 0 /\ p \in Nat /\ fee \in Nat /\ t \in Nat
         /\ filled[a] + q <= PlanOf(a).quantity
         /\ state[a] \notin Terminal \cup {"PREPARED", NoIntent}
         /\ fills[f] = NoFill
         /\ cluster[PlanOf(a).asset] \in {NoCluster, PlanOf(a).cluster}
<1>1. /\ state[a] \notin Terminal \cup {"PREPARED", NoIntent}
      /\ filled[a] + q <= PlanOf(a).quantity
      /\ fills[f] = NoFill
      /\ cluster[PlanOf(a).asset] \in {NoCluster, PlanOf(a).cluster}
  BY DEF FillAllowed
<1>2. PlanOf(a) \in Plans
  BY <1>1 DEF TypeOK, PlanOf
<1>3. PlanOK(PlanOf(a))
  BY <1>2, PlansAssumption
<1>4. q \in Nat /\ q > 0 /\ p \in Nat /\ fee \in Nat /\ t \in Nat
  BY InputsAssumption, OneAssumption, TimeAssumption
<1>5. QED
  BY <1>1, <1>2, <1>3, <1>4 DEF PlanOK

LEMMA FillIntentType ==
  ASSUME TypeOK, NEW a \in Approvals, NEW q \in Nat, NEW t \in Nat, NEW left \in Nat,
         FillIntent(a, q, t, left), state[a] # NoIntent, approval' = approval
  PROVE  /\ filled' \in [Approvals -> Nat]
         /\ state' \in [Approvals -> OrderStates \cup {NoIntent}]
         /\ updated' \in [Approvals -> Nat]
         /\ reserved' \in [Approvals -> Nat]
         /\ released' \in [Approvals -> Nat]
         /\ \A b \in Approvals : state'[b] # NoIntent => approval'[b] \in Plans
<1>1. filled' \in [Approvals -> Nat] /\ reserved' \in [Approvals -> Nat]
      /\ released' \in [Approvals -> Nat]
  BY DEF FillIntent, TypeOK
<1>2. updated' \in [Approvals -> Nat]
  BY DEF FillIntent, TypeOK, Greatest
<1>3. state' \in [Approvals -> OrderStates \cup {NoIntent}]
  BY DEF FillIntent, TypeOK, OrderStates, Terminal
<1>4. \A b \in Approvals : state'[b] # NoIntent => state[b] # NoIntent
  BY DEF FillIntent, TypeOK
<1>5. QED
  BY <1>1, <1>2, <1>3, <1>4 DEF TypeOK

LEMMA RecordFillType ==
  ASSUME TypeOK, NEW f \in Trades, NEW a \in Approvals, NEW q \in Nat, NEW gross \in Nat,
         NEW fee \in Nat, NEW l \in Levels \cup {NoLevel}, RecordFill(f, a, q, gross, fee, l),
         PlanOf(a).side \in Sides
  PROVE  fills' \in [Trades -> FillRecords] /\ consumed' \in [Levels \X Sides -> Nat]
<1>1. fills' \in [Trades -> FillRecords]
  BY DEF RecordFill, TypeOK, FillRecords
<1>2. CASE l = NoLevel
  BY <1>1, <1>2 DEF RecordFill, TypeOK
<1>3. CASE l \in Levels
  <2>1. <<l, PlanOf(a).side>> \in Levels \X Sides
    BY <1>3
  <2>2. l # NoLevel
    BY <1>3, AbsentAssumption
  <2>3. QED
    BY <1>1, <2>1, <2>2 DEF RecordFill, TypeOK
<1>4. QED
  BY <1>2, <1>3

\* What a buy does: the debit moves from the reservation to the position and
\* the fees, and the rest of a filled order's reservation to cash.
LEMMA BuyFillEffect ==
  ASSUME TypeOK, NEW f \in Trades, NEW a \in Approvals, NEW q \in 1 .. MaxQuantity,
         NEW p \in 1 .. One, NEW fee \in 0 .. MaxFee, NEW t \in Times, NEW ex,
         NEW l \in Levels \cup {NoLevel}, ApplyBuyFill(f, a, q, p, fee, t, ex, l)
  PROVE  \E gross \in Nat, left \in Nat, back \in Nat :
           /\ gross = Money(q, p)
           /\ left = reserved[a] - gross - fee
           /\ back = IF filled[a] + q = PlanOf(a).quantity THEN left ELSE 0
           /\ back # 0 => released[a] = 0
           /\ bal' \in [Accounts -> Int]
           /\ bal'["cash"] = bal["cash"] + back
           /\ bal'["reserved"] = bal["reserved"] - gross - fee - back
           /\ bal'["inventory_cost"] = bal["inventory_cost"] + gross
           /\ bal'["fees"] = bal["fees"] + fee
           /\ \A k \in {"realized_income", "operating_cost", "contributed_capital"} :
                bal'[k] = bal[k]
           /\ shares' = [shares EXCEPT ![PlanOf(a).asset] = @ + q]
           /\ qty' = [qty EXCEPT ![PlanOf(a).asset] = @ + q]
           /\ basis' = [basis EXCEPT ![PlanOf(a).asset] = @ + gross]
           /\ FillIntent(a, q, t, left)
           /\ RecordFill(f, a, q, gross, fee, l)
<1> DEFINE gross == Money(q, p)
           left  == reserved[a] - gross - fee
           back  == IF filled[a] + q = PlanOf(a).quantity THEN left ELSE 0
<1>1. FillAllowed(f, a, q, p, fee, t, ex, l)
  BY DEF ApplyBuyFill
<1>2. q \in Nat /\ p \in Nat /\ fee \in Nat
  BY <1>1, FillFacts
<1>3. gross \in Nat
  BY <1>2, MoneyNat
<1>4. /\ back # 0 => released[a] = 0
      /\ Post([cash |-> back, reserved |-> -gross - fee - back,
               inventory_cost |-> gross, fees |-> fee])
      /\ shares' = [shares EXCEPT ![PlanOf(a).asset] = @ + q]
      /\ qty' = [qty EXCEPT ![PlanOf(a).asset] = @ + q]
      /\ basis' = [basis EXCEPT ![PlanOf(a).asset] = @ + gross]
      /\ FillIntent(a, q, t, left)
      /\ RecordFill(f, a, q, gross, fee, l)
  BY DEF ApplyBuyFill
<1>5. reserved[a] \in Nat /\ gross + fee <= reserved[a]
  BY <1>1 DEF TypeOK, FillAllowed, ApplyBuyFill
<1> HIDE DEF gross
<1>6. left \in Nat /\ back \in Nat
  BY <1>2, <1>3, <1>4, <1>5
<1> HIDE DEF left, back
<1>7. /\ bal' \in [Accounts -> Int]
      /\ bal'["cash"] = bal["cash"] + back
      /\ bal'["reserved"] = bal["reserved"] - gross - fee - back
      /\ bal'["inventory_cost"] = bal["inventory_cost"] + gross
      /\ bal'["fees"] = bal["fees"] + fee
      /\ \A k \in {"realized_income", "operating_cost", "contributed_capital"} :
           bal'[k] = bal[k]
  BY <1>2, <1>3, <1>4, <1>6 DEF TypeOK, Post, Accounts
<1>8. QED
  BY <1>3, <1>4, <1>6, <1>7 DEF gross, left, back

LEMMA BuyFillType ==
  ASSUME TypeOK, NEW f \in Trades, NEW a \in Approvals, NEW q \in 1 .. MaxQuantity,
         NEW p \in 1 .. One, NEW fee \in 0 .. MaxFee, NEW t \in Times, NEW ex,
         NEW l \in Levels \cup {NoLevel}, ApplyBuyFill(f, a, q, p, fee, t, ex, l)
  PROVE  TypeOK'
<1>1. FillAllowed(f, a, q, p, fee, t, ex, l)
  BY DEF ApplyBuyFill
<1>2. /\ PlanOf(a).asset \in Assets /\ PlanOf(a).cluster \in Clusters
      /\ PlanOf(a).side \in Sides
      /\ q \in Nat /\ fee \in Nat /\ t \in Nat /\ state[a] # NoIntent
  BY <1>1, FillFacts
<1>3. PICK gross \in Nat, left \in Nat :
        /\ bal' \in [Accounts -> Int]
        /\ shares' = [shares EXCEPT ![PlanOf(a).asset] = @ + q]
        /\ qty' = [qty EXCEPT ![PlanOf(a).asset] = @ + q]
        /\ basis' = [basis EXCEPT ![PlanOf(a).asset] = @ + gross]
        /\ FillIntent(a, q, t, left)
        /\ RecordFill(f, a, q, gross, fee, l)
  BY BuyFillEffect
<1>4. /\ approval' = approval /\ settledBy' = settledBy /\ commands' = commands
      /\ deposited' = deposited /\ expensed' = expensed /\ lease' = lease
      /\ cluster' = [cluster EXCEPT ![PlanOf(a).asset] = PlanOf(a).cluster]
      /\ UpdateHighWater
  BY DEF ApplyBuyFill
<1>5. /\ shares' \in [Assets -> Int]
      /\ qty' \in [Assets -> Nat]
      /\ basis' \in [Assets -> Nat]
      /\ cluster' \in [Assets -> Clusters \cup {NoCluster}]
  BY <1>2, <1>3, <1>4 DEF TypeOK
<1>6. fills' \in [Trades -> FillRecords] /\ consumed' \in [Levels \X Sides -> Nat]
  BY <1>2, <1>3, RecordFillType
<1>7. /\ filled' \in [Approvals -> Nat]
      /\ state' \in [Approvals -> OrderStates \cup {NoIntent}]
      /\ updated' \in [Approvals -> Nat]
      /\ reserved' \in [Approvals -> Nat]
      /\ released' \in [Approvals -> Nat]
      /\ \A b \in Approvals : state'[b] # NoIntent => approval'[b] \in Plans
  BY <1>2, <1>3, <1>4, FillIntentType
<1>8. control' \in [halted : BOOLEAN, paused : BOOLEAN, leaseExpires : Nat,
                    high : Int, businessHigh : Int]
  BY <1>3, <1>4, HighWater
<1>9. QED
  BY <1>3, <1>4, <1>5, <1>6, <1>7, <1>8 DEF TypeOK

\* What a sell does: the sold part of the cost leaves the position, and the
\* difference with the proceeds is realized.
LEMMA SellFillEffect ==
  ASSUME TypeOK, NEW f \in Trades, NEW a \in Approvals, NEW q \in 1 .. MaxQuantity,
         NEW p \in 1 .. One, NEW fee \in 0 .. MaxFee, NEW t \in Times, NEW ex,
         NEW l \in Levels \cup {NoLevel}, ApplySellFill(f, a, q, p, fee, t, ex, l)
  PROVE  \E gross \in Nat, cost \in Nat :
           /\ fee <= gross
           /\ q <= qty[PlanOf(a).asset]
           /\ cost <= basis[PlanOf(a).asset]
           /\ q = qty[PlanOf(a).asset] => cost = basis[PlanOf(a).asset]
           /\ bal' \in [Accounts -> Int]
           /\ bal'["cash"] = bal["cash"] + gross - fee
           /\ bal'["reserved"] = bal["reserved"]
           /\ bal'["inventory_cost"] = bal["inventory_cost"] - cost
           /\ bal'["fees"] = bal["fees"] + fee
           /\ bal'["realized_income"] = bal["realized_income"] + cost - gross
           /\ \A k \in {"operating_cost", "contributed_capital"} : bal'[k] = bal[k]
           /\ shares' = [shares EXCEPT ![PlanOf(a).asset] = @ - q]
           /\ qty' = [qty EXCEPT ![PlanOf(a).asset] = @ - q]
           /\ basis' = [basis EXCEPT ![PlanOf(a).asset] = @ - cost]
           /\ FillIntent(a, q, t, 0)
           /\ RecordFill(f, a, q, gross, fee, l)
<1> DEFINE x     == PlanOf(a).asset
           gross == Proceeds(q, p)
           cost  == BasisShare(basis[x], q, qty[x])
<1>1. FillAllowed(f, a, q, p, fee, t, ex, l)
  BY DEF ApplySellFill
<1>2. q \in Nat /\ q > 0 /\ p \in Nat /\ fee \in Nat /\ x \in Assets
  BY <1>1, FillFacts
<1>3. gross \in Nat
  BY <1>2, MoneyNat
<1>4. /\ Post([cash |-> gross - fee, inventory_cost |-> -cost,
               realized_income |-> cost - gross, fees |-> fee])
      /\ shares' = [shares EXCEPT ![x] = @ - q]
      /\ qty' = [qty EXCEPT ![x] = @ - q]
      /\ basis' = [basis EXCEPT ![x] = @ - cost]
      /\ FillIntent(a, q, t, 0)
      /\ RecordFill(f, a, q, gross, fee, l)
  BY DEF ApplySellFill
<1>5. /\ basis[x] \in Nat /\ qty[x] \in Nat
      /\ q <= qty[x] /\ fee <= gross
  BY <1>1, <1>2 DEF TypeOK, FillAllowed, ApplySellFill
<1>6. cost \in Nat /\ cost <= basis[x]
  BY <1>2, <1>4, <1>5, BasisShareBound
<1>7. q = qty[x] => cost = basis[x]
  BY DEF BasisShare
<1> HIDE DEF gross, cost
<1>8. /\ bal' \in [Accounts -> Int]
      /\ bal'["cash"] = bal["cash"] + gross - fee
      /\ bal'["reserved"] = bal["reserved"]
      /\ bal'["inventory_cost"] = bal["inventory_cost"] - cost
      /\ bal'["fees"] = bal["fees"] + fee
      /\ bal'["realized_income"] = bal["realized_income"] + cost - gross
      /\ \A k \in {"operating_cost", "contributed_capital"} : bal'[k] = bal[k]
  BY <1>2, <1>3, <1>4, <1>6 DEF TypeOK, Post, Accounts
<1>9. QED
  BY <1>3, <1>4, <1>5, <1>6, <1>7, <1>8

LEMMA SellFillType ==
  ASSUME TypeOK, NEW f \in Trades, NEW a \in Approvals, NEW q \in 1 .. MaxQuantity,
         NEW p \in 1 .. One, NEW fee \in 0 .. MaxFee, NEW t \in Times, NEW ex,
         NEW l \in Levels \cup {NoLevel}, ApplySellFill(f, a, q, p, fee, t, ex, l)
  PROVE  TypeOK'
<1>1. FillAllowed(f, a, q, p, fee, t, ex, l)
  BY DEF ApplySellFill
<1>2. /\ PlanOf(a).asset \in Assets /\ PlanOf(a).side \in Sides
      /\ q \in Nat /\ fee \in Nat /\ t \in Nat /\ state[a] # NoIntent
  BY <1>1, FillFacts
<1>3. PICK gross \in Nat, cost \in Nat :
        /\ q <= qty[PlanOf(a).asset]
        /\ cost <= basis[PlanOf(a).asset]
        /\ bal' \in [Accounts -> Int]
        /\ shares' = [shares EXCEPT ![PlanOf(a).asset] = @ - q]
        /\ qty' = [qty EXCEPT ![PlanOf(a).asset] = @ - q]
        /\ basis' = [basis EXCEPT ![PlanOf(a).asset] = @ - cost]
        /\ FillIntent(a, q, t, 0)
        /\ RecordFill(f, a, q, gross, fee, l)
  BY SellFillEffect
<1>4. /\ approval' = approval /\ settledBy' = settledBy /\ commands' = commands
      /\ deposited' = deposited /\ expensed' = expensed /\ lease' = lease
      /\ cluster' = cluster
      /\ UpdateHighWater
  BY DEF ApplySellFill
<1>5. /\ shares' \in [Assets -> Int]
      /\ qty' \in [Assets -> Nat]
      /\ basis' \in [Assets -> Nat]
  BY <1>2, <1>3 DEF TypeOK
<1>6. fills' \in [Trades -> FillRecords] /\ consumed' \in [Levels \X Sides -> Nat]
  BY <1>2, <1>3, RecordFillType
<1>7. /\ filled' \in [Approvals -> Nat]
      /\ state' \in [Approvals -> OrderStates \cup {NoIntent}]
      /\ updated' \in [Approvals -> Nat]
      /\ reserved' \in [Approvals -> Nat]
      /\ released' \in [Approvals -> Nat]
      /\ \A b \in Approvals : state'[b] # NoIntent => approval'[b] \in Plans
  BY <1>2, <1>3, <1>4, FillIntentType
<1>8. control' \in [halted : BOOLEAN, paused : BOOLEAN, leaseExpires : Nat,
                    high : Int, businessHigh : Int]
  BY <1>3, <1>4, HighWater
<1>9. QED
  BY <1>3, <1>4, <1>5, <1>6, <1>7, <1>8 DEF TypeOK

\* What a settlement does: the whole cost leaves, the payout is credited.
LEMMA SettleEffect ==
  ASSUME TypeOK, NEW x \in Assets, NEW payout \in 0 .. One, NEW sid \in SettlementIds,
         NEW t \in Times, Settle(x, payout, sid, t)
  PROVE  \E credit \in Nat :
           /\ bal' \in [Accounts -> Int]
           /\ bal'["cash"] = bal["cash"] + credit
           /\ bal'["reserved"] = bal["reserved"]
           /\ bal'["inventory_cost"] = bal["inventory_cost"] - basis[x]
           /\ bal'["realized_income"] = bal["realized_income"] + basis[x] - credit
           /\ \A k \in {"fees", "operating_cost", "contributed_capital"} : bal'[k] = bal[k]
<1> DEFINE credit == Proceeds(qty[x], payout)
<1>1. credit \in Nat
  <2>1. qty[x] \in Nat /\ payout \in Nat
    BY OneAssumption DEF TypeOK
  <2>2. QED
    BY <2>1, MoneyNat
<1>2. Post([cash |-> credit, inventory_cost |-> -basis[x],
            realized_income |-> basis[x] - credit])
  BY DEF Settle
<1>3. basis[x] \in Nat
  BY DEF TypeOK
<1> HIDE DEF credit
<1>4. QED
  BY <1>1, <1>2, <1>3 DEF TypeOK, Post, Accounts

LEMMA SettleType ==
  ASSUME TypeOK, NEW x \in Assets, NEW payout \in 0 .. One, NEW sid \in SettlementIds,
         NEW t \in Times, Settle(x, payout, sid, t)
  PROVE  TypeOK'
<1>1. bal' \in [Accounts -> Int]
  <2>1. PICK credit \in Nat : bal' \in [Accounts -> Int]
    BY SettleEffect
  <2>2. QED
    BY <2>1
<1>2. /\ shares' \in [Assets -> Int]
      /\ qty' \in [Assets -> Nat]
      /\ basis' \in [Assets -> Nat]
      /\ settledBy' \in [Assets -> SettlementIds \cup {NoSettlement}]
  BY DEF TypeOK, Settle
<1>3. control' \in [halted : BOOLEAN, paused : BOOLEAN, leaseExpires : Nat,
                    high : Int, businessHigh : Int]
  BY <1>1, HighWater DEF Settle
<1>4. QED
  BY <1>1, <1>2, <1>3 DEF TypeOK, Settle, intentVars

\* Every step keeps the types; the temporal theorem follows.
LEMMA NextType == TypeOK /\ [Next]_vars => TypeOK'
<1> SUFFICES ASSUME TypeOK, [Next]_vars
             PROVE  TypeOK'
  OBVIOUS
<1>1. CASE MoneyStep
  BY <1>1, DepositType, OperatingCostType DEF MoneyStep
<1>2. CASE ControlStep
  BY <1>2, ControlType
<1>3. CASE LeaseStep
  BY <1>3, LeaseType
<1>4. CASE OrderStep
  BY <1>4, ApproveType, PrepareType, TransitionType, TransitionHaltsType, ConfirmCancelType
     DEF OrderStep
<1>5. CASE FillStep
  BY <1>5, BuyFillType, SellFillType DEF FillStep, ApplyFill
<1>6. CASE SettleStep
  BY <1>6, SettleType DEF SettleStep
<1>7. CASE UNCHANGED vars
  BY <1>7 DEF TypeOK, vars, ledgerVars, intentVars, positionVars
<1>8. QED
  BY <1>1, <1>2, <1>3, <1>4, <1>5, <1>6, <1>7 DEF Next

\* The tables of the journal keep their types, and every intent an approved
\* plan, for all orders, plans, prices and callers.
THEOREM TypeCorrect == Spec => []TypeOK
BY InitType, NextType, PTL DEF Spec
-----------------------------------------------------------------------------
(* The books.  LedgerValid is not inductive: a release that was already     *)
(* posted would leave the reserved account too high, and a reservation of   *)
(* an intent that does not exist yet would be overwritten, and a sell would *)
(* drop one without a posting.  Reservations adds that none of them occurs. *)

Unreserved(a) ==
  \/ state[a] \in Terminal \cup {NoIntent}
  \/ ~IsBuy(a)

Reservations ==
  /\ Total(reserved) = bal["reserved"]
  /\ \A a \in Approvals :
       /\ Unreserved(a) => reserved[a] = 0
       /\ released[a] # 0 => state[a] \in Terminal

Positions ==
  /\ Total(basis) = bal["inventory_cost"]
  /\ \A x \in Assets : /\ qty[x] = shares[x]
                       /\ qty[x] = 0 => basis[x] = 0

BooksInv == TypeOK /\ Reservations /\ Positions /\ bal["cash"] >= 0

LEMMA BooksValid == BooksInv => LedgerValid
BY DEF BooksInv, TypeOK, Reservations, Unreserved, Positions, LedgerValid

LEMMA InitBooks == Init => BooksInv
<1> SUFFICES ASSUME Init PROVE BooksInv
  OBVIOUS
<1>1. Total(reserved) = 0 /\ Total(basis) = 0
  BY TotalZero, FiniteAssumption DEF Init
<1>2. QED
  BY <1>1, InitType
     DEF Init, BooksInv, Reservations, Unreserved, IsBuy, PlanOf, Positions, Accounts,
         NoIntent, Terminal

\* One entry of a table changes: so does its sum, by as much.
LEMMA ReservedChange ==
  ASSUME TypeOK, NEW a \in Approvals, NEW r \in Nat, reserved' = [reserved EXCEPT ![a] = r]
  PROVE  Total(reserved') = Total(reserved) + r - reserved[a]
<1>1. reserved \in [Approvals -> Nat]
  BY DEF TypeOK
<1>2. QED
  BY <1>1, TotalExcept, FiniteAssumption

LEMMA BasisChange ==
  ASSUME TypeOK, NEW x \in Assets, NEW n \in Nat, basis' = [basis EXCEPT ![x] = n]
  PROVE  Total(basis') = Total(basis) + n - basis[x]
<1>1. basis \in [Assets -> Nat]
  BY DEF TypeOK
<1>2. QED
  BY <1>1, TotalExcept, FiniteAssumption

LEMMA MoneyBooks ==
  ASSUME BooksInv, MoneyStep, TypeOK'
  PROVE  BooksInv'
<1>1. ASSUME NEW k \in DepositKeys, NEW n \in Amounts, Deposit(k, n)
      PROVE  BooksInv'
  <2>1. n \in Nat
    BY InputsAssumption
  <2>2. /\ bal'["cash"] = bal["cash"] + n
        /\ bal'["reserved"] = bal["reserved"]
        /\ bal'["inventory_cost"] = bal["inventory_cost"]
    BY <1>1, <2>1 DEF BooksInv, TypeOK, Deposit, Post, Accounts
  <2>3. bal["cash"] \in Int
    BY DEF BooksInv, TypeOK, Accounts
  <2>4. QED
    BY <1>1, <2>1, <2>2, <2>3
       DEF BooksInv, Reservations, Unreserved, IsBuy, PlanOf,
           Positions, Deposit, intentVars, positionVars
<1>2. ASSUME NEW k \in ExpenseKeys, NEW n \in Amounts, RecordOperatingCost(k, n)
      PROVE  BooksInv'
  <2>1. n \in Nat
    BY InputsAssumption
  <2>2. /\ bal'["cash"] = bal["cash"] - n
        /\ bal["cash"] >= n
        /\ bal'["reserved"] = bal["reserved"]
        /\ bal'["inventory_cost"] = bal["inventory_cost"]
    BY <1>2, <2>1 DEF BooksInv, TypeOK, RecordOperatingCost, Post, Accounts
  <2>3. bal["cash"] \in Int
    BY DEF BooksInv, TypeOK, Accounts
  <2>4. QED
    BY <1>2, <2>1, <2>2, <2>3
       DEF BooksInv, Reservations, Unreserved, IsBuy, PlanOf,
           Positions, RecordOperatingCost, intentVars, positionVars
<1>3. QED
  BY <1>1, <1>2 DEF MoneyStep

LEMMA PrepareBooks ==
  ASSUME BooksInv, NEW a \in Approvals, NEW p \in Plans, NEW t \in Times, Prepare(a, p, t), TypeOK'
  PROVE  BooksInv'
<1>1. TypeOK
  BY DEF BooksInv
<1>2. PICK r \in Nat :
        /\ r = IF p.side = "BUY" THEN CostCap(p) ELSE 0
        /\ reserved' = [reserved EXCEPT ![a] = r]
        /\ bal'["cash"] >= 0
        /\ bal'["reserved"] = bal["reserved"] + r
        /\ \A k \in Accounts \ {"cash", "reserved"} : bal'[k] = bal[k]
  BY <1>1, PrepareEffect
<1>3. /\ state[a] = NoIntent
      /\ state' = [state EXCEPT ![a] = "PREPARED"]
      /\ released' = released /\ approval' = approval /\ approval[a] = p
      /\ qty' = qty /\ shares' = shares /\ basis' = basis
  BY DEF Prepare, ReserveIntent, ApprovalUsable, positionVars
<1>4. reserved[a] = 0 /\ released[a] = 0
  BY <1>1, <1>3 DEF BooksInv, Reservations, Unreserved, IsBuy, PlanOf, TypeOK, Terminal, NoIntent
<1>5. Reservations'
  <2>1. Total(reserved') = bal'["reserved"]
    <3>1. Total(reserved') = Total(reserved) + r - reserved[a]
      BY <1>1, <1>2, ReservedChange
    <3>2. Total(reserved) = bal["reserved"] /\ bal["reserved"] \in Int
      BY DEF BooksInv, Reservations, Unreserved, IsBuy, PlanOf, TypeOK, Accounts
    <3>3. QED
      BY <1>2, <1>4, <3>1, <3>2
  <2>2. \A b \in Approvals : /\ Unreserved(b)' => reserved'[b] = 0
                             /\ released'[b] # 0 => state'[b] \in Terminal
    BY <1>1, <1>2, <1>3, <1>4
       DEF BooksInv, Reservations, Unreserved, IsBuy, PlanOf, TypeOK, Terminal, NoIntent
  <2>3. QED
    BY <2>1, <2>2 DEF Reservations, Unreserved, IsBuy, PlanOf
<1>6. Positions'
  BY <1>2, <1>3 DEF BooksInv, Positions, Accounts
<1>7. QED
  BY <1>2, <1>5, <1>6 DEF BooksInv

\* An intent that reaches a terminal state by a release keeps the books valid.
LEMMA ReleaseBooks ==
  ASSUME BooksInv, NEW a \in Approvals, NEW s \in Terminal, Release(a), TypeOK',
         state[a] \notin Terminal, state' = [state EXCEPT ![a] = s],
         approval' = approval, qty' = qty, shares' = shares, basis' = basis
  PROVE  BooksInv'
<1>1. TypeOK /\ released[a] = 0
  BY DEF BooksInv, Reservations, Unreserved, IsBuy, PlanOf
<1>2. /\ reserved' = [reserved EXCEPT ![a] = 0]
      /\ bal'["reserved"] = bal["reserved"] - reserved[a]
      /\ bal'["cash"] = bal["cash"] + reserved[a]
      /\ \A b \in Approvals : released'[b] # 0 => b = a \/ released[b] # 0
      /\ \A k \in Accounts \ {"cash", "reserved"} : bal'[k] = bal[k]
  BY <1>1, ReleaseEffect
<1>3. reserved[a] \in Nat /\ bal["cash"] \in Int /\ bal["reserved"] \in Int
  BY <1>1 DEF TypeOK, Accounts
<1>4. Reservations'
  <2>1. Total(reserved') = bal'["reserved"]
    <3> DEFINE zero == 0
    <3>1. Total(reserved') = Total(reserved) + zero - reserved[a]
      <4>1. zero \in Nat /\ reserved' = [reserved EXCEPT ![a] = zero]
        BY <1>2
      <4> HIDE DEF zero
      <4>2. QED
        BY <1>1, <4>1, ReservedChange
    <3>2. Total(reserved) = bal["reserved"]
      BY DEF BooksInv, Reservations, Unreserved, IsBuy, PlanOf
    <3>3. QED
      BY <1>2, <1>3, <3>1, <3>2
  <2>2. \A b \in Approvals : /\ Unreserved(b)' => reserved'[b] = 0
                             /\ released'[b] # 0 => state'[b] \in Terminal
    BY <1>1, <1>2 DEF BooksInv, Reservations, Unreserved, IsBuy, PlanOf, TypeOK
  <2>3. QED
    BY <2>1, <2>2 DEF Reservations, Unreserved, IsBuy, PlanOf
<1>5. Positions'
  BY <1>2 DEF BooksInv, Positions, Accounts
<1>6. bal'["cash"] >= 0
  BY <1>2, <1>3 DEF BooksInv
<1>7. QED
  BY <1>4, <1>5, <1>6 DEF BooksInv

LEMMA TransitionBooks ==
  ASSUME BooksInv, NEW a \in Approvals, NEW s \in OrderStates, NEW t \in Times, NEW ex,
         Transition(a, s, t, ex), TypeOK'
  PROVE  BooksInv'
<1>1. /\ state' = [state EXCEPT ![a] = s]
      /\ approval' = approval /\ qty' = qty /\ shares' = shares /\ basis' = basis
      /\ IF s \in Releasing THEN Release(a) ELSE UNCHANGED <<bal, reserved, released>>
  BY DEF Transition, positionVars
<1>2. /\ state[a] \notin Terminal \cup {NoIntent}
      /\ s \notin Releasing => s \notin Terminal \cup {NoIntent}
  <2>1. state[a] \in OrderStates \cup {NoIntent} /\ s \in Allowed[state[a]]
    BY DEF BooksInv, TypeOK, Transition, TransitionAllowed
  <2>2. QED
    BY <2>1 DEF Allowed, Releasing, Terminal, NoIntent, OrderStates
<1>3. CASE s \in Releasing
  BY <1>1, <1>2, <1>3, ReleaseBooks DEF Terminal, Releasing
<1>4. CASE s \notin Releasing
  <2>1. Reservations'
    BY <1>1, <1>2, <1>4 DEF BooksInv, TypeOK, Reservations, Unreserved, IsBuy, PlanOf
  <2>2. QED
    BY <1>1, <1>4, <2>1 DEF BooksInv, Positions
<1>5. QED
  BY <1>3, <1>4

LEMMA ConfirmCancelBooks ==
  ASSUME BooksInv, NEW a \in Approvals, NEW n, NEW t \in Times, ConfirmCancel(a, n, t), TypeOK'
  PROVE  BooksInv'
<1>1. /\ state' = [state EXCEPT ![a] = "CANCELLED"]
      /\ approval' = approval /\ qty' = qty /\ shares' = shares /\ basis' = basis
      /\ Release(a)
      /\ state[a] \notin Terminal
  BY DEF ConfirmCancel, positionVars, Terminal
<1>2. QED
  BY <1>1, ReleaseBooks DEF Terminal

\* A fill leaves the order its remaining reservation, or nothing when filled.
LEMMA FillReservations ==
  ASSUME BooksInv, NEW a \in Approvals, NEW q \in Nat, NEW t \in Nat, NEW left \in Nat,
         FillIntent(a, q, t, left), state[a] \notin Terminal \cup {NoIntent},
         approval' = approval, NEW n \in Nat, ~IsBuy(a) => n = 0,
         n = IF filled[a] + q = PlanOf(a).quantity THEN 0 ELSE left
  PROVE  /\ Total(reserved') = bal["reserved"] + n - reserved[a]
         /\ \A b \in Approvals : /\ Unreserved(b)' => reserved'[b] = 0
                                 /\ released'[b] # 0 => state'[b] \in Terminal
<1>1. reserved' = [reserved EXCEPT ![a] = n]
  BY DEF FillIntent
<1>2. Total(reserved') = Total(reserved) + n - reserved[a]
  BY <1>1, ReservedChange DEF BooksInv
<1>3. /\ \A b \in Approvals \ {a} :
           state'[b] = state[b] /\ released'[b] = released[b] /\ reserved'[b] = reserved[b]
      /\ reserved'[a] = n
  BY <1>1 DEF FillIntent, BooksInv, TypeOK
<1>4. released[a] = 0
  BY DEF BooksInv, Reservations, Unreserved, IsBuy, PlanOf
<1>5. /\ Unreserved(a)' => n = 0
      /\ released'[a] # 0 => state'[a] \in Terminal
  <2>1. CASE filled[a] + q = PlanOf(a).quantity
    BY <2>1 DEF FillIntent, BooksInv, TypeOK, Terminal, Unreserved, IsBuy, PlanOf
  <2>2. CASE filled[a] + q # PlanOf(a).quantity
    BY <2>2, <1>4 DEF FillIntent, BooksInv, TypeOK, Terminal, NoIntent, Unreserved, IsBuy, PlanOf
  <2>3. QED
    BY <2>1, <2>2
<1>6. QED
  BY <1>2, <1>3, <1>5 DEF BooksInv, Reservations, Unreserved, IsBuy, PlanOf

LEMMA BuyFillBooks ==
  ASSUME BooksInv, NEW f \in Trades, NEW a \in Approvals, NEW q \in 1 .. MaxQuantity,
         NEW p \in 1 .. One, NEW fee \in 0 .. MaxFee, NEW t \in Times, NEW ex,
         NEW l \in Levels \cup {NoLevel}, ApplyBuyFill(f, a, q, p, fee, t, ex, l), TypeOK'
  PROVE  BooksInv'
<1> DEFINE x == PlanOf(a).asset
           full == filled[a] + q = PlanOf(a).quantity
<1>1. TypeOK /\ FillAllowed(f, a, q, p, fee, t, ex, l)
  BY DEF ApplyBuyFill, BooksInv
<1>2. /\ x \in Assets /\ q \in Nat /\ q > 0 /\ fee \in Nat /\ t \in Nat
      /\ state[a] \notin Terminal \cup {NoIntent} /\ IsBuy(a) /\ approval' = approval
  BY <1>1, FillFacts DEF ApplyBuyFill
<1>3. PICK gross \in Nat, left \in Nat, back \in Nat :
        /\ left = reserved[a] - gross - fee
        /\ back = IF full THEN left ELSE 0
        /\ bal'["cash"] = bal["cash"] + back
        /\ bal'["reserved"] = bal["reserved"] - gross - fee - back
        /\ bal'["inventory_cost"] = bal["inventory_cost"] + gross
        /\ shares' = [shares EXCEPT ![x] = @ + q]
        /\ qty' = [qty EXCEPT ![x] = @ + q]
        /\ basis' = [basis EXCEPT ![x] = @ + gross]
        /\ FillIntent(a, q, t, left)
  BY <1>1, BuyFillEffect
<1>4. /\ reserved[a] \in Nat /\ basis[x] \in Nat /\ qty[x] \in Nat /\ shares[x] \in Int
      /\ bal["cash"] \in Int /\ bal["reserved"] \in Int /\ bal["inventory_cost"] \in Int
  BY <1>1, <1>2 DEF TypeOK, Accounts
<1> DEFINE n == IF full THEN 0 ELSE left
<1>5. n \in Nat /\ reserved[a] - gross - fee - back = n
  BY <1>2, <1>3, <1>4
<1>6. Reservations'
  <2>1. /\ Total(reserved') = bal["reserved"] + n - reserved[a]
        /\ \A b \in Approvals : /\ Unreserved(b)' => reserved'[b] = 0
                                /\ released'[b] # 0 => state'[b] \in Terminal
    <3> HIDE DEF n
    <3>1. n = IF filled[a] + q = PlanOf(a).quantity THEN 0 ELSE left
      BY DEF n
    <3>2. QED
      BY <1>2, <1>3, <1>5, <3>1, FillReservations
  <2> HIDE DEF n
  <2>2. bal["reserved"] + n - reserved[a] = bal'["reserved"]
    BY <1>2, <1>3, <1>4, <1>5
  <2>3. QED
    BY <2>1, <2>2 DEF Reservations, Unreserved, IsBuy, PlanOf
<1>7. Positions'
  <2>1. Total(basis') = bal'["inventory_cost"]
    <3> DEFINE m == basis[x] + gross
    <3>1. m \in Nat /\ basis' = [basis EXCEPT ![x] = m]
      BY <1>3, <1>4
    <3> HIDE DEF m
    <3>2. Total(basis') = Total(basis) + m - basis[x]
      BY <1>1, <1>2, <3>1, BasisChange
    <3>3. Total(basis) = bal["inventory_cost"]
      BY DEF BooksInv, Positions
    <3>4. QED
      BY <1>3, <1>4, <3>2, <3>3 DEF m
  <2>2. \A y \in Assets : /\ qty'[y] = shares'[y]
                          /\ qty'[y] = 0 => basis'[y] = 0
    BY <1>1, <1>2, <1>3, <1>4 DEF BooksInv, Positions, TypeOK
  <2>3. QED
    BY <2>1, <2>2 DEF Positions
<1>8. bal'["cash"] >= 0
  BY <1>3, <1>4 DEF BooksInv
<1>9. QED
  BY <1>6, <1>7, <1>8 DEF BooksInv

LEMMA SellFillBooks ==
  ASSUME BooksInv, NEW f \in Trades, NEW a \in Approvals, NEW q \in 1 .. MaxQuantity,
         NEW p \in 1 .. One, NEW fee \in 0 .. MaxFee, NEW t \in Times, NEW ex,
         NEW l \in Levels \cup {NoLevel}, ApplySellFill(f, a, q, p, fee, t, ex, l), TypeOK'
  PROVE  BooksInv'
<1> DEFINE x == PlanOf(a).asset
<1>1. TypeOK /\ FillAllowed(f, a, q, p, fee, t, ex, l)
  BY DEF ApplySellFill, BooksInv
<1>2. /\ x \in Assets /\ q \in Nat /\ q > 0 /\ fee \in Nat /\ t \in Nat
      /\ state[a] \notin Terminal \cup {NoIntent} /\ ~IsBuy(a) /\ approval' = approval
  BY <1>1, FillFacts DEF ApplySellFill
<1>3. PICK gross \in Nat, cost \in Nat :
        /\ fee <= gross
        /\ q <= qty[x]
        /\ cost <= basis[x]
        /\ q = qty[x] => cost = basis[x]
        /\ bal'["cash"] = bal["cash"] + gross - fee
        /\ bal'["reserved"] = bal["reserved"]
        /\ bal'["inventory_cost"] = bal["inventory_cost"] - cost
        /\ shares' = [shares EXCEPT ![x] = @ - q]
        /\ qty' = [qty EXCEPT ![x] = @ - q]
        /\ basis' = [basis EXCEPT ![x] = @ - cost]
        /\ FillIntent(a, q, t, 0)
  BY <1>1, SellFillEffect
<1>4. /\ basis[x] \in Nat /\ qty[x] \in Nat /\ shares[x] \in Int
      /\ bal["cash"] \in Int /\ bal["reserved"] \in Int /\ bal["inventory_cost"] \in Int
      /\ reserved[a] = 0
  BY <1>1, <1>2 DEF TypeOK, Accounts, BooksInv, Reservations, Unreserved, IsBuy, PlanOf
<1>5. Reservations'
  <2>1. /\ Total(reserved') = bal["reserved"] + 0 - reserved[a]
        /\ \A b \in Approvals : /\ Unreserved(b)' => reserved'[b] = 0
                                /\ released'[b] # 0 => state'[b] \in Terminal
    <3> DEFINE n == IF filled[a] + q = PlanOf(a).quantity THEN 0 ELSE 0
    <3>1. n = 0 /\ n \in Nat /\ n = IF filled[a] + q = PlanOf(a).quantity THEN 0 ELSE 0
      OBVIOUS
    <3> HIDE DEF n
    <3>2. /\ Total(reserved') = bal["reserved"] + n - reserved[a]
          /\ \A b \in Approvals : /\ Unreserved(b)' => reserved'[b] = 0
                                  /\ released'[b] # 0 => state'[b] \in Terminal
      BY <1>2, <1>3, <3>1, FillReservations
    <3>3. QED
      BY <3>1, <3>2
  <2>2. Total(reserved') = bal'["reserved"]
    BY <1>3, <1>4, <2>1
  <2>3. QED
    BY <2>1, <2>2 DEF Reservations, Unreserved, IsBuy, PlanOf
<1>6. Positions'
  <2>1. Total(basis') = bal'["inventory_cost"]
    <3> DEFINE m == basis[x] - cost
    <3>1. m \in Nat /\ basis' = [basis EXCEPT ![x] = m]
      BY <1>3, <1>4
    <3> HIDE DEF m
    <3>2. Total(basis') = Total(basis) + m - basis[x]
      BY <1>1, <1>2, <3>1, BasisChange
    <3>3. Total(basis) = bal["inventory_cost"]
      BY DEF BooksInv, Positions
    <3>4. QED
      BY <1>3, <1>4, <3>2, <3>3 DEF m
  <2>2. \A y \in Assets : /\ qty'[y] = shares'[y]
                          /\ qty'[y] = 0 => basis'[y] = 0
    <3>1. qty[x] = shares[x]
      BY <1>2 DEF BooksInv, Positions
    <3>2. /\ qty'[x] = qty[x] - q /\ shares'[x] = shares[x] - q /\ basis'[x] = basis[x] - cost
          /\ \A y \in Assets \ {x} :
               qty'[y] = qty[y] /\ shares'[y] = shares[y] /\ basis'[y] = basis[y]
      <4> HIDE DEF x
      <4>1. /\ qty' = [qty EXCEPT ![x] = qty[x] - q]
            /\ shares' = [shares EXCEPT ![x] = shares[x] - q]
            /\ basis' = [basis EXCEPT ![x] = basis[x] - cost]
        BY <1>3
      <4>2. /\ qty \in [Assets -> Nat] /\ shares \in [Assets -> Int]
            /\ basis \in [Assets -> Nat]
        BY <1>1 DEF TypeOK
      <4>3. /\ qty'[x] = qty[x] - q
            /\ shares'[x] = shares[x] - q
            /\ basis'[x] = basis[x] - cost
        BY <1>2, <4>1, <4>2
      <4>4. \A y \in Assets \ {x} :
              qty'[y] = qty[y] /\ shares'[y] = shares[y] /\ basis'[y] = basis[y]
        BY <4>1, <4>2
      <4>5. QED
        BY <4>3, <4>4
    <3>3. qty'[x] = 0 => basis'[x] = 0
      <4>1. qty'[x] = qty[x] - q /\ basis'[x] = basis[x] - cost
        BY <3>2
      <4>2. q = qty[x] => cost = basis[x]
        BY <1>3
      <4> HIDE DEF x
      <4>3. qty[x] \in Nat /\ basis[x] \in Nat /\ q \in Nat
        BY <1>2, <1>4
      <4>4. QED
        BY <4>1, <4>2, <4>3
    <3>4. qty'[x] = shares'[x]
      BY <3>1, <3>2
    <3>5. \A y \in Assets \ {x} : qty'[y] = shares'[y] /\ (qty'[y] = 0 => basis'[y] = 0)
      BY <3>2 DEF BooksInv, Positions
    <3> HIDE DEF x
    <3>6. QED
      BY <3>3, <3>4, <3>5
  <2>3. QED
    BY <2>1, <2>2 DEF Positions
<1>7. bal'["cash"] >= 0
  BY <1>2, <1>3, <1>4 DEF BooksInv
<1>8. QED
  BY <1>5, <1>6, <1>7 DEF BooksInv

LEMMA SettleBooks ==
  ASSUME BooksInv, NEW x \in Assets, NEW payout \in 0 .. One, NEW sid \in SettlementIds,
         NEW t \in Times, Settle(x, payout, sid, t), TypeOK'
  PROVE  BooksInv'
<1>1. TypeOK
  BY DEF BooksInv
<1>2. PICK credit \in Nat :
        /\ bal'["cash"] = bal["cash"] + credit
        /\ bal'["reserved"] = bal["reserved"]
        /\ bal'["inventory_cost"] = bal["inventory_cost"] - basis[x]
  BY <1>1, SettleEffect
<1>3. /\ basis[x] \in Nat /\ bal["cash"] \in Int /\ bal["inventory_cost"] \in Int
  BY <1>1 DEF TypeOK, Accounts
<1>4. /\ shares' = [shares EXCEPT ![x] = @ - qty[x]]
      /\ qty' = [qty EXCEPT ![x] = 0]
      /\ basis' = [basis EXCEPT ![x] = 0]
      /\ UNCHANGED <<approval, state, reserved, released>>
  BY DEF Settle, intentVars
<1>5. Reservations'
  BY <1>2, <1>4 DEF BooksInv, Reservations, Unreserved, IsBuy, PlanOf
<1>6. Positions'
  <2>1. Total(basis') = bal'["inventory_cost"]
    <3> DEFINE m == 0
    <3>1. m \in Nat /\ basis' = [basis EXCEPT ![x] = m]
      BY <1>4
    <3> HIDE DEF m
    <3>2. Total(basis') = Total(basis) + m - basis[x]
      BY <1>1, <3>1, BasisChange
    <3>3. Total(basis) = bal["inventory_cost"]
      BY DEF BooksInv, Positions
    <3>4. QED
      BY <1>2, <1>3, <3>2, <3>3 DEF m
  <2>2. \A y \in Assets : /\ qty'[y] = shares'[y]
                          /\ qty'[y] = 0 => basis'[y] = 0
    <3>1. qty[x] = shares[x] /\ qty[x] \in Nat
      BY <1>1 DEF BooksInv, Positions, TypeOK
    <3>2. qty'[x] = 0 /\ shares'[x] = shares[x] - qty[x] /\ basis'[x] = 0
      BY <1>1, <1>4 DEF TypeOK
    <3>3. \A y \in Assets \ {x} :
            qty'[y] = qty[y] /\ shares'[y] = shares[y] /\ basis'[y] = basis[y]
      BY <1>1, <1>4 DEF TypeOK
    <3>4. shares'[x] = 0
      BY <3>1, <3>2
    <3>5. \A y \in Assets \ {x} : qty'[y] = shares'[y] /\ (qty'[y] = 0 => basis'[y] = 0)
      BY <3>3 DEF BooksInv, Positions
    <3>6. QED
      BY <3>2, <3>4, <3>5
  <2>3. QED
    BY <2>1, <2>2 DEF Positions
<1>7. bal'["cash"] >= 0
  BY <1>2, <1>3 DEF BooksInv
<1>8. QED
  BY <1>5, <1>6, <1>7 DEF BooksInv

\* The steps that touch neither the ledger nor the tables it explains.
LEMMA FrameBooks ==
  ASSUME BooksInv, TypeOK',
         UNCHANGED <<bal, shares, released, reserved, state, qty, basis>>,
         \A a \in Approvals : approval'[a] = approval[a] \/ state[a] = NoIntent
  PROVE  BooksInv'
<1>1. Reservations'
  BY DEF BooksInv, Reservations, Unreserved, IsBuy, PlanOf
<1>2. QED
  BY <1>1 DEF BooksInv, Positions

LEMMA OtherBooks ==
  ASSUME BooksInv, TypeOK',
         \/ ControlStep
         \/ LeaseStep
         \/ \E a \in Approvals, p \in Plans, t \in Times : ApproveSimulated(a, p, t)
         \/ \E a \in Approvals, t \in Times, ex \in OptionalExecutors : TransitionHalts(a, t, ex)
         \/ UNCHANGED vars
  PROVE  BooksInv'
<1>1. CASE ControlStep
  BY <1>1, FrameBooks DEF ControlStep, Halt, RenewControlLease, ProposeCommand,
     ConsumeControlCommand, ledgerVars, intentVars, positionVars
<1>2. CASE LeaseStep
  BY <1>2, FrameBooks DEF LeaseStep, AcquireExecutor, ReleaseExecutor,
     ledgerVars, intentVars, positionVars
<1>3. ASSUME NEW a \in Approvals, NEW p \in Plans, NEW t \in Times, ApproveSimulated(a, p, t)
      PROVE  BooksInv'
  <2>1. state[a] = NoIntent
    BY <1>3, AbsentAssumption DEF BooksInv, TypeOK, ApproveSimulated
  <2>2. \A b \in Approvals : approval'[b] = approval[b] \/ state[b] = NoIntent
    BY <1>3, <2>1 DEF BooksInv, TypeOK, ApproveSimulated
  <2>3. QED
    BY <1>3, <2>2, FrameBooks DEF ApproveSimulated, ledgerVars, positionVars
<1>4. CASE \E a \in Approvals, t \in Times, ex \in OptionalExecutors : TransitionHalts(a, t, ex)
  BY <1>4, FrameBooks DEF TransitionHalts, ledgerVars, intentVars, positionVars
<1>5. CASE UNCHANGED vars
  BY <1>5, FrameBooks DEF vars, ledgerVars, intentVars, positionVars
<1>6. QED
  BY <1>1, <1>2, <1>3, <1>4, <1>5

LEMMA NextBooks == BooksInv /\ [Next]_vars => BooksInv'
<1> SUFFICES ASSUME BooksInv, [Next]_vars
             PROVE  BooksInv'
  OBVIOUS
<1>1. TypeOK'
  BY NextType DEF BooksInv
<1>2. CASE MoneyStep
  BY <1>1, <1>2, MoneyBooks
<1>3. CASE ControlStep \/ LeaseStep \/ UNCHANGED vars
  BY <1>1, <1>3, OtherBooks
<1>4. CASE OrderStep
  <2>1. ASSUME NEW a \in Approvals, NEW p \in Plans, NEW t \in Times, Prepare(a, p, t)
        PROVE  BooksInv'
    BY <1>1, <2>1, PrepareBooks
  <2>2. ASSUME NEW a \in Approvals, NEW s \in OrderStates, NEW t \in Times, NEW ex,
               Transition(a, s, t, ex)
        PROVE  BooksInv'
    BY <1>1, <2>2, TransitionBooks
  <2>3. ASSUME NEW a \in Approvals, NEW n, NEW t \in Times, ConfirmCancel(a, n, t)
        PROVE  BooksInv'
    BY <1>1, <2>3, ConfirmCancelBooks
  <2>4. CASE \/ \E a \in Approvals, p \in Plans, t \in Times : ApproveSimulated(a, p, t)
             \/ \E a \in Approvals, t \in Times, ex \in OptionalExecutors :
                  TransitionHalts(a, t, ex)
    BY <1>1, <2>4, OtherBooks
  <2>5. QED
    BY <1>4, <2>1, <2>2, <2>3, <2>4 DEF OrderStep
<1>5. CASE FillStep
  BY <1>1, <1>5, BuyFillBooks, SellFillBooks DEF FillStep, ApplyFill
<1>6. CASE SettleStep
  BY <1>1, <1>6, SettleBooks DEF SettleStep
<1>7. QED
  BY <1>2, <1>3, <1>4, <1>5, <1>6 DEF Next

\* validate_ledger never fails: whatever the callers do, the books that the risk
\* engine checks before each order agree, and it never halts because of them.
THEOREM BooksAlwaysValid == Spec => []LedgerValid
<1>1. Spec => []BooksInv
  BY InitBooks, NextBooks, PTL DEF Spec
<1>2. QED
  BY <1>1, BooksValid, PTL
-----------------------------------------------------------------------------
(* Losses, risk and what is never taken back.  A step that changes a result *)
(* updates the marks; every other step leaves the results alone.            *)

Results == {"realized_income", "fees", "operating_cost"}

\* The steps that do not post to the accounts of the result.
LEMMA ResultFrame ==
  ASSUME TypeOK, [Next]_vars, ~UpdateHighWater
  PROVE  /\ \A k \in Results : bal'[k] = bal[k]
         /\ control'.high = control.high
         /\ control'.businessHigh = control.businessHigh
<1>1. CASE MoneyStep
  <2>1. ASSUME NEW k \in DepositKeys, NEW n \in Amounts, Deposit(k, n)
        PROVE  (\A r \in Results : bal'[r] = bal[r]) /\ control' = control
    BY <2>1 DEF Deposit, Post, TypeOK, Accounts, Results
  <2>2. QED
    BY <1>1, <2>1 DEF MoneyStep, RecordOperatingCost
<1>2. CASE ControlStep
  <2>1. /\ bal' = bal
        /\ control'.high = control.high /\ control'.businessHigh = control.businessHigh
    BY <1>2 DEF ControlStep, Halt, RenewControlLease, ProposeCommand, ConsumeControlCommand,
       ledgerVars, TypeOK
  <2>2. QED
    BY <2>1
<1>3. CASE LeaseStep
  BY <1>3 DEF LeaseStep, AcquireExecutor, ReleaseExecutor, ledgerVars
<1>4. CASE OrderStep
  <2>1. ASSUME NEW a \in Approvals, NEW p \in Plans, NEW t \in Times, ApproveSimulated(a, p, t)
        PROVE  bal' = bal /\ control' = control
    BY <2>1 DEF ApproveSimulated, ledgerVars
  <2>2. ASSUME NEW a \in Approvals, NEW p \in Plans, NEW t \in Times, Prepare(a, p, t)
        PROVE  (\A r \in Results : bal'[r] = bal[r]) /\ control' = control
    <3>1. PICK r \in Nat : \A k \in Accounts \ {"cash", "reserved"} : bal'[k] = bal[k]
      BY <2>2, PrepareEffect
    <3>2. control' = control
      BY <2>2 DEF Prepare, ReserveIntent
    <3>3. QED
      BY <3>1, <3>2 DEF Results, Accounts
  <2>3. ASSUME NEW a \in Approvals, NEW s \in OrderStates, NEW t \in Times, NEW ex,
               Transition(a, s, t, ex)
        PROVE  (\A r \in Results : bal'[r] = bal[r]) /\ control' = control
    <3>1. control' = control /\ (Release(a) \/ bal' = bal)
      BY <2>3 DEF Transition
    <3>2. CASE Release(a)
      BY <3>1, <3>2, ReleaseEffect DEF Results, Accounts
    <3>3. QED
      BY <3>1, <3>2
  <2>4. ASSUME NEW a \in Approvals, NEW t \in Times, NEW ex, TransitionHalts(a, t, ex)
        PROVE  /\ bal' = bal
               /\ control'.high = control.high
               /\ control'.businessHigh = control.businessHigh
    BY <2>4 DEF TransitionHalts, ledgerVars, TypeOK
  <2>5. ASSUME NEW a \in Approvals, NEW n, NEW t \in Times, ConfirmCancel(a, n, t)
        PROVE  (\A r \in Results : bal'[r] = bal[r]) /\ control' = control
    BY <2>5, ReleaseEffect DEF ConfirmCancel, Results, Accounts
  <2>6. QED
    BY <1>4, <2>1, <2>2, <2>3, <2>4, <2>5 DEF OrderStep
<1>5. CASE FillStep
  <2>1. ASSUME NEW f, NEW a, NEW q, NEW p, NEW fee, NEW t, NEW ex, NEW l,
               ApplyFill(f, a, q, p, fee, t, ex, l)
        PROVE  UpdateHighWater
    BY <2>1 DEF ApplyFill, ApplyBuyFill, ApplySellFill
  <2>2. QED
    BY <1>5, <2>1 DEF FillStep
<1>6. CASE SettleStep
  BY <1>6 DEF SettleStep, Settle
<1>7. CASE UNCHANGED vars
  BY <1>7 DEF vars, ledgerVars
<1>8. QED
  BY <1>1, <1>2, <1>3, <1>4, <1>5, <1>6, <1>7 DEF Next

\* The losses that stop new risk are measured from marks that no result has
\* exceeded, so that a drawdown is never understated.
THEOREM HighWaterCorrect == Spec => []HighWaterAboveResult
<1>1. Init => HighWaterAboveResult
  BY DEF Init, HighWaterAboveResult, Pnl, BusinessPnl, Accounts
<1>2. TypeOK /\ TypeOK' /\ HighWaterAboveResult /\ [Next]_vars => HighWaterAboveResult'
  <2> SUFFICES ASSUME TypeOK, TypeOK', HighWaterAboveResult, [Next]_vars
               PROVE  HighWaterAboveResult'
    OBVIOUS
  <2>1. CASE UpdateHighWater
    <3>1. bal' \in [Accounts -> Int]
      BY DEF TypeOK
    <3>2. QED
      BY <2>1, <3>1, HighWater DEF HighWaterAboveResult
  <2>2. CASE ~UpdateHighWater
    <3>1. /\ \A k \in Results : bal'[k] = bal[k]
          /\ control'.high = control.high
          /\ control'.businessHigh = control.businessHigh
      BY <2>2, ResultFrame
    <3>2. Pnl(bal') = Pnl(bal) /\ BusinessPnl(bal') = BusinessPnl(bal)
      BY <3>1 DEF Results, Pnl, BusinessPnl
    <3>3. QED
      BY <3>1, <3>2 DEF HighWaterAboveResult
  <2>3. QED
    BY <2>1, <2>2
<1>3. QED
  BY <1>1, <1>2, TypeCorrect, PTL DEF Spec

\* Only a reservation for a buy can increase what is at risk.
LEMMA ExposureGrows ==
  ASSUME BooksInv, [Next]_vars,
         ~ \E a \in Approvals, p \in Plans, t \in Times : Prepare(a, p, t) /\ p.side = "BUY"
  PROVE  Exposure(bal') <= Exposure(bal)
<1> DEFINE E(b) == b["inventory_cost"] + b["reserved"]
<1>1. TypeOK /\ bal["inventory_cost"] \in Int /\ bal["reserved"] \in Int
  BY DEF BooksInv, TypeOK, Accounts
<1>2. CASE MoneyStep
  <2>1. ASSUME NEW k \in DepositKeys, NEW n \in Amounts, Deposit(k, n)
        PROVE  E(bal') = E(bal)
    BY <1>1, <2>1 DEF Deposit, Post, TypeOK, Accounts
  <2>2. ASSUME NEW k \in ExpenseKeys, NEW n \in Amounts, RecordOperatingCost(k, n)
        PROVE  E(bal') = E(bal)
    BY <1>1, <2>2 DEF RecordOperatingCost, Post, TypeOK, Accounts
  <2>3. QED
    BY <1>1, <1>2, <2>1, <2>2 DEF MoneyStep, Exposure
<1>3. CASE ControlStep \/ LeaseStep \/ UNCHANGED vars
  <2>1. bal' = bal
    BY <1>3 DEF ControlStep, LeaseStep, vars, Halt, RenewControlLease, ProposeCommand,
       ConsumeControlCommand, AcquireExecutor, ReleaseExecutor, ledgerVars
  <2>2. QED
    BY <1>1, <2>1 DEF Exposure
<1>4. CASE OrderStep
  <2>1. ASSUME NEW a \in Approvals, NEW p \in Plans, NEW t \in Times, Prepare(a, p, t)
        PROVE  E(bal') <= E(bal)
    <3>1. p.side # "BUY"
      BY <2>1
    <3>2. PICK r \in Nat :
            /\ r = IF p.side = "BUY" THEN CostCap(p) ELSE 0
            /\ bal'["reserved"] = bal["reserved"] + r
            /\ \A k \in Accounts \ {"cash", "reserved"} : bal'[k] = bal[k]
      BY <1>1, <2>1, PrepareEffect
    <3>3. bal'["inventory_cost"] = bal["inventory_cost"] /\ r = 0
      BY <3>1, <3>2 DEF Accounts
    <3>4. QED
      BY <1>1, <3>2, <3>3
  <2>2. ASSUME NEW a \in Approvals, Release(a), state[a] \notin Terminal
        PROVE  E(bal') <= E(bal)
    <3>1. released[a] = 0 /\ reserved[a] \in Nat
      BY <1>1, <2>2 DEF BooksInv, Reservations, TypeOK
    <3>2. /\ bal'["reserved"] = bal["reserved"] - reserved[a]
          /\ bal'["inventory_cost"] = bal["inventory_cost"]
      BY <1>1, <2>2, <3>1, ReleaseEffect DEF Accounts
    <3>3. QED
      BY <1>1, <3>1, <3>2
  <2>3. ASSUME NEW a \in Approvals, NEW s \in OrderStates, NEW t \in Times, NEW ex,
               Transition(a, s, t, ex)
        PROVE  E(bal') <= E(bal)
    <3>1. Release(a) \/ bal' = bal
      BY <2>3 DEF Transition
    <3>2. state[a] \notin Terminal
      <4>1. state[a] \in OrderStates \cup {NoIntent} /\ s \in Allowed[state[a]]
        BY <1>1, <2>3 DEF TypeOK, Transition, TransitionAllowed
      <4>2. QED
        BY <4>1 DEF Allowed, Terminal
    <3>3. CASE bal' = bal
      BY <1>1, <3>3
    <3>4. QED
      BY <2>2, <3>1, <3>2, <3>3
  <2>4. ASSUME NEW a \in Approvals, NEW n, NEW t \in Times, ConfirmCancel(a, n, t)
        PROVE  E(bal') <= E(bal)
    BY <2>2, <2>4 DEF ConfirmCancel, Terminal
  <2>5. ASSUME NEW a \in Approvals, NEW t \in Times,
               \/ \E p \in Plans : ApproveSimulated(a, p, t)
               \/ \E ex \in OptionalExecutors : TransitionHalts(a, t, ex)
        PROVE  E(bal') <= E(bal)
    <3>1. bal' = bal
      BY <2>5 DEF ApproveSimulated, TransitionHalts, ledgerVars
    <3>2. QED
      BY <1>1, <3>1
  <2>6. E(bal') <= E(bal)
    BY <1>4, <2>1, <2>3, <2>4, <2>5 DEF OrderStep
  <2>7. QED
    BY <2>6 DEF Exposure
<1>5. CASE FillStep
  <2>1. ASSUME NEW f \in Trades, NEW a \in Approvals, NEW q \in 1 .. MaxQuantity,
               NEW p \in 1 .. One, NEW fee \in 0 .. MaxFee, NEW t \in Times, NEW ex,
               NEW l \in Levels \cup {NoLevel}, ApplyBuyFill(f, a, q, p, fee, t, ex, l)
        PROVE  E(bal') <= E(bal)
    <3>1. PICK gross \in Nat, left \in Nat, back \in Nat :
            /\ bal'["reserved"] = bal["reserved"] - gross - fee - back
            /\ bal'["inventory_cost"] = bal["inventory_cost"] + gross
      BY <1>1, <2>1, BuyFillEffect
    <3>2. fee \in Nat
      BY InputsAssumption
    <3>3. QED
      BY <1>1, <3>1, <3>2
  <2>2. ASSUME NEW f \in Trades, NEW a \in Approvals, NEW q \in 1 .. MaxQuantity,
               NEW p \in 1 .. One, NEW fee \in 0 .. MaxFee, NEW t \in Times, NEW ex,
               NEW l \in Levels \cup {NoLevel}, ApplySellFill(f, a, q, p, fee, t, ex, l)
        PROVE  E(bal') <= E(bal)
    <3>1. PICK gross \in Nat, cost \in Nat :
            /\ bal'["reserved"] = bal["reserved"]
            /\ bal'["inventory_cost"] = bal["inventory_cost"] - cost
      BY <1>1, <2>2, SellFillEffect
    <3>2. QED
      BY <1>1, <3>1
  <2>3. E(bal') <= E(bal)
    BY <1>5, <2>1, <2>2 DEF FillStep, ApplyFill
  <2>4. QED
    BY <2>3 DEF Exposure
<1>6. CASE SettleStep
  <2>1. PICK x \in Assets, payout \in 0 .. One, sid \in SettlementIds, t \in Times :
          Settle(x, payout, sid, t)
    BY <1>6 DEF SettleStep
  <2>2. PICK credit \in Nat : /\ bal'["reserved"] = bal["reserved"]
                              /\ bal'["inventory_cost"] = bal["inventory_cost"] - basis[x]
    BY <1>1, <2>1, SettleEffect
  <2>3. basis[x] \in Nat
    BY <1>1 DEF TypeOK
  <2>4. QED
    BY <1>1, <2>2, <2>3 DEF Exposure
<1>7. QED
  BY <1>2, <1>3, <1>4, <1>5, <1>6 DEF Next

(***************************************************************************)
(* Orders, positions, money and the envelope.                              *)
(***************************************************************************)
\* What the groups of steps leave alone.
LEMMA MoneyFrame == MoneyStep => UNCHANGED <<intentVars, positionVars, lease>>
BY DEF MoneyStep, Deposit, RecordOperatingCost

LEMMA ControlFrame == ControlStep => UNCHANGED <<intentVars, positionVars, lease>>
BY DEF ControlStep, Halt, RenewControlLease, ProposeCommand, ConsumeControlCommand

LEMMA LeaseFrame == LeaseStep => UNCHANGED <<intentVars, positionVars, control>>
BY DEF LeaseStep, AcquireExecutor, ReleaseExecutor

LEMMA OrderFrame ==
  ASSUME OrderStep
  PROVE  /\ UNCHANGED <<positionVars, lease>>
         /\ control' = control \/ control' = [control EXCEPT !.halted = TRUE]
<1>1. ASSUME NEW a \in Approvals, NEW t \in Times, NEW p \in Plans,
             ApproveSimulated(a, p, t) \/ Prepare(a, p, t)
      PROVE  UNCHANGED <<positionVars, lease, control>>
  BY <1>1 DEF ApproveSimulated, Prepare, ReserveIntent
<1>2. ASSUME NEW a \in Approvals, NEW t \in Times, NEW n,
             (\E ex \in OptionalExecutors, s \in OrderStates : Transition(a, s, t, ex))
               \/ ConfirmCancel(a, n, t)
      PROVE  UNCHANGED <<positionVars, lease, control>>
  BY <1>2 DEF Transition, ConfirmCancel
<1>3. ASSUME NEW a \in Approvals, NEW t \in Times, NEW ex, TransitionHalts(a, t, ex)
      PROVE  UNCHANGED <<positionVars, lease>> /\ control' = [control EXCEPT !.halted = TRUE]
  BY <1>3 DEF TransitionHalts
<1>4. QED
  BY <1>1, <1>2, <1>3 DEF OrderStep

LEMMA FillFrame == FillStep => UNCHANGED <<settledBy, lease>> /\ UpdateHighWater
BY DEF FillStep, ApplyFill, ApplyBuyFill, ApplySellFill

LEMMA SettleFrame == SettleStep => UNCHANGED <<intentVars, fills, lease>> /\ UpdateHighWater
BY DEF SettleStep, Settle

\* A fill is of an active order, which is finished when nothing is left of it.
LEMMA FillMoves ==
  ASSUME TypeOK, NEW f \in Trades, NEW a \in Approvals, NEW q \in 1 .. MaxQuantity,
         NEW p \in 1 .. One, NEW fee \in 0 .. MaxFee, NEW t \in Times, NEW ex,
         NEW l \in Levels \cup {NoLevel}, ApplyFill(f, a, q, p, fee, t, ex, l)
  PROVE  /\ Active(a) /\ PlanOf(a) \in Plans /\ PlanOf(a).quantity \in Nat
         /\ q \in Nat /\ q > 0 /\ filled[a] \in Nat
         /\ filled[a] + q <= PlanOf(a).quantity
         /\ approval' = approval
         /\ state' = [state EXCEPT ![a] =
              IF filled[a] + q = PlanOf(a).quantity THEN "FILLED"
              ELSE IF state[a] = "CANCEL_PENDING" THEN "CANCEL_PENDING" ELSE "PARTIALLY_FILLED"]
         /\ filled' = [filled EXCEPT ![a] = filled[a] + q]
         /\ updated' = [updated EXCEPT ![a] = Greatest(updated[a], t)]
         /\ fills[f] = NoFill
<1>1. FillAllowed(f, a, q, p, fee, t, ex, l)
  BY DEF ApplyFill, ApplyBuyFill, ApplySellFill
<1>2. /\ PlanOf(a) \in Plans /\ PlanOf(a).quantity \in Nat
      /\ q \in Nat /\ q > 0
      /\ filled[a] + q <= PlanOf(a).quantity
      /\ state[a] \notin Terminal \cup {"PREPARED", NoIntent}
  BY <1>1, FillFacts
<1>3. /\ approval' = approval
      /\ \E left : FillIntent(a, q, t, left)
  BY DEF ApplyFill, ApplyBuyFill, ApplySellFill
<1>4. QED
  BY <1>1, <1>2, <1>3 DEF FillIntent, FillAllowed, Active, TypeOK

\* An order never leaves its plan, nor a terminal state, nor the table; its
\* rows begin untouched.
Untouched(a) == state[a] = NoIntent => updated[a] = 0 /\ filled[a] = 0

Advances(a) ==
  /\ state[a] \in Terminal => state'[a] = state[a]
  /\ state[a] # NoIntent => state'[a] # NoIntent /\ approval'[a] = approval[a]
  /\ updated'[a] >= updated[a]
  /\ Untouched(a)'

LEMMA OrderAdvances ==
  ASSUME TypeOK, TypeOK', \A b \in Approvals : Untouched(b), NEW a \in Approvals,
         OrderStep
  PROVE  Advances(a)
<1>1. ASSUME NEW b \in Approvals, NEW t \in Times, NEW p \in Plans, ApproveSimulated(b, p, t)
      PROVE  Advances(a)
  BY <1>1, AbsentAssumption DEF ApproveSimulated, Advances, Untouched, TypeOK
<1>2. ASSUME NEW b \in Approvals, NEW t \in Times, NEW p \in Plans, Prepare(b, p, t)
      PROVE  Advances(a)
  <2>1. t \in Nat
    BY TimeAssumption
  <2>2. /\ state[b] = NoIntent
        /\ approval' = approval /\ filled' = filled
        /\ state' = [state EXCEPT ![b] = "PREPARED"]
        /\ updated' = [updated EXCEPT ![b] = t]
    BY <1>2 DEF Prepare, ReserveIntent
  <2>3. QED
    BY <2>1, <2>2 DEF Advances, Untouched, TypeOK, NoIntent, Terminal
<1>3. ASSUME NEW b \in Approvals, NEW t \in Times, NEW s \in OrderStates, NEW ex,
             Transition(b, s, t, ex)
      PROVE  Advances(a)
  <2>1. /\ state[b] \in OrderStates \cup {NoIntent} /\ s \in Allowed[state[b]]
        /\ approval' = approval /\ filled' = filled
        /\ state' = [state EXCEPT ![b] = s]
        /\ updated' = [updated EXCEPT ![b] = t]
        /\ updated[b] <= t
    BY <1>3 DEF Transition, TransitionAllowed, TypeOK
  <2>2. state[b] \notin Terminal \cup {NoIntent}
    BY <2>1 DEF Allowed, Terminal, NoIntent
  <2>3. QED
    BY <2>1, <2>2, TimeAssumption DEF Advances, Untouched, TypeOK, OrderStates, Terminal, NoIntent
<1>4. ASSUME NEW b \in Approvals, NEW t \in Times, NEW ex, TransitionHalts(b, t, ex)
      PROVE  Advances(a)
  BY <1>4 DEF TransitionHalts, Advances, Untouched, TypeOK, intentVars
<1>5. ASSUME NEW b \in Approvals, NEW t \in Times, NEW n, ConfirmCancel(b, n, t)
      PROVE  Advances(a)
  BY <1>5, TimeAssumption
     DEF ConfirmCancel, Advances, Untouched, TypeOK, Terminal, NoIntent
<1>6. QED
  BY <1>1, <1>2, <1>3, <1>4, <1>5 DEF OrderStep

LEMMA StepAdvances ==
  ASSUME TypeOK, TypeOK', \A b \in Approvals : Untouched(b), NEW a \in Approvals, [Next]_vars
  PROVE  Advances(a)
<1>1. CASE OrderStep
  BY <1>1, OrderAdvances
<1>2. CASE UNCHANGED intentVars
  BY <1>2 DEF intentVars, Advances, Untouched, TypeOK
<1>3. CASE FillStep
  <2>1. PICK f \in Trades, b \in Approvals, q \in 1 .. MaxQuantity, p \in 1 .. One,
             fee \in 0 .. MaxFee, t \in Times, ex \in OptionalExecutors,
             l \in Levels \cup {NoLevel} : ApplyFill(f, b, q, p, fee, t, ex, l)
    BY <1>3 DEF FillStep
  <2>2. /\ Active(b) /\ approval' = approval
        /\ state' = [state EXCEPT ![b] =
              IF filled[b] + q = PlanOf(b).quantity THEN "FILLED"
              ELSE IF state[b] = "CANCEL_PENDING" THEN "CANCEL_PENDING" ELSE "PARTIALLY_FILLED"]
        /\ filled' = [filled EXCEPT ![b] = filled[b] + q]
        /\ updated' = [updated EXCEPT ![b] = Greatest(updated[b], t)]
    BY <2>1, FillMoves
  <2>3. t \in Nat
    BY TimeAssumption
  <2>4. QED
    BY <2>2, <2>3 DEF Advances, Untouched, TypeOK, Greatest, Active, Terminal, NoIntent
<1>4. MoneyStep \/ ControlStep \/ LeaseStep \/ SettleStep \/ UNCHANGED vars
        => UNCHANGED intentVars
  BY MoneyFrame, ControlFrame, LeaseFrame, SettleFrame DEF vars
<1>5. QED
  BY <1>1, <1>2, <1>3, <1>4 DEF Next

Begun == TypeOK /\ \A a \in Approvals : Untouched(a)

LEMMA BegunHolds == Spec => []Begun
<1>1. Init => Begun
  BY InitType DEF Init, Begun, Untouched
<1>2. Begun /\ [Next]_vars => Begun'
  BY NextType, StepAdvances DEF Begun, Advances
<1>3. QED
  BY <1>1, <1>2, PTL DEF Spec
-----------------------------------------------------------------------------
\* The marks and the stops in a step: moved up, set, or left alone.
LEMMA ControlKept ==
  ASSUME TypeOK, TypeOK', [Next]_vars
  PROVE  /\ control.halted => control'.halted
         /\ control.paused => control'.paused
         /\ control'.high >= control.high
         /\ control'.businessHigh >= control.businessHigh
<1>1. CASE UpdateHighWater
  <2>1. bal' \in [Accounts -> Int]
    BY DEF TypeOK
  <2>2. QED
    BY <1>1, <2>1, HighWater
<1>2. CASE ~UpdateHighWater
  <2>1. control \in [halted : BOOLEAN, paused : BOOLEAN, leaseExpires : Nat,
                     high : Int, businessHigh : Int]
    BY DEF TypeOK
  <2>2. CASE control' = control
    BY <2>1, <2>2
  <2>3. CASE ControlStep
    <3>1. CASE \E n : control' = [control EXCEPT !.leaseExpires = n]
      BY <2>1, <3>1
    <3>2. ASSUME NEW h \in BOOLEAN, control.halted => h,
                 control' = [control EXCEPT !.paused = TRUE, !.halted = h]
          PROVE  /\ control.halted => control'.halted
                 /\ control'.paused
                 /\ control'.high = control.high /\ control'.businessHigh = control.businessHigh
      BY <2>1, <3>2
    <3>3. CASE \E c \in Commands :
                 control' = [control EXCEPT !.paused = TRUE,
                               !.halted = @ \/ commands[c].kind = "EMERGENCY_HALT"]
      <4>1. PICK c \in Commands :
              control' = [control EXCEPT !.paused = TRUE,
                            !.halted = control.halted \/ commands[c].kind = "EMERGENCY_HALT"]
        BY <3>3
      <4> DEFINE h == control.halted \/ commands[c].kind = "EMERGENCY_HALT"
      <4>2. h \in BOOLEAN /\ (control.halted => h)
        BY <2>1
      <4>3. control' = [control EXCEPT !.paused = TRUE, !.halted = h]
        BY <4>1
      <4> HIDE DEF h
      <4>4. /\ control.halted => control'.halted
            /\ control'.paused
            /\ control'.high = control.high /\ control'.businessHigh = control.businessHigh
        BY <3>2, <4>2, <4>3
      <4>5. QED
        BY <2>1, <4>4
    <3>4. CASE control' = [control EXCEPT !.halted = TRUE]
      BY <2>1, <3>4
    <3>5. QED
      BY <2>2, <2>3, <3>1, <3>3, <3>4
         DEF ControlStep, Halt, RenewControlLease, ProposeCommand, ConsumeControlCommand
  <2>4. CASE OrderStep
    <3>1. control' = control \/ control' = [control EXCEPT !.halted = TRUE]
      BY <2>4, OrderFrame
    <3>2. QED
      BY <2>1, <3>1
  <2>5. CASE MoneyStep
    BY <1>2, <2>2, <2>5 DEF MoneyStep, Deposit, RecordOperatingCost
  <2>6. CASE UNCHANGED vars
    BY <2>2, <2>6 DEF vars
  <2>7. QED
    BY <1>2, <2>2, <2>3, <2>4, <2>5, <2>6, LeaseFrame, FillFrame, SettleFrame DEF Next
<1>3. QED
  BY <1>1, <1>2

\* A fill and a settlement are recorded once.
LEMMA RecordsKept ==
  ASSUME TypeOK, [Next]_vars
  PROVE  /\ \A f \in Trades : fills[f] # NoFill => fills'[f] = fills[f]
         /\ \A x \in Assets : settledBy[x] # NoSettlement => settledBy'[x] = settledBy[x]
<1>1. CASE FillStep
  <2>1. PICK f \in Trades, a \in Approvals, q \in 1 .. MaxQuantity, p \in 1 .. One,
             fee \in 0 .. MaxFee, t \in Times, ex \in OptionalExecutors,
             l \in Levels \cup {NoLevel} : ApplyFill(f, a, q, p, fee, t, ex, l)
    BY <1>1 DEF FillStep
  <2>2. fills[f] = NoFill
    BY <2>1, FillMoves
  <2>3. settledBy' = settledBy /\ \E r : fills' = [fills EXCEPT ![f] = r]
    BY <2>1 DEF ApplyFill, ApplyBuyFill, ApplySellFill, RecordFill
  <2>4. QED
    BY <2>2, <2>3 DEF TypeOK
<1>2. CASE SettleStep
  BY <1>2 DEF SettleStep, Settle, TypeOK
<1>3. MoneyStep \/ ControlStep \/ LeaseStep \/ OrderStep \/ UNCHANGED vars
        => fills' = fills /\ settledBy' = settledBy
  BY MoneyFrame, ControlFrame, LeaseFrame, OrderFrame DEF vars, positionVars
<1>4. QED
  BY <1>1, <1>2, <1>3 DEF Next

\* An order that begins to be sent is one that the persisted stops let through.
LEMMA SentUnstopped ==
  ASSUME TypeOK, [Next]_vars, NEW a \in Approvals,
         state'[a] = "SUBMITTING", state[a] # "SUBMITTING"
  PROVE  ~(control.halted \/ (control.paused /\ IsBuy(a)))
<1>1. CASE OrderStep
  <2>1. ASSUME NEW b \in Approvals, NEW t \in Times, NEW p \in Plans,
               ApproveSimulated(b, p, t) \/ Prepare(b, p, t)
        PROVE  FALSE
    BY <2>1 DEF ApproveSimulated, Prepare, ReserveIntent, TypeOK
  <2>2. ASSUME NEW b \in Approvals, NEW t \in Times, NEW s \in OrderStates, NEW ex,
               Transition(b, s, t, ex)
        PROVE  ~Stopped(PlanOf(a).side)
    BY <2>2 DEF Transition, TransitionAllowed, TypeOK
  <2>3. ASSUME NEW b \in Approvals, NEW t \in Times, NEW ex, TransitionHalts(b, t, ex)
        PROVE  FALSE
    BY <2>3 DEF TransitionHalts, intentVars
  <2>4. ASSUME NEW b \in Approvals, NEW t \in Times, NEW n, ConfirmCancel(b, n, t)
        PROVE  FALSE
    BY <2>4 DEF ConfirmCancel, TypeOK
  <2>5. ~Stopped(PlanOf(a).side)
    BY <1>1, <2>1, <2>2, <2>3, <2>4 DEF OrderStep
  <2>6. QED
    BY <2>5 DEF Stopped, IsBuy
<1>2. CASE FillStep
  <2>1. PICK f \in Trades, b \in Approvals, q \in 1 .. MaxQuantity, p \in 1 .. One,
             fee \in 0 .. MaxFee, t \in Times, ex \in OptionalExecutors,
             l \in Levels \cup {NoLevel} : ApplyFill(f, b, q, p, fee, t, ex, l)
    BY <1>2 DEF FillStep
  <2>2. state' = [state EXCEPT ![b] =
          IF filled[b] + q = PlanOf(b).quantity THEN "FILLED"
          ELSE IF state[b] = "CANCEL_PENDING" THEN "CANCEL_PENDING" ELSE "PARTIALLY_FILLED"]
    BY <2>1, FillMoves
  <2>3. QED
    BY <2>2 DEF TypeOK
<1>3. MoneyStep \/ ControlStep \/ LeaseStep \/ SettleStep \/ UNCHANGED vars => state' = state
  BY MoneyFrame, ControlFrame, LeaseFrame, SettleFrame DEF vars, intentVars
<1>4. QED
  BY <1>1, <1>2, <1>3 DEF Next

\* From the moment a pause or a halt is persisted, nothing that any process of
\* the bot does increases what is at risk, and no order it forbids is sent.
THEOREM StopsHold == Spec => NoNewRiskAfterStop
<1>1. BooksInv /\ [Next]_vars /\ (control.halted \/ control.paused)
        => Exposure(bal') <= Exposure(bal)
  <2> SUFFICES ASSUME BooksInv, [Next]_vars, control.halted \/ control.paused
               PROVE  Exposure(bal') <= Exposure(bal)
    OBVIOUS
  <2>1. ASSUME NEW a \in Approvals, NEW p \in Plans, NEW t \in Times, Prepare(a, p, t)
        PROVE  p.side # "BUY"
    BY <2>1 DEF Prepare, ReserveIntent, Validate, Stopped
  <2>2. QED
    BY <2>1, ExposureGrows
<1>2. TypeOK /\ [Next]_vars =>
        \A a \in Approvals :
          (state[a] # "SUBMITTING" /\ state'[a] = "SUBMITTING")
            => ~(control.halted \/ (control.paused /\ IsBuy(a)))
  BY SentUnstopped
<1>3. Spec => []BooksInv
  BY InitBooks, NextBooks, PTL DEF Spec
<1>4. QED
  BY <1>1, <1>2, <1>3, TypeCorrect, PTL DEF Spec, NoNewRiskAfterStop

\* A command that was consumed is never touched again.
LEMMA CommandsKept ==
  ASSUME TypeOK, [Next]_vars, NEW c \in Commands, commands[c].status = "CONSUMED"
  PROVE  commands'[c] = commands[c]
<1>1. CASE ControlStep
  <2>1. ASSUME NEW d \in Commands, NEW kind \in CommandKinds, NEW e \in Times, NEW t \in Times,
               ProposeCommand(d, kind, e, t)
        PROVE  commands'[c] = commands[c]
    BY <2>1 DEF ProposeCommand, NoCommand, TypeOK
  <2>2. ASSUME NEW d \in Commands, NEW u \in Times, NEW t \in Times, ConsumeControlCommand(d, u, t)
        PROVE  commands'[c] = commands[c]
    BY <2>2 DEF ConsumeControlCommand, TypeOK
  <2>3. QED
    BY <1>1, <2>1, <2>2 DEF ControlStep, Halt, RenewControlLease
<1>2. MoneyStep \/ LeaseStep \/ UNCHANGED vars => commands' = commands
  BY DEF MoneyStep, Deposit, RecordOperatingCost, LeaseStep, AcquireExecutor, ReleaseExecutor, vars
<1>3. OrderStep => commands' = commands
  BY DEF OrderStep, ApproveSimulated, Prepare, ReserveIntent, Transition, TransitionHalts,
         ConfirmCancel
<1>4. FillStep => commands' = commands
  <2> SUFFICES ASSUME NEW f, NEW a, NEW q, NEW p, NEW fee, NEW t, NEW ex, NEW l,
                      ApplyFill(f, a, q, p, fee, t, ex, l)
               PROVE  commands' = commands
    BY DEF FillStep
  <2>1. CASE ApplyBuyFill(f, a, q, p, fee, t, ex, l)
    BY <2>1 DEF ApplyBuyFill
  <2>2. CASE ApplySellFill(f, a, q, p, fee, t, ex, l)
    BY <2>2 DEF ApplySellFill
  <2>3. QED
    BY <2>1, <2>2 DEF ApplyFill
<1>5. SettleStep => commands' = commands
  BY DEF SettleStep, Settle
<1>6. QED
  BY <1>1, <1>2, <1>3, <1>4, <1>5 DEF Next

\* No step of any process takes back a stop, a mark, a consumed command or approval, a
\* finished order, the order of an order's timestamps, a fill or a settlement.
THEOREM NothingIsTakenBack == Spec => NothingTakenBack
<1>1. Begun /\ Begun' /\ [Next]_vars =>
        /\ control.halted => control'.halted
        /\ control.paused => control'.paused
        /\ control'.high >= control.high
        /\ control'.businessHigh >= control.businessHigh
        /\ \A c \in Commands : commands[c].status = "CONSUMED" => commands'[c] = commands[c]
        /\ \A a \in Approvals :
             /\ state[a] # NoIntent => state'[a] # NoIntent /\ approval'[a] = approval[a]
             /\ state[a] \in Terminal => state'[a] = state[a]
             /\ updated'[a] >= updated[a]
        /\ \A f \in Trades : fills[f] # NoFill => fills'[f] = fills[f]
        /\ \A x \in Assets : settledBy[x] # NoSettlement => settledBy'[x] = settledBy[x]
  BY ControlKept, CommandsKept, RecordsKept, StepAdvances DEF Begun, Advances
<1>2. QED
  BY <1>1, BegunHolds, PTL DEF Spec, NothingTakenBack

\* An executor token that another has superseded is never the lease again: a
\* process that lost it, however late it wakes, can move no order.
THEOREM TokensAreFinal == Spec => TokenNeverReissued
<1>1. TypeOK /\ [Next]_vars =>
        \A ex \in Executors :
          (ex # [owner |-> lease.owner, epoch |-> lease.epoch] /\ ex.epoch <= lease.epoch)
            => ex # [owner |-> lease'.owner, epoch |-> lease'.epoch]
  <2> SUFFICES ASSUME TypeOK, [Next]_vars, NEW ex \in Executors,
                      ex # [owner |-> lease.owner, epoch |-> lease.epoch],
                      ex.epoch <= lease.epoch
               PROVE  ex # [owner |-> lease'.owner, epoch |-> lease'.epoch]
    OBVIOUS
  <2>1. ex.epoch \in Nat /\ lease.epoch \in Nat
    BY InputsAssumption DEF Executors, TypeOK
  <2>2. CASE LeaseStep
    BY <2>1, <2>2 DEF LeaseStep, AcquireExecutor, EpochFor, ReleaseExecutor, TypeOK
  <2>3. ~LeaseStep => lease' = lease
    BY MoneyFrame, ControlFrame, OrderFrame, FillFrame, SettleFrame DEF Next, vars
  <2>4. QED
    BY <2>2, <2>3
<1>2. QED
  BY <1>1, TypeCorrect, PTL DEF Spec, TokenNeverReissued
-----------------------------------------------------------------------------
(* What an order costs.  ReservationCoversFills is not inductive: a fill   *)
(* might be of an intent that does not exist yet, and an order might be    *)
(* rejected after one.  Covered adds that neither occurs.                  *)

Unfilled == {NoIntent, "PREPARED", "SUBMITTING"}

Covered(a) ==
  /\ filled[a] = FillQuantity(a)
  /\ FillCost(a) \in Nat
  /\ state[a] \in Unfilled => filled[a] = 0
  /\ state[a] = NoIntent => FillCost(a) = 0
  /\ state[a] # NoIntent =>
       /\ filled[a] <= PlanOf(a).quantity
       /\ state[a] = "FILLED" <=> filled[a] = PlanOf(a).quantity
       /\ state[a] \in {"REJECTED", "EXPIRED"} => filled[a] = 0
       /\ IsBuy(a) => /\ reserved[a] + FillCost(a) <= CostCap(PlanOf(a))
                      /\ Active(a) => reserved[a] + FillCost(a) = CostCap(PlanOf(a))

LEMMA CoveredSame ==
  ASSUME NEW a \in Approvals, Covered(a), UNCHANGED <<intentVars, fills>>
  PROVE  Covered(a)'
BY DEF Covered, FillQuantity, FillCost, PlanOf, IsBuy, Active, intentVars

\* The row of a fill.
FillRow(b, q, gross, fee) == [intent |-> b, quantity |-> q, gross |-> gross, fee |-> fee]

\* What a fill adds to the sums of its order, and to no other.
LEMMA FillTotals ==
  ASSUME TypeOK, TypeOK', NEW f \in Trades, NEW b \in Approvals, NEW a \in Approvals,
         NEW q \in Nat, NEW gross \in Nat, NEW fee \in Nat, fills[f] = NoFill,
         \A g \in Trades \ {f} : fills'[g] = fills[g], fills'[f] = FillRow(b, q, gross, fee),
         FillCost(a) \in Nat, FillQuantity(a) \in Nat
  PROVE  /\ FillQuantity(a)' = FillQuantity(a) + (IF a = b THEN q ELSE 0)
         /\ FillCost(a)' = FillCost(a) + (IF a = b THEN gross + fee ELSE 0)
<1> DEFINE Q  == [g \in Trades |-> IF fills[g].intent = a THEN fills[g].quantity ELSE 0]
           QN == [g \in Trades |-> IF fills'[g].intent = a THEN fills'[g].quantity ELSE 0]
           C  == [g \in Trades |-> IF fills[g].intent = a THEN fills[g].gross + fills[g].fee ELSE 0]
           CN == [g \in Trades |-> IF fills'[g].intent = a THEN fills'[g].gross + fills'[g].fee ELSE 0]
<1>1. /\ \A g \in Trades : fills[g].quantity \in Nat /\ fills[g].gross \in Nat /\ fills[g].fee \in Nat
      /\ \A g \in Trades \ {f} : fills'[g] = fills[g]
      /\ fills'[f] = [intent |-> b, quantity |-> q, gross |-> gross, fee |-> fee]
  BY DEF TypeOK, FillRecords, NoFill, FillRow
<1>2. /\ Q \in [Trades -> Nat] /\ QN \in [Trades -> Nat]
      /\ C \in [Trades -> Nat] /\ CN \in [Trades -> Nat]
  <2>1. \A g \in Trades : fills'[g].quantity \in Nat /\ fills'[g].gross \in Nat /\ fills'[g].fee \in Nat
    BY <1>1
  <2>2. QED
    BY <1>1, <2>1
<1>3. /\ \A g \in Trades \ {f} : QN[g] = Q[g] /\ CN[g] = C[g]
      /\ Q[f] = 0 /\ C[f] = 0
      /\ QN[f] = IF a = b THEN q ELSE 0
      /\ CN[f] = IF a = b THEN gross + fee ELSE 0
  BY <1>1 DEF NoFill
<1>4. /\ FillQuantity(a) = Total(Q) /\ FillQuantity(a)' = Total(QN)
      /\ FillCost(a) = Total(C) /\ FillCost(a)' = Total(CN)
  BY DEF FillQuantity, FillCost
<1> HIDE DEF Q, QN, C, CN
<1>5. Total(QN) = Total(Q) + QN[f] - Q[f]
  BY <1>2, <1>3, TotalUpdate, FiniteAssumption
<1>6. Total(CN) = Total(C) + CN[f] - C[f]
  BY <1>2, <1>3, TotalUpdate, FiniteAssumption
<1>7. QED
  BY <1>3, <1>4, <1>5, <1>6

LEMMA PrepareCovered ==
  ASSUME TypeOK, TypeOK', NEW a \in Approvals, Covered(a), NEW b \in Approvals, NEW p \in Plans,
         NEW t \in Times, Prepare(b, p, t)
  PROVE  Covered(a)'
<1>1. PICK r \in Nat : /\ r = IF p.side = "BUY" THEN CostCap(p) ELSE 0
                       /\ reserved' = [reserved EXCEPT ![b] = r]
  BY PrepareEffect
<1>2. /\ state[b] = NoIntent /\ approval[b] = p
      /\ approval' = approval /\ filled' = filled /\ fills' = fills
      /\ state' = [state EXCEPT ![b] = "PREPARED"]
  BY DEF Prepare, ReserveIntent, ApprovalUsable, positionVars
<1>3. p.quantity \in Nat /\ p.quantity > 0 /\ CostCap(p) \in Nat
  BY PlansAssumption, CostCapNat DEF PlanOK
<1>4. FillQuantity(a)' = FillQuantity(a) /\ FillCost(a)' = FillCost(a)
  BY <1>2 DEF FillQuantity, FillCost
<1>5. CASE a = b
  <2>1. /\ state'[a] = "PREPARED" /\ filled'[a] = 0 /\ FillCost(a) = 0
        /\ reserved'[a] = r /\ PlanOf(a)' = p
    BY <1>1, <1>2, <1>5 DEF TypeOK, Covered, Unfilled, PlanOf
  <2>2. QED
    BY <1>1, <1>2, <1>3, <1>4, <1>5, <2>1
       DEF Covered, Unfilled, IsBuy, NoIntent
<1>6. CASE a # b
  <2>1. state'[a] = state[a] /\ reserved'[a] = reserved[a] /\ filled'[a] = filled[a]
        /\ PlanOf(a)' = PlanOf(a)
    BY <1>1, <1>2, <1>6 DEF TypeOK, PlanOf
  <2>2. QED
    BY <1>4, <2>1 DEF Covered, IsBuy, Active
<1>7. QED
  BY <1>5, <1>6

\* An order that moves without a fill keeps or gives back its reservation.
LEMMA MoveCovered ==
  ASSUME TypeOK, TypeOK', NEW a \in Approvals, Covered(a), NEW b \in Approvals,
         NEW s \in OrderStates, state' = [state EXCEPT ![b] = s], approval' = approval,
         filled' = filled, fills' = fills,
         Active(b), s # "FILLED",
         s \in Unfilled => state[b] \in Unfilled,
         s \in {"REJECTED", "EXPIRED"} => state[b] \in Unfilled,
         \/ reserved' = reserved /\ s \notin Terminal
         \/ reserved' = [reserved EXCEPT ![b] = 0] /\ s \in Terminal
  PROVE  Covered(a)'
<1>1. FillQuantity(a)' = FillQuantity(a) /\ FillCost(a)' = FillCost(a) /\ PlanOf(a)' = PlanOf(a)
  BY DEF FillQuantity, FillCost, PlanOf
<1>2. CASE a = b
  <2>1. state'[a] = s /\ filled'[a] = filled[a] /\ state[a] \notin Terminal \cup {NoIntent}
        /\ s # NoIntent
    BY <1>2 DEF TypeOK, Active, OrderStates, Terminal, NoIntent
  <2>2. reserved[a] \in Nat /\ FillCost(a) \in Nat
    BY DEF TypeOK, Covered
  <2>3. \/ reserved'[a] = reserved[a] /\ s \notin Terminal
        \/ reserved'[a] = 0 /\ s \in Terminal
    BY <1>2 DEF TypeOK
  <2>4. CostCap(PlanOf(a)) \in Nat
    BY <2>1, PlansAssumption, CostCapNat DEF TypeOK, PlanOf
  <2>5. /\ filled[a] <= PlanOf(a).quantity
        /\ state[a] = "FILLED" <=> filled[a] = PlanOf(a).quantity
        /\ IsBuy(a) => reserved[a] + FillCost(a) = CostCap(PlanOf(a))
    BY <2>1 DEF Covered, Active
  <2>6. filled[a] # PlanOf(a).quantity
    BY <2>1, <2>5 DEF Terminal
  <2>7. s \in Unfilled \cup {"REJECTED", "EXPIRED"} => filled[a] = 0
    BY <1>2 DEF Covered
  <2>8. QED
    BY <1>1, <1>2, <2>1, <2>2, <2>3, <2>4, <2>5, <2>6, <2>7
       DEF Covered, IsBuy, Active
<1>3. CASE a # b
  <2>1. state'[a] = state[a] /\ reserved'[a] = reserved[a] /\ filled'[a] = filled[a]
    BY <1>3 DEF TypeOK
  <2>2. QED
    BY <1>1, <2>1 DEF Covered, IsBuy, Active
<1>4. QED
  BY <1>2, <1>3

\* Orders that move are active, and leave it unfilled only if they were never sent.
LEMMA TransitionMoves ==
  ASSUME TypeOK, NEW b \in Approvals, NEW s \in OrderStates, NEW t \in Times, NEW ex,
         Transition(b, s, t, ex)
  PROVE  /\ Active(b) /\ s # "FILLED"
         /\ s \in Unfilled => state[b] \in Unfilled
         /\ s \in {"REJECTED", "EXPIRED"} => state[b] \in Unfilled
         /\ s \in Terminal => s \in Releasing
         /\ state' = [state EXCEPT ![b] = s]
         /\ approval' = approval /\ filled' = filled /\ fills' = fills /\ qty' = qty
         /\ \/ reserved' = reserved /\ s \notin Terminal
            \/ reserved' = [reserved EXCEPT ![b] = 0] /\ s \in Terminal
<1>1. /\ state[b] \in OrderStates \cup {NoIntent} /\ s \in Allowed[state[b]]
      /\ state' = [state EXCEPT ![b] = s]
      /\ approval' = approval /\ filled' = filled /\ fills' = fills /\ qty' = qty
      /\ IF s \in Releasing THEN Release(b) ELSE UNCHANGED <<bal, reserved, released>>
  BY DEF Transition, TransitionAllowed, TypeOK, positionVars
<1>2. /\ state[b] \notin Terminal \cup {NoIntent} /\ s # "FILLED"
      /\ s \in Unfilled => state[b] \in Unfilled
      /\ s \in {"REJECTED", "EXPIRED"} => state[b] \in Unfilled
      /\ s \in Terminal <=> s \in Releasing
  BY <1>1 DEF Allowed, Terminal, NoIntent, Unfilled, Releasing, OrderStates
<1>3. s \in Releasing => reserved' = [reserved EXCEPT ![b] = 0]
  BY <1>1, ReleaseEffect
<1>4. QED
  BY <1>1, <1>2, <1>3 DEF Active

LEMMA OrderCovered ==
  ASSUME TypeOK, TypeOK', NEW a \in Approvals, Covered(a), OrderStep
  PROVE  Covered(a)'
<1>1. ASSUME NEW b \in Approvals, NEW t \in Times, NEW p \in Plans, ApproveSimulated(b, p, t)
      PROVE  Covered(a)'
  <2>1. /\ approval[b] = NoPlan /\ approval' = [approval EXCEPT ![b] = p]
        /\ UNCHANGED <<state, filled, reserved, fills>>
    BY <1>1 DEF ApproveSimulated, positionVars
  <2>2. state[a] # NoIntent => PlanOf(a)' = PlanOf(a)
    BY <2>1, AbsentAssumption DEF TypeOK, PlanOf
  <2>3. QED
    BY <2>1, <2>2 DEF Covered, FillQuantity, FillCost, IsBuy, Active
<1>2. ASSUME NEW b \in Approvals, NEW t \in Times, NEW p \in Plans, Prepare(b, p, t)
      PROVE  Covered(a)'
  BY <1>2, PrepareCovered
<1>3. ASSUME NEW b \in Approvals, NEW t \in Times, NEW s \in OrderStates, NEW ex,
             Transition(b, s, t, ex)
      PROVE  Covered(a)'
  BY <1>3, TransitionMoves, MoveCovered
<1>4. ASSUME NEW b \in Approvals, NEW t \in Times, NEW ex, TransitionHalts(b, t, ex)
      PROVE  Covered(a)'
  BY <1>4, CoveredSame DEF TransitionHalts, positionVars
<1>5. ASSUME NEW b \in Approvals, NEW t \in Times, NEW n, ConfirmCancel(b, n, t)
      PROVE  Covered(a)'
  <2>1. /\ Active(b) /\ approval' = approval /\ filled' = filled /\ fills' = fills
        /\ state' = [state EXCEPT ![b] = "CANCELLED"]
        /\ Release(b)
    BY <1>5 DEF ConfirmCancel, Active, Terminal, NoIntent, positionVars
  <2>2. reserved' = [reserved EXCEPT ![b] = 0]
    BY <2>1, ReleaseEffect
  <2>3. "CANCELLED" \in OrderStates /\ "CANCELLED" \in Terminal /\ "CANCELLED" \notin Unfilled
    BY DEF OrderStates, Terminal, Unfilled, NoIntent
  <2>4. QED
    BY <2>1, <2>2, <2>3, MoveCovered
<1>6. QED
  BY <1>1, <1>2, <1>3, <1>4, <1>5 DEF OrderStep

\* What a fill adds to its order's cost leaves its reservation.
LEMMA FillCovered ==
  ASSUME TypeOK, TypeOK', NEW a \in Approvals, Covered(a), FillStep
  PROVE  Covered(a)'
<1>1. PICK f \in Trades, b \in Approvals, q \in 1 .. MaxQuantity, p \in 1 .. One,
           fee \in 0 .. MaxFee, t \in Times, ex \in OptionalExecutors,
           l \in Levels \cup {NoLevel} : ApplyFill(f, b, q, p, fee, t, ex, l)
  BY DEF FillStep
<1> DEFINE full == filled[b] + q = PlanOf(b).quantity
<1>2. /\ Active(b) /\ PlanOf(b) \in Plans /\ PlanOf(b).quantity \in Nat
      /\ q \in Nat /\ q > 0 /\ filled[b] \in Nat
      /\ filled[b] + q <= PlanOf(b).quantity
      /\ approval' = approval
      /\ state' = [state EXCEPT ![b] = IF full THEN "FILLED"
            ELSE IF state[b] = "CANCEL_PENDING" THEN "CANCEL_PENDING" ELSE "PARTIALLY_FILLED"]
      /\ filled' = [filled EXCEPT ![b] = filled[b] + q]
      /\ fills[f] = NoFill
  BY <1>1, FillMoves
<1>3. p \in Nat /\ fee \in Nat
  BY <1>1, FillFacts DEF ApplyFill, ApplyBuyFill, ApplySellFill
<1>4. PICK gross \in Nat :
        /\ \A g \in Trades \ {f} : fills'[g] = fills[g]
        /\ fills'[f] = FillRow(b, q, gross, fee)
        /\ IsBuy(b) => /\ gross + fee <= reserved[b]
                       /\ reserved' = [reserved EXCEPT ![b] =
                                         IF full THEN 0 ELSE reserved[b] - gross - fee]
        /\ \A c \in Approvals \ {b} : reserved'[c] = reserved[c]
  <2>1. CASE ApplyBuyFill(f, b, q, p, fee, t, ex, l)
    <3>1. Money(q, p) \in Nat
      BY <1>2, <1>3, MoneyNat
    <3>2. /\ fills' = [fills EXCEPT ![f] = FillRow(b, q, Money(q, p), fee)]
          /\ reserved' = [reserved EXCEPT ![b] = IF full THEN 0 ELSE reserved[b] - Money(q, p) - fee]
      BY <2>1 DEF ApplyBuyFill, RecordFill, FillIntent, FillRow
    <3>3. Money(q, p) + fee <= reserved[b]
      BY <2>1 DEF ApplyBuyFill, FillAllowed
    <3>4. QED
      BY <3>1, <3>2, <3>3 DEF TypeOK
  <2>2. CASE ApplySellFill(f, b, q, p, fee, t, ex, l)
    <3>1. Proceeds(q, p) \in Nat
      BY <1>2, <1>3, MoneyNat
    <3>2. /\ fills' = [fills EXCEPT ![f] = FillRow(b, q, Proceeds(q, p), fee)]
          /\ reserved' = [reserved EXCEPT ![b] = IF full THEN 0 ELSE 0]
          /\ ~IsBuy(b)
      BY <2>2 DEF ApplySellFill, RecordFill, FillIntent, FillRow
    <3>3. QED
      BY <3>1, <3>2 DEF TypeOK
  <2>3. QED
    BY <1>1, <2>1, <2>2 DEF ApplyFill
<1>5. FillCost(a) \in Nat /\ filled[a] \in Nat /\ filled[a] = FillQuantity(a)
  BY DEF Covered, TypeOK
<1>6. /\ FillQuantity(a)' = FillQuantity(a) + (IF a = b THEN q ELSE 0)
      /\ FillCost(a)' = FillCost(a) + (IF a = b THEN gross + fee ELSE 0)
  <2>1. fills[f] = NoFill /\ q \in Nat /\ fee \in Nat
    BY <1>2, <1>3
  <2>2. /\ \A g \in Trades \ {f} : fills'[g] = fills[g]
        /\ fills'[f] = FillRow(b, q, gross, fee)
    BY <1>4
  <2>3. FillCost(a) \in Nat /\ FillQuantity(a) \in Nat
    BY <1>5
  <2>4. QED
    BY <2>1, <2>2, <2>3, FillTotals
<1>7. CASE a = b
  <2>1. /\ state'[a] = IF full THEN "FILLED"
                       ELSE IF state[a] = "CANCEL_PENDING" THEN "CANCEL_PENDING" ELSE "PARTIALLY_FILLED"
        /\ filled'[a] = filled[a] + q
        /\ PlanOf(a)' = PlanOf(a)
        /\ state[a] \notin Terminal \cup {NoIntent}
    BY <1>2, <1>7 DEF TypeOK, Active, PlanOf
  <2>2. /\ filled'[a] = FillQuantity(a)'
        /\ FillCost(a)' \in Nat
        /\ state'[a] \notin Unfilled
        /\ filled'[a] <= PlanOf(a).quantity
        /\ state'[a] = "FILLED" <=> filled'[a] = PlanOf(a).quantity
        /\ state'[a] \notin {"REJECTED", "EXPIRED"}
        /\ state'[a] \in Terminal <=> full
    BY <1>2, <1>3, <1>4, <1>5, <1>6, <1>7, <2>1 DEF Unfilled, NoIntent, Terminal
  <2>3. CASE IsBuy(a)
    <3>1. /\ reserved[a] \in Nat /\ gross + fee <= reserved[a]
          /\ reserved'[a] = IF full THEN 0 ELSE reserved[a] - gross - fee
      BY <1>4, <1>7, <2>3 DEF TypeOK
    <3>2. reserved[a] + FillCost(a) = CostCap(PlanOf(a)) /\ CostCap(PlanOf(a)) \in Nat
      BY <1>2, <1>7, <2>1, <2>3, PlansAssumption, CostCapNat DEF Covered, Active
    <3>3. FillCost(a)' = FillCost(a) + gross + fee
      BY <1>3, <1>4, <1>5, <1>6, <1>7
    <3>4. /\ reserved'[a] + FillCost(a)' <= CostCap(PlanOf(a))
          /\ ~full => reserved'[a] + FillCost(a)' = CostCap(PlanOf(a))
      BY <1>3, <1>4, <1>5, <3>1, <3>2, <3>3
    <3>5. Active(a)' => ~full
      BY <2>2 DEF Active
    <3>6. QED
      BY <2>1, <2>2, <3>4, <3>5 DEF Covered, IsBuy, Unfilled, NoIntent
  <2>4. CASE ~IsBuy(a)
    BY <2>1, <2>2, <2>4 DEF Covered, IsBuy, Unfilled
  <2>5. QED
    BY <2>3, <2>4
<1>8. CASE a # b
  <2>1. /\ state'[a] = state[a] /\ filled'[a] = filled[a] /\ reserved'[a] = reserved[a]
        /\ PlanOf(a)' = PlanOf(a)
        /\ FillQuantity(a)' = FillQuantity(a) /\ FillCost(a)' = FillCost(a)
    BY <1>2, <1>4, <1>5, <1>6, <1>8 DEF TypeOK, PlanOf
  <2>2. QED
    BY <2>1 DEF Covered, IsBuy, Active
<1>9. QED
  BY <1>7, <1>8

CoveredInv == TypeOK /\ \A a \in Approvals : Covered(a)

LEMMA CoveredHolds == Spec => []CoveredInv
<1>1. Init => CoveredInv
  <2> SUFFICES ASSUME Init, NEW a \in Approvals
               PROVE  Covered(a)
    BY InitType DEF CoveredInv
  <2>1. Total([f \in Trades |-> 0]) = 0
    BY TotalZero, FiniteAssumption
  <2>2. /\ \A f \in Trades : fills[f] = NoFill
        /\ state[a] = NoIntent /\ filled[a] = 0
    BY DEF Init
  <2>3. /\ [f \in Trades |-> IF fills[f].intent = a THEN fills[f].gross + fills[f].fee ELSE 0]
             = [f \in Trades |-> 0]
        /\ [f \in Trades |-> IF fills[f].intent = a THEN fills[f].quantity ELSE 0]
             = [f \in Trades |-> 0]
    BY <2>2 DEF NoFill
  <2>4. QED
    BY <2>1, <2>2, <2>3 DEF Covered, FillQuantity, FillCost
<1>2. CoveredInv /\ [Next]_vars => CoveredInv'
  <2> SUFFICES ASSUME TypeOK, TypeOK', [Next]_vars, NEW a \in Approvals, Covered(a)
               PROVE  Covered(a)'
    BY NextType DEF CoveredInv
  <2>1. MoneyStep \/ ControlStep \/ LeaseStep \/ SettleStep \/ UNCHANGED vars
          => UNCHANGED <<intentVars, fills>>
    BY MoneyFrame, ControlFrame, LeaseFrame, SettleFrame DEF vars, positionVars
  <2>2. QED
    BY <2>1, CoveredSame, OrderCovered, FillCovered DEF Next
<1>3. QED
  BY <1>1, <1>2, PTL DEF Spec

\* An order never costs more than was reserved for it, whatever was filled,
\* repeated, cancelled or rejected, for every price, fee and rounding.
THEOREM OrdersAreCovered == Spec => []ReservationCoversFills
<1>1. CoveredInv => ReservationCoversFills
  BY DEF CoveredInv, Covered, ReservationCoversFills
<1>2. QED
  BY <1>1, CoveredHolds, PTL
-----------------------------------------------------------------------------
(* What is owned.                                                          *)

\* An order step opens no order but the one it prepares, and moves no shares.
LEMMA OrderOpens ==
  ASSUME TypeOK, TypeOK', OrderStep, NEW a \in Approvals, Active(a)'
  PROVE  \/ Active(a) /\ approval'[a] = approval[a]
         \/ \E p \in Plans, t \in Times : Prepare(a, p, t) /\ approval'[a] = p
<1>1. ASSUME NEW b \in Approvals, NEW t \in Times, NEW p \in Plans, ApproveSimulated(b, p, t)
      PROVE  Active(a) /\ approval'[a] = approval[a]
  <2>1. state' = state /\ approval[b] = NoPlan /\ approval' = [approval EXCEPT ![b] = p]
    BY <1>1 DEF ApproveSimulated
  <2>2. QED
    BY <2>1, AbsentAssumption DEF Active, TypeOK
<1>2. ASSUME NEW b \in Approvals, NEW t \in Times, NEW p \in Plans, Prepare(b, p, t)
      PROVE  \/ Active(a) /\ approval'[a] = approval[a]
             \/ Prepare(a, p, t) /\ approval'[a] = p
  <2>1. /\ approval' = approval /\ approval[b] = p
        /\ state' = [state EXCEPT ![b] = "PREPARED"]
    BY <1>2 DEF Prepare, ReserveIntent, ApprovalUsable
  <2>2. CASE a = b
    BY <1>2, <2>1, <2>2
  <2>3. CASE a # b
    BY <2>1, <2>3 DEF Active, TypeOK
  <2>4. QED
    BY <2>2, <2>3
<1>3. ASSUME NEW b \in Approvals, NEW t \in Times, NEW s \in OrderStates, NEW ex,
             Transition(b, s, t, ex)
      PROVE  Active(a) /\ approval'[a] = approval[a]
  <2>1. Active(b) /\ approval' = approval /\ state' = [state EXCEPT ![b] = s]
    BY <1>3, TransitionMoves
  <2>2. QED
    BY <2>1 DEF Active, TypeOK
<1>4. ASSUME NEW b \in Approvals, NEW t \in Times, NEW ex, TransitionHalts(b, t, ex)
      PROVE  Active(a) /\ approval'[a] = approval[a]
  BY <1>4 DEF TransitionHalts, intentVars, Active
<1>5. ASSUME NEW b \in Approvals, NEW t \in Times, NEW n, ConfirmCancel(b, n, t)
      PROVE  Active(a) /\ approval'[a] = approval[a]
  BY <1>5 DEF ConfirmCancel, Active, TypeOK, Terminal
<1>6. QED
  BY <1>1, <1>2, <1>3, <1>4, <1>5 DEF OrderStep

\* A fill keeps its order's plan, opens none, and moves the shares of its asset.
LEMMA FillShares ==
  ASSUME TypeOK, TypeOK', FillStep
  PROVE  \E b \in Approvals : \E q \in Nat :
           /\ Active(b) /\ PlanOf(b).asset \in Assets /\ approval' = approval
           /\ filled[b] + q <= PlanOf(b).quantity
           /\ filled' = [filled EXCEPT ![b] = filled[b] + q]
           /\ \A c \in Approvals \ {b} : state'[c] = state[c]
           /\ Active(b)' <=> filled[b] + q # PlanOf(b).quantity
           /\ IF IsBuy(b)
                THEN qty' = [qty EXCEPT ![PlanOf(b).asset] = qty[PlanOf(b).asset] + q]
                ELSE qty' = [qty EXCEPT ![PlanOf(b).asset] = qty[PlanOf(b).asset] - q]
<1>1. PICK f \in Trades, b \in Approvals, q \in 1 .. MaxQuantity, p \in 1 .. One,
           fee \in 0 .. MaxFee, t \in Times, ex \in OptionalExecutors,
           l \in Levels \cup {NoLevel} : ApplyFill(f, b, q, p, fee, t, ex, l)
  BY DEF FillStep
<1>2. /\ Active(b) /\ PlanOf(b) \in Plans /\ PlanOf(b).quantity \in Nat
      /\ q \in Nat /\ filled[b] \in Nat
      /\ filled[b] + q <= PlanOf(b).quantity
      /\ approval' = approval
      /\ state' = [state EXCEPT ![b] = IF filled[b] + q = PlanOf(b).quantity THEN "FILLED"
            ELSE IF state[b] = "CANCEL_PENDING" THEN "CANCEL_PENDING" ELSE "PARTIALLY_FILLED"]
      /\ filled' = [filled EXCEPT ![b] = filled[b] + q]
  BY <1>1, FillMoves
<1>3. PlanOf(b).asset \in Assets
  BY <1>2, PlansAssumption DEF PlanOK
<1>4. IF IsBuy(b)
        THEN qty' = [qty EXCEPT ![PlanOf(b).asset] = qty[PlanOf(b).asset] + q]
        ELSE qty' = [qty EXCEPT ![PlanOf(b).asset] = qty[PlanOf(b).asset] - q]
  BY <1>1 DEF ApplyFill, ApplyBuyFill, ApplySellFill
<1>5. /\ \A c \in Approvals \ {b} : state'[c] = state[c]
      /\ Active(b)' <=> filled[b] + q # PlanOf(b).quantity
  BY <1>2 DEF TypeOK, Active, Terminal, NoIntent
<1>6. QED
  BY <1>2, <1>3, <1>4, <1>5

SettledInv == TypeOK /\ SettledFinal

LEMMA SettledNext ==
  ASSUME TypeOK, TypeOK', SettledFinal, [Next]_vars, NEW x \in Assets,
         settledBy'[x] # NoSettlement
  PROVE  /\ qty'[x] = 0
         /\ \A a \in Approvals : Active(a)' => approval'[a].asset # x
<1>1. CASE UNCHANGED <<state, approval, qty, settledBy>>
  BY <1>1 DEF SettledFinal, Active, PlanOf
<1>2. CASE OrderStep
  <2>1. qty' = qty /\ settledBy' = settledBy
    BY <1>2, OrderFrame DEF positionVars
  <2>2. ASSUME NEW a \in Approvals, Active(a)'
        PROVE  approval'[a].asset # x
    <3>1. CASE Active(a) /\ approval'[a] = approval[a]
      BY <2>1, <3>1 DEF SettledFinal, PlanOf
    <3>2. CASE \E p \in Plans, t \in Times : Prepare(a, p, t) /\ approval'[a] = p
      BY <2>1, <3>2 DEF Prepare, ReserveIntent, Validate
    <3>3. QED
      BY <1>2, <2>2, <3>1, <3>2, OrderOpens
  <2>3. QED
    BY <2>1, <2>2 DEF SettledFinal
<1>3. CASE FillStep
  <2>1. settledBy' = settledBy
    BY <1>3, FillFrame
  <2>2. PICK b \in Approvals, q \in Nat :
          /\ Active(b) /\ PlanOf(b).asset \in Assets /\ approval' = approval
          /\ \A c \in Approvals \ {b} : state'[c] = state[c]
          /\ IF IsBuy(b)
               THEN qty' = [qty EXCEPT ![PlanOf(b).asset] = qty[PlanOf(b).asset] + q]
               ELSE qty' = [qty EXCEPT ![PlanOf(b).asset] = qty[PlanOf(b).asset] - q]
    BY <1>3, FillShares
  <2>3. PlanOf(b).asset # x
    BY <2>1, <2>2 DEF SettledFinal
  <2>4. qty'[x] = qty[x]
    BY <2>2, <2>3 DEF TypeOK
  <2>5. \A a \in Approvals : Active(a)' => Active(a)
    BY <2>2 DEF Active
  <2>6. QED
    BY <2>1, <2>2, <2>4, <2>5 DEF SettledFinal, PlanOf
<1>4. CASE SettleStep
  <2>1. PICK y \in Assets, payout \in 0 .. One, sid \in SettlementIds, t \in Times :
          Settle(y, payout, sid, t)
    BY <1>4 DEF SettleStep
  <2>2. /\ Reconciled(y, t) /\ state' = state /\ approval' = approval
        /\ qty' = [qty EXCEPT ![y] = 0]
        /\ settledBy' = [settledBy EXCEPT ![y] = sid]
    BY <2>1 DEF Settle, intentVars
  <2>3. CASE x = y
    BY <2>2, <2>3 DEF Reconciled, Active, PlanOf, TypeOK
  <2>4. CASE x # y
    BY <2>2, <2>4 DEF SettledFinal, Active, PlanOf, TypeOK
  <2>5. QED
    BY <2>3, <2>4
<1>5. MoneyStep \/ ControlStep \/ LeaseStep \/ UNCHANGED vars
        => UNCHANGED <<state, approval, qty, settledBy>>
  BY MoneyFrame, ControlFrame, LeaseFrame DEF vars, intentVars, positionVars
<1>6. QED
  BY <1>1, <1>2, <1>3, <1>4, <1>5 DEF Next

\* A settled asset is never bought, sold or settled again: no order that could
\* trade it is left open or can be opened.
THEOREM SettlementIsFinal == Spec => []SettledFinal
<1>1. Init => SettledInv
  BY InitType DEF Init, SettledInv, SettledFinal
<1>2. SettledInv /\ [Next]_vars => SettledInv'
  <2> SUFFICES ASSUME TypeOK, TypeOK', SettledFinal, [Next]_vars
               PROVE  SettledFinal'
    BY NextType DEF SettledInv
  <2>1. QED
    BY SettledNext DEF SettledFinal, PlanOf
<1>3. SettledInv => SettledFinal
  BY DEF SettledInv
<1>4. QED
  BY <1>1, <1>2, <1>3, PTL DEF Spec

\* What the open sell orders of an asset may still sell is a sum of naturals.
OpenSalesNat == \A a \in Approvals : \A x \in Assets : OpenSale(a, x) \in Nat

LEMMA OpenSaleNat == CoveredInv => OpenSalesNat
<1> SUFFICES ASSUME CoveredInv, NEW a \in Approvals, NEW x \in Assets
             PROVE  OpenSale(a, x) \in Nat
  BY DEF OpenSalesNat
<1>1. CASE Active(a)
  <2>1. state[a] # NoIntent
    BY <1>1 DEF Active
  <2>2. PlanOf(a) \in Plans /\ filled[a] \in Nat /\ filled[a] <= PlanOf(a).quantity
    BY <2>1 DEF CoveredInv, Covered, TypeOK, PlanOf
  <2>3. PlanOf(a).quantity \in Nat
    BY <2>2, PlansAssumption DEF PlanOK
  <2>4. QED
    BY <2>2, <2>3 DEF OpenSale
<1>2. CASE ~Active(a)
  BY <1>2 DEF OpenSale
<1>3. QED
  BY <1>1, <1>2

LEMMA CommittedChange ==
  ASSUME OpenSalesNat, OpenSalesNat', NEW x \in Assets, NEW b \in Approvals,
         \A c \in Approvals \ {b} : OpenSale(c, x)' = OpenSale(c, x)
  PROVE  /\ Committed(x) \in Nat
         /\ Committed(x)' = Committed(x) + OpenSale(b, x)' - OpenSale(b, x)
<1> DEFINE F == [a \in Approvals |-> OpenSale(a, x)]
           G == [a \in Approvals |-> OpenSale(a, x)']
<1>1. F \in [Approvals -> Nat] /\ G \in [Approvals -> Nat]
  BY DEF OpenSalesNat
<1>2. Committed(x) = Total(F) /\ Committed(x)' = Total(G)
  BY DEF Committed
<1>3. /\ \A c \in Approvals \ {b} : G[c] = F[c]
      /\ G[b] = OpenSale(b, x)' /\ F[b] = OpenSale(b, x)
  OBVIOUS
<1> HIDE DEF F, G
<1>4. QED
  BY <1>1, <1>2, <1>3, TotalUpdate, FiniteAssumption

\* An order step is of one order, and fills none.
LEMMA OrderOne ==
  ASSUME TypeOK, OrderStep
  PROVE  \E b \in Approvals :
           /\ filled' = filled
           /\ \A c \in Approvals \ {b} : state'[c] = state[c] /\ approval'[c] = approval[c]
           /\ state'[b] = state[b] \/ approval'[b] = approval[b]
<1>1. ASSUME NEW b \in Approvals, NEW t \in Times, NEW p \in Plans,
             ApproveSimulated(b, p, t) \/ Prepare(b, p, t)
      PROVE  /\ filled' = filled
             /\ \A c \in Approvals \ {b} : state'[c] = state[c] /\ approval'[c] = approval[c]
             /\ state'[b] = state[b] \/ approval'[b] = approval[b]
  BY <1>1 DEF ApproveSimulated, Prepare, ReserveIntent, TypeOK
<1>2. ASSUME NEW b \in Approvals, NEW t \in Times, NEW n,
             (\E ex \in OptionalExecutors, s \in OrderStates : Transition(b, s, t, ex))
               \/ ConfirmCancel(b, n, t)
      PROVE  /\ filled' = filled /\ approval' = approval
             /\ \A c \in Approvals \ {b} : state'[c] = state[c]
  BY <1>2 DEF Transition, ConfirmCancel, TypeOK
<1>3. ASSUME NEW b \in Approvals, NEW t \in Times, NEW ex, TransitionHalts(b, t, ex)
      PROVE  filled' = filled /\ approval' = approval /\ state' = state
  BY <1>3 DEF TransitionHalts, intentVars
<1>4. QED
  BY <1>1, <1>2, <1>3 DEF OrderStep

LEMMA OrderOwned ==
  ASSUME CoveredInv, CoveredInv', OpenSalesNat, OpenSalesNat', OrderStep, NeverOversold,
         NEW x \in Assets
  PROVE  Committed(x)' <= qty'[x]
<1>1. TypeOK /\ TypeOK'
  BY DEF CoveredInv
<1>2. PICK b \in Approvals :
        /\ filled' = filled
        /\ \A c \in Approvals \ {b} : state'[c] = state[c] /\ approval'[c] = approval[c]
  BY <1>1, OrderOne
<1>3. \A c \in Approvals \ {b} : OpenSale(c, x)' = OpenSale(c, x)
  BY <1>2 DEF OpenSale, Active, IsBuy, PlanOf
<1>4. /\ Committed(x) \in Nat
      /\ Committed(x)' = Committed(x) + OpenSale(b, x)' - OpenSale(b, x)
  BY <1>3, CommittedChange
<1>5. qty' = qty /\ qty[x] \in Nat /\ Committed(x) <= qty[x]
  BY <1>1, OrderFrame DEF positionVars, TypeOK, NeverOversold
<1>6. OpenSale(b, x)' \in Nat /\ OpenSale(b, x) \in Nat
  BY DEF OpenSalesNat
<1>7. CASE ~Active(b)'
  <2>1. OpenSale(b, x)' = 0
    BY <1>7 DEF OpenSale
  <2>2. QED
    BY <1>4, <1>5, <1>6, <2>1
<1>8. CASE Active(b) /\ Active(b)' /\ approval'[b] = approval[b]
  <2>1. OpenSale(b, x)' = OpenSale(b, x)
    BY <1>2, <1>8 DEF OpenSale, IsBuy, PlanOf
  <2>2. QED
    BY <1>4, <1>5, <1>6, <2>1
<1>9. ASSUME NEW p \in Plans, NEW t \in Times, Prepare(b, p, t), approval'[b] = p, Active(b)'
      PROVE  Committed(x)' <= qty'[x]
  <2>1. state[b] = NoIntent /\ filled[b] = 0
    BY <1>9 DEF Prepare, ReserveIntent, CoveredInv, Covered, Unfilled
  <2>2. OpenSale(b, x) = 0
    BY <2>1 DEF OpenSale, Active
  <2>3. p.quantity \in Nat /\ p.side \in Sides
    BY PlansAssumption DEF PlanOK
  <2>4. OpenSale(b, x)' = IF p.asset = x /\ p.side # "BUY" THEN p.quantity ELSE 0
    BY <1>2, <1>9, <2>1, <2>3 DEF OpenSale, IsBuy, PlanOf
  <2>5. p.side # "BUY" => p.quantity <= qty[p.asset] - Committed(p.asset)
    BY <1>9, <2>3 DEF Prepare, ReserveIntent, Validate, ValidateSell
  <2>6. QED
    BY <1>4, <1>5, <2>2, <2>3, <2>4, <2>5
<1>10. QED
  BY <1>1, <1>7, <1>8, <1>9, OrderOpens

LEMMA FillOwned ==
  ASSUME CoveredInv, CoveredInv', OpenSalesNat, OpenSalesNat', FillStep, NeverOversold,
         NEW x \in Assets
  PROVE  Committed(x)' <= qty'[x]
<1>1. TypeOK /\ TypeOK'
  BY DEF CoveredInv
<1>2. PICK b \in Approvals, q \in Nat :
        /\ Active(b) /\ PlanOf(b).asset \in Assets /\ approval' = approval
        /\ filled[b] + q <= PlanOf(b).quantity
        /\ filled' = [filled EXCEPT ![b] = filled[b] + q]
        /\ \A c \in Approvals \ {b} : state'[c] = state[c]
        /\ Active(b)' <=> filled[b] + q # PlanOf(b).quantity
        /\ IF IsBuy(b)
             THEN qty' = [qty EXCEPT ![PlanOf(b).asset] = qty[PlanOf(b).asset] + q]
             ELSE qty' = [qty EXCEPT ![PlanOf(b).asset] = qty[PlanOf(b).asset] - q]
  BY <1>1, FillShares
<1>3. \A c \in Approvals \ {b} : filled'[c] = filled[c]
  BY <1>1, <1>2 DEF TypeOK
<1>4. \A c \in Approvals \ {b} : OpenSale(c, x)' = OpenSale(c, x)
  BY <1>2, <1>3 DEF OpenSale, Active, IsBuy, PlanOf
<1>5. /\ Committed(x) \in Nat
      /\ Committed(x)' = Committed(x) + OpenSale(b, x)' - OpenSale(b, x)
  BY <1>4, CommittedChange
<1>6. qty[x] \in Nat /\ Committed(x) <= qty[x]
  BY <1>1 DEF TypeOK, NeverOversold
<1>7. filled[b] \in Nat /\ PlanOf(b).quantity \in Nat /\ filled'[b] = filled[b] + q
  <2>1. state[b] # NoIntent
    BY <1>2 DEF Active
  <2>2. PlanOf(b) \in Plans
    BY <1>1, <2>1 DEF TypeOK, PlanOf
  <2>3. QED
    BY <1>1, <1>2, <2>2, PlansAssumption DEF TypeOK, PlanOK
<1>8. CASE PlanOf(b).asset = x /\ ~IsBuy(b)
  <2>1. OpenSale(b, x) = PlanOf(b).quantity - filled[b]
    BY <1>2, <1>8 DEF OpenSale
  <2>2. OpenSale(b, x)' = PlanOf(b).quantity - filled[b] - q
    <3>1. CASE Active(b)'
      BY <1>2, <1>7, <1>8, <3>1 DEF OpenSale, IsBuy, PlanOf
    <3>2. CASE ~Active(b)'
      BY <1>2, <1>7, <3>2 DEF OpenSale
    <3>3. QED
      BY <3>1, <3>2
  <2>3. qty'[x] = qty[x] - q
    BY <1>1, <1>2, <1>8 DEF TypeOK
  <2>4. QED
    BY <1>5, <1>6, <1>7, <2>1, <2>2, <2>3
<1>9. CASE PlanOf(b).asset # x \/ IsBuy(b)
  <2>1. OpenSale(b, x) = 0 /\ OpenSale(b, x)' = 0
    BY <1>2, <1>9 DEF OpenSale, IsBuy, PlanOf
  <2>2. qty'[x] >= qty[x]
    <3>1. qty \in [Assets -> Nat]
      BY <1>1 DEF TypeOK
    <3>2. CASE PlanOf(b).asset # x
      BY <1>2, <1>6, <3>1, <3>2
    <3>3. CASE PlanOf(b).asset = x /\ IsBuy(b)
      BY <1>2, <1>6, <3>1, <3>3
    <3>4. QED
      BY <1>9, <3>2, <3>3
  <2>3. QED
    BY <1>1, <1>5, <1>6, <2>1, <2>2 DEF TypeOK
<1>10. QED
  BY <1>8, <1>9

LEMMA SettleOwned ==
  ASSUME TypeOK, TypeOK', SettleStep, NeverOversold, NEW x \in Assets
  PROVE  Committed(x)' <= qty'[x]
<1>1. PICK y \in Assets, payout \in 0 .. One, sid \in SettlementIds, t \in Times :
        Settle(y, payout, sid, t)
  BY DEF SettleStep
<1>2. /\ Reconciled(y, t) /\ UNCHANGED intentVars
      /\ qty' = [qty EXCEPT ![y] = 0]
  BY <1>1 DEF Settle
<1>3. \A a \in Approvals : OpenSale(a, x)' = OpenSale(a, x)
  BY <1>2 DEF OpenSale, Active, IsBuy, PlanOf, intentVars
<1>4. Committed(x)' = Committed(x)
  BY <1>3 DEF Committed
<1>5. CASE x = y
  <2>1. \A a \in Approvals : OpenSale(a, x) = 0
    BY <1>2, <1>5 DEF Reconciled, OpenSale, Active
  <2>2. [a \in Approvals |-> OpenSale(a, x)] = [a \in Approvals |-> 0]
    BY <2>1
  <2>3. Committed(x) = 0
    BY <2>2, TotalZero, FiniteAssumption DEF Committed
  <2>4. QED
    BY <1>2, <1>4, <1>5, <2>3 DEF TypeOK
<1>6. CASE x # y
  BY <1>2, <1>4, <1>6 DEF NeverOversold, TypeOK
<1>7. QED
  BY <1>5, <1>6

\* The open sell orders of an asset never add up to more than is owned of it,
\* whatever is bought, sold, cancelled or settled between them.
THEOREM OwnedIsEnough == Spec => []NeverOversold
<1>1. Init => NeverOversold
  <2> SUFFICES ASSUME Init, NEW x \in Assets
               PROVE  Committed(x) <= qty[x]
    BY DEF NeverOversold
  <2>1. \A a \in Approvals : OpenSale(a, x) = 0
    BY DEF Init, OpenSale, Active
  <2>2. [a \in Approvals |-> OpenSale(a, x)] = [a \in Approvals |-> 0]
    BY <2>1
  <2>3. Committed(x) = 0 /\ qty[x] = 0
    BY <2>2, TotalZero, FiniteAssumption DEF Committed, Init
  <2>4. QED
    BY <2>3
<1>2. CoveredInv /\ CoveredInv' /\ OpenSalesNat /\ OpenSalesNat' /\ NeverOversold /\ [Next]_vars
        => NeverOversold'
  <2> SUFFICES ASSUME CoveredInv, CoveredInv', OpenSalesNat, OpenSalesNat', NeverOversold,
                      [Next]_vars
               PROVE  NeverOversold'
    OBVIOUS
  <2> SUFFICES ASSUME NEW x \in Assets
               PROVE  Committed(x)' <= qty'[x]
    BY DEF NeverOversold
  <2>1. CASE UNCHANGED <<intentVars, qty>>
    <3>1. Committed(x)' = Committed(x)
      BY <2>1 DEF Committed, OpenSale, Active, IsBuy, PlanOf, intentVars
    <3>2. QED
      BY <2>1, <3>1 DEF NeverOversold
  <2>2. MoneyStep \/ ControlStep \/ LeaseStep \/ UNCHANGED vars => UNCHANGED <<intentVars, qty>>
    BY MoneyFrame, ControlFrame, LeaseFrame DEF vars, positionVars
  <2>3. TypeOK /\ TypeOK'
    BY DEF CoveredInv
  <2>4. QED
    BY <2>1, <2>2, <2>3, OrderOwned, FillOwned, SettleOwned DEF Next
<1>3. QED
  BY <1>1, <1>2, CoveredHolds, OpenSaleNat, PTL DEF Spec
-----------------------------------------------------------------------------
(* Where the money is.                                                     *)

\* The accounts that the tables explain, and what is in hand: cash, stock and
\* reservations.
Explained == {"contributed_capital", "operating_cost", "fees", "realized_income"}
InHand(b) == b["cash"] + b["inventory_cost"] + b["reserved"]
FeeOf == [f \in Trades |-> fills[f].fee]

\* MoneyExplained, with the income that neither fees nor costs explain.
MoneyInv ==
  /\ TypeOK
  /\ Total(deposited) \in Nat /\ Total(expensed) \in Nat /\ Total(FeeOf) \in Nat
  /\ bal["contributed_capital"] = -Total(deposited)
  /\ bal["operating_cost"] = Total(expensed)
  /\ bal["fees"] = Total(FeeOf)
  /\ InHand(bal) = -bal["contributed_capital"] - bal["realized_income"] - bal["fees"]
                     - bal["operating_cost"]

LEMMA MoneyFollows == MoneyInv => MoneyExplained
<1> SUFFICES ASSUME MoneyInv PROVE MoneyExplained
  OBVIOUS
<1>1. \A k \in Accounts : bal[k] \in Int
  BY DEF MoneyInv, TypeOK
<1>2. QED
  BY <1>1 DEF MoneyInv, MoneyExplained, InHand, Exposure, Pnl, BusinessPnl, FeeOf, Accounts

\* A step that only moves money in hand explains the rest as before.
LEMMA MoneyMoved ==
  ASSUME MoneyInv, TypeOK', UNCHANGED <<deposited, expensed, fills>>,
         \A k \in Explained : bal'[k] = bal[k], InHand(bal') = InHand(bal)
  PROVE  MoneyInv'
<1>1. Total(FeeOf)' = Total(FeeOf)
  BY DEF FeeOf
<1>2. QED
  BY <1>1 DEF MoneyInv, Explained

LEMMA MoneyInMoneyStep ==
  ASSUME MoneyInv, TypeOK', MoneyStep
  PROVE  MoneyInv'
<1>1. \A k \in Accounts : bal[k] \in Int
  BY DEF MoneyInv, TypeOK
<1>2. ASSUME NEW k \in DepositKeys, NEW n \in Amounts, Deposit(k, n)
      PROVE  MoneyInv'
  <2>1. n \in Nat
    BY InputsAssumption
  <2>2. /\ deposited[k] = 0 /\ deposited' = [deposited EXCEPT ![k] = n]
        /\ Post([cash |-> n, contributed_capital |-> -n])
        /\ expensed' = expensed /\ fills' = fills
    BY <1>2 DEF Deposit, positionVars
  <2>3. Total(deposited') = Total(deposited) + n /\ Total(deposited) \in Nat
    <3>1. deposited \in [DepositKeys -> Nat] /\ deposited' \in [DepositKeys -> Nat]
      BY DEF MoneyInv, TypeOK
    <3>2. /\ \A j \in DepositKeys \ {k} : deposited'[j] = deposited[j]
          /\ deposited[k] = 0 /\ deposited'[k] = n
      BY <2>2, <3>1
    <3>3. Total(deposited') = Total(deposited) + deposited'[k] - deposited[k] /\ Total(deposited) \in Nat
      BY <3>1, <3>2, TotalUpdate, FiniteAssumption
    <3>4. QED
      BY <2>1, <3>2, <3>3
  <2>4. /\ bal'["cash"] = bal["cash"] + n
        /\ bal'["contributed_capital"] = bal["contributed_capital"] - n
        /\ \A j \in Accounts \ {"cash", "contributed_capital"} : bal'[j] = bal[j]
    BY <1>1, <2>1, <2>2 DEF Post, Accounts
  <2>5. QED
    BY <1>1, <2>1, <2>2, <2>3, <2>4 DEF MoneyInv, InHand, FeeOf, Accounts
<1>3. ASSUME NEW k \in ExpenseKeys, NEW n \in Amounts, RecordOperatingCost(k, n)
      PROVE  MoneyInv'
  <2>1. n \in Nat
    BY InputsAssumption
  <2>2. /\ expensed[k] = 0 /\ expensed' = [expensed EXCEPT ![k] = n]
        /\ Post([cash |-> -n, operating_cost |-> n])
        /\ deposited' = deposited /\ fills' = fills
    BY <1>3 DEF RecordOperatingCost, positionVars
  <2>3. Total(expensed') = Total(expensed) + n /\ Total(expensed) \in Nat
    <3>1. expensed \in [ExpenseKeys -> Nat] /\ expensed' \in [ExpenseKeys -> Nat]
      BY DEF MoneyInv, TypeOK
    <3>2. /\ \A j \in ExpenseKeys \ {k} : expensed'[j] = expensed[j]
          /\ expensed[k] = 0 /\ expensed'[k] = n
      BY <2>2, <3>1
    <3>3. Total(expensed') = Total(expensed) + expensed'[k] - expensed[k] /\ Total(expensed) \in Nat
      BY <3>1, <3>2, TotalUpdate, FiniteAssumption
    <3>4. QED
      BY <2>1, <3>2, <3>3
  <2>4. /\ bal'["cash"] = bal["cash"] - n
        /\ bal'["operating_cost"] = bal["operating_cost"] + n
        /\ \A j \in Accounts \ {"cash", "operating_cost"} : bal'[j] = bal[j]
    BY <1>1, <2>1, <2>2 DEF Post, Accounts
  <2>5. QED
    BY <1>1, <2>1, <2>2, <2>3, <2>4 DEF MoneyInv, InHand, FeeOf, Accounts
<1>4. QED
  BY <1>2, <1>3 DEF MoneyStep

\* A reservation is taken from the cash and goes back to it.
LEMMA MoneyInOrderStep ==
  ASSUME MoneyInv, TypeOK', OrderStep
  PROVE  MoneyInv'
<1>1. TypeOK /\ \A k \in Accounts : bal[k] \in Int
  BY DEF MoneyInv, TypeOK
<1>2. UNCHANGED <<deposited, expensed>>
  BY DEF OrderStep, ApproveSimulated, Prepare, ReserveIntent, Transition, TransitionHalts,
     ConfirmCancel, ledgerVars
<1>3. fills' = fills
  BY OrderFrame DEF positionVars
<1>4. ASSUME NEW a \in Approvals, Release(a)
      PROVE  (\A k \in Explained : bal'[k] = bal[k]) /\ InHand(bal') = InHand(bal)
  <2>1. reserved[a] \in Nat
    BY <1>1 DEF TypeOK
  <2>2. CASE bal' = bal
    BY <1>1, <2>2 DEF Explained, InHand
  <2>3. CASE Post([reserved |-> -reserved[a], cash |-> reserved[a]])
    BY <1>1, <2>1, <2>3 DEF Post, Explained, InHand, Accounts
  <2>4. QED
    BY <1>4, <2>2, <2>3 DEF Release
<1>5. ASSUME NEW a \in Approvals, NEW p \in Plans, NEW t \in Times, Prepare(a, p, t)
      PROVE  (\A k \in Explained : bal'[k] = bal[k]) /\ InHand(bal') = InHand(bal)
  <2>1. PICK r \in Nat :
          /\ bal'["cash"] = bal["cash"] - r
          /\ bal'["reserved"] = bal["reserved"] + r
          /\ \A k \in Accounts \ {"cash", "reserved"} : bal'[k] = bal[k]
    BY <1>1, <1>5, PrepareEffect
  <2>2. QED
    BY <1>1, <2>1 DEF Explained, InHand, Accounts
<1>6. \/ bal' = bal
      \/ \E a \in Approvals : Release(a)
      \/ \E a \in Approvals, p \in Plans, t \in Times : Prepare(a, p, t)
  BY DEF OrderStep, ApproveSimulated, Transition, TransitionHalts, ConfirmCancel, ledgerVars
<1>7. (\A k \in Explained : bal'[k] = bal[k]) /\ InHand(bal') = InHand(bal)
  BY <1>4, <1>5, <1>6
<1>8. QED
  BY <1>2, <1>3, <1>7, MoneyMoved

LEMMA MoneyInFillStep ==
  ASSUME MoneyInv, TypeOK', FillStep
  PROVE  MoneyInv'
<1>1. TypeOK /\ \A k \in Accounts : bal[k] \in Int
  BY DEF MoneyInv, TypeOK
<1>2. PICK f \in Trades, b \in Approvals, q \in 1 .. MaxQuantity, p \in 1 .. One,
           fee \in 0 .. MaxFee, t \in Times, ex \in OptionalExecutors,
           l \in Levels \cup {NoLevel} : ApplyFill(f, b, q, p, fee, t, ex, l)
  BY DEF FillStep
<1>3. fee \in Nat /\ fills[f] = NoFill
  BY <1>1, <1>2, FillMoves, InputsAssumption
<1>4. deposited' = deposited /\ expensed' = expensed
  BY <1>2 DEF ApplyFill, ApplyBuyFill, ApplySellFill
<1>5. /\ bal'["fees"] = bal["fees"] + fee
      /\ \A k \in {"operating_cost", "contributed_capital"} : bal'[k] = bal[k]
      /\ bal'["realized_income"] \in Int
      /\ InHand(bal') = InHand(bal) - fee - (bal'["realized_income"] - bal["realized_income"])
  <2>1. CASE ApplyBuyFill(f, b, q, p, fee, t, ex, l)
    <3>1. PICK gross \in Nat, back \in Nat :
            /\ bal'["cash"] = bal["cash"] + back
            /\ bal'["reserved"] = bal["reserved"] - gross - fee - back
            /\ bal'["inventory_cost"] = bal["inventory_cost"] + gross
            /\ bal'["fees"] = bal["fees"] + fee
            /\ \A k \in {"realized_income", "operating_cost", "contributed_capital"} :
                 bal'[k] = bal[k]
      BY <1>1, <2>1, BuyFillEffect
    <3>2. QED
      BY <1>1, <1>3, <3>1 DEF InHand, Accounts
  <2>2. CASE ApplySellFill(f, b, q, p, fee, t, ex, l)
    <3>1. PICK gross \in Nat, cost \in Nat :
            /\ bal'["cash"] = bal["cash"] + gross - fee
            /\ bal'["reserved"] = bal["reserved"]
            /\ bal'["inventory_cost"] = bal["inventory_cost"] - cost
            /\ bal'["fees"] = bal["fees"] + fee
            /\ bal'["realized_income"] = bal["realized_income"] + cost - gross
            /\ \A k \in {"operating_cost", "contributed_capital"} : bal'[k] = bal[k]
      BY <1>1, <2>2, SellFillEffect
    <3>2. QED
      BY <1>1, <1>3, <3>1 DEF InHand, Accounts
  <2>3. QED
    BY <1>2, <2>1, <2>2 DEF ApplyFill
<1>6. /\ \A g \in Trades \ {f} : fills'[g] = fills[g]
      /\ fills'[f].fee = fee
  BY <1>1, <1>2 DEF ApplyFill, ApplyBuyFill, ApplySellFill, RecordFill, TypeOK
<1>7. Total(FeeOf)' = Total(FeeOf) + fee /\ Total(FeeOf) \in Nat
  <2> DEFINE F == [g \in Trades |-> fills[g].fee]
             G == [g \in Trades |-> fills'[g].fee]
  <2>1. \A g \in Trades : fills[g].fee \in Nat /\ fills'[g].fee \in Nat
    BY <1>1 DEF TypeOK, FillRecords, NoFill
  <2>2. F \in [Trades -> Nat] /\ G \in [Trades -> Nat]
    BY <2>1
  <2>3. /\ \A g \in Trades \ {f} : G[g] = F[g]
        /\ F[f] = 0 /\ G[f] = fee
    BY <1>3, <1>6 DEF NoFill
  <2>4. Total(FeeOf) = Total(F) /\ Total(FeeOf)' = Total(G)
    BY DEF FeeOf
  <2> HIDE DEF F, G
  <2>5. Total(G) = Total(F) + G[f] - F[f] /\ Total(F) \in Nat
    BY <2>2, <2>3, TotalUpdate, FiniteAssumption
  <2>6. QED
    BY <1>3, <2>3, <2>4, <2>5
<1>8. QED
  BY <1>1, <1>3, <1>4, <1>5, <1>7 DEF MoneyInv, Accounts

LEMMA MoneyInSettleStep ==
  ASSUME MoneyInv, TypeOK', SettleStep
  PROVE  MoneyInv'
<1>1. TypeOK /\ \A k \in Accounts : bal[k] \in Int
  BY DEF MoneyInv, TypeOK
<1>2. PICK x \in Assets, payout \in 0 .. One, sid \in SettlementIds, t \in Times :
        Settle(x, payout, sid, t)
  BY DEF SettleStep
<1>3. UNCHANGED <<deposited, expensed, fills>>
  BY <1>2 DEF Settle
<1>4. PICK credit \in Nat :
        /\ bal'["cash"] = bal["cash"] + credit
        /\ bal'["reserved"] = bal["reserved"]
        /\ bal'["inventory_cost"] = bal["inventory_cost"] - basis[x]
        /\ bal'["realized_income"] = bal["realized_income"] + basis[x] - credit
        /\ \A k \in {"fees", "operating_cost", "contributed_capital"} : bal'[k] = bal[k]
  BY <1>1, <1>2, SettleEffect
<1>5. basis[x] \in Nat
  BY <1>1 DEF TypeOK
<1>6. InHand(bal') = InHand(bal) - (bal'["realized_income"] - bal["realized_income"])
  BY <1>1, <1>4, <1>5 DEF InHand, Accounts
<1>7. /\ Total(deposited') = Total(deposited) /\ Total(expensed') = Total(expensed)
      /\ Total(FeeOf)' = Total(FeeOf)
  BY <1>3 DEF FeeOf
<1>8. bal'["realized_income"] \in Int
  BY <1>1, <1>4, <1>5 DEF Accounts
<1>9. QED
  BY <1>1, <1>4, <1>6, <1>7, <1>8 DEF MoneyInv, Accounts

\* Money is moved and never made: what is in hand is what was deposited plus
\* every result, and each account is the sum of the rows that posted to it.
THEOREM MoneyIsExplained == Spec => []MoneyExplained
<1>1. Init => MoneyInv
  <2> SUFFICES ASSUME Init PROVE MoneyInv
    OBVIOUS
  <2>1. /\ Total([k \in DepositKeys |-> 0]) = 0
        /\ Total([k \in ExpenseKeys |-> 0]) = 0
        /\ Total([f \in Trades |-> 0]) = 0
    BY TotalZero, FiniteAssumption
  <2>2. FeeOf = [f \in Trades |-> 0]
    BY DEF Init, FeeOf, NoFill
  <2>3. \A k \in Accounts : bal[k] = 0
    BY DEF Init
  <2>4. Total(deposited) = 0 /\ Total(expensed) = 0 /\ Total(FeeOf) = 0
    BY <2>1, <2>2 DEF Init
  <2>5. QED
    BY <2>3, <2>4, InitType DEF MoneyInv, InHand, Accounts
<1>2. MoneyInv /\ [Next]_vars => MoneyInv'
  <2> SUFFICES ASSUME MoneyInv, TypeOK', [Next]_vars PROVE MoneyInv'
    BY NextType DEF MoneyInv
  <2>1. CASE ControlStep \/ LeaseStep \/ UNCHANGED vars
    <3>1. UNCHANGED <<bal, deposited, expensed, fills>>
      <4>1. ControlStep => UNCHANGED <<bal, deposited, expensed>>
        BY DEF ControlStep, Halt, RenewControlLease, ProposeCommand, ConsumeControlCommand, ledgerVars
      <4>2. LeaseStep => UNCHANGED <<bal, deposited, expensed>>
        BY DEF LeaseStep, AcquireExecutor, ReleaseExecutor, ledgerVars
      <4>3. QED
        BY <2>1, <4>1, <4>2, ControlFrame, LeaseFrame DEF vars, ledgerVars, positionVars
    <3>2. QED
      BY <3>1, MoneyMoved
  <2>2. QED
    BY <2>1, MoneyInMoneyStep, MoneyInOrderStep, MoneyInFillStep, MoneyInSettleStep DEF Next
<1>3. QED
  BY <1>1, <1>2, MoneyFollows, PTL DEF Spec
-----------------------------------------------------------------------------
(* The envelope.  ExposureBounded is not inductive: a position that had    *)
(* cost without a cluster would enter one with its first fill, and a       *)
(* reservation of an intent that does not exist yet would enter with it.   *)
(* Clustered and the books exclude both.                                   *)

BasisIn(x, c) == IF cluster[x] = c THEN basis[x] ELSE 0
ReservedIn(a, c) == IF state[a] # NoIntent /\ PlanOf(a).cluster = c THEN reserved[a] ELSE 0

Clustered == \A x \in Assets : cluster[x] = NoCluster => basis[x] = 0
WithinCluster(c) == ClusterExposure(c) <= Limits.cluster
EnvelopeInv == BooksInv /\ Clustered /\ ExposureBounded

LEMMA LimitsNat == Limits.capital \in Nat /\ Limits.total \in Nat /\ Limits.cluster \in Nat
BY LimitsAssumption DEF LimitsOK

LEMMA ClusterNat ==
  ASSUME TypeOK, NEW c
  PROVE  ClusterBasis(c) \in Nat /\ ClusterReserved(c) \in Nat
<1> DEFINE F == [x \in Assets |-> IF cluster[x] = c THEN basis[x] ELSE 0]
           G == [a \in Approvals |->
                   IF state[a] # NoIntent /\ PlanOf(a).cluster = c THEN reserved[a] ELSE 0]
<1>1. F \in [Assets -> Nat] /\ G \in [Approvals -> Nat]
  BY DEF TypeOK
<1>2. ClusterBasis(c) = Total(F) /\ ClusterReserved(c) = Total(G)
  BY DEF ClusterBasis, ClusterReserved
<1> HIDE DEF F, G
<1>3. QED
  BY <1>1, <1>2, TotalTyped, FiniteAssumption

LEMMA BasisInChange ==
  ASSUME TypeOK, TypeOK', NEW c, NEW x \in Assets,
         \A y \in Assets \ {x} : BasisIn(y, c)' = BasisIn(y, c)
  PROVE  /\ ClusterBasis(c) \in Nat /\ BasisIn(x, c) \in Nat /\ BasisIn(x, c)' \in Nat
         /\ ClusterBasis(c)' = ClusterBasis(c) + BasisIn(x, c)' - BasisIn(x, c)
<1> DEFINE F == [y \in Assets |-> BasisIn(y, c)]
           G == [y \in Assets |-> BasisIn(y, c)']
<1>1. \A y \in Assets : BasisIn(y, c) \in Nat /\ BasisIn(y, c)' \in Nat
  BY DEF TypeOK, BasisIn
<1>2. F \in [Assets -> Nat] /\ G \in [Assets -> Nat]
  BY <1>1
<1>3. ClusterBasis(c) = Total(F) /\ ClusterBasis(c)' = Total(G)
  BY DEF ClusterBasis, BasisIn
<1>4. /\ \A y \in Assets \ {x} : G[y] = F[y]
      /\ G[x] = BasisIn(x, c)' /\ F[x] = BasisIn(x, c)
  OBVIOUS
<1> HIDE DEF F, G
<1>5. Total(G) = Total(F) + G[x] - F[x] /\ Total(F) \in Nat
  BY <1>2, <1>4, TotalUpdate, FiniteAssumption
<1>6. QED
  BY <1>1, <1>3, <1>4, <1>5

LEMMA ReservedInChange ==
  ASSUME TypeOK, TypeOK', NEW c, NEW b \in Approvals,
         \A a \in Approvals \ {b} : ReservedIn(a, c)' = ReservedIn(a, c)
  PROVE  /\ ClusterReserved(c) \in Nat /\ ReservedIn(b, c) \in Nat /\ ReservedIn(b, c)' \in Nat
         /\ ClusterReserved(c)' = ClusterReserved(c) + ReservedIn(b, c)' - ReservedIn(b, c)
<1> DEFINE F == [a \in Approvals |-> ReservedIn(a, c)]
           G == [a \in Approvals |-> ReservedIn(a, c)']
<1>1. \A a \in Approvals : ReservedIn(a, c) \in Nat /\ ReservedIn(a, c)' \in Nat
  BY DEF TypeOK, ReservedIn
<1>2. F \in [Approvals -> Nat] /\ G \in [Approvals -> Nat]
  BY <1>1
<1>3. ClusterReserved(c) = Total(F) /\ ClusterReserved(c)' = Total(G)
  BY DEF ClusterReserved, ReservedIn
<1>4. /\ \A a \in Approvals \ {b} : G[a] = F[a]
      /\ G[b] = ReservedIn(b, c)' /\ F[b] = ReservedIn(b, c)
  OBVIOUS
<1> HIDE DEF F, G
<1>5. Total(G) = Total(F) + G[b] - F[b] /\ Total(F) \in Nat
  BY <1>2, <1>4, TotalUpdate, FiniteAssumption
<1>6. QED
  BY <1>1, <1>3, <1>4, <1>5

\* An order step that reserves nothing new leaves no order more reserved.
OnlyOrder(b) ==
  \A a \in Approvals \ {b} :
    state'[a] = state[a] /\ approval'[a] = approval[a] /\ reserved'[a] = reserved[a]

Eases(b) ==
  \/ state[b] = NoIntent /\ state'[b] = NoIntent
  \/ state[b] # NoIntent /\ approval'[b] = approval[b] /\ reserved'[b] <= reserved[b]

LEMMA OrderReserves ==
  ASSUME TypeOK, TypeOK', OrderStep
  PROVE  \E b \in Approvals :
           /\ OnlyOrder(b)
           /\ \/ Eases(b)
              \/ \E p \in Plans, t \in Times : Prepare(b, p, t)
<1>1. ASSUME NEW b \in Approvals, NEW t \in Times, NEW p \in Plans, ApproveSimulated(b, p, t)
      PROVE  OnlyOrder(b) /\ Eases(b)
  <2>1. /\ approval[b] = NoPlan /\ approval' = [approval EXCEPT ![b] = p]
        /\ state' = state /\ reserved' = reserved
    BY <1>1 DEF ApproveSimulated
  <2>2. state[b] = NoIntent
    BY <2>1, AbsentAssumption DEF TypeOK
  <2>3. QED
    BY <2>1, <2>2 DEF OnlyOrder, Eases, TypeOK
<1>2. ASSUME NEW b \in Approvals, NEW t \in Times, NEW p \in Plans, Prepare(b, p, t)
      PROVE  OnlyOrder(b)
  <2>1. PICK r \in Nat : reserved' = [reserved EXCEPT ![b] = r]
    BY <1>2, PrepareEffect
  <2>2. approval' = approval /\ state' = [state EXCEPT ![b] = "PREPARED"]
    BY <1>2 DEF Prepare, ReserveIntent
  <2>3. QED
    BY <2>1, <2>2 DEF OnlyOrder, TypeOK
<1>3. ASSUME NEW b \in Approvals, Active(b), approval' = approval,
             NEW s, state' = [state EXCEPT ![b] = s],
             reserved' = reserved \/ reserved' = [reserved EXCEPT ![b] = 0]
      PROVE  OnlyOrder(b) /\ Eases(b)
  <2>1. state[b] # NoIntent /\ reserved[b] \in Nat
    BY <1>3 DEF Active, TypeOK
  <2>2. /\ \A a \in Approvals \ {b} : state'[a] = state[a] /\ reserved'[a] = reserved[a]
        /\ reserved'[b] \in {0, reserved[b]}
    BY <1>3 DEF TypeOK
  <2>3. QED
    BY <1>3, <2>1, <2>2 DEF OnlyOrder, Eases
<1>4. ASSUME NEW b \in Approvals, NEW t \in Times, NEW s \in OrderStates, NEW ex,
             Transition(b, s, t, ex)
      PROVE  OnlyOrder(b) /\ Eases(b)
  BY <1>3, <1>4, TransitionMoves
<1>5. ASSUME NEW b \in Approvals, NEW t \in Times, NEW ex, TransitionHalts(b, t, ex)
      PROVE  OnlyOrder(b) /\ Eases(b)
  BY <1>5 DEF TransitionHalts, intentVars, OnlyOrder, Eases, TypeOK
<1>6. ASSUME NEW b \in Approvals, NEW t \in Times, NEW n, ConfirmCancel(b, n, t)
      PROVE  OnlyOrder(b) /\ Eases(b)
  <2>1. /\ Active(b) /\ approval' = approval /\ Release(b)
        /\ state' = [state EXCEPT ![b] = "CANCELLED"]
    BY <1>6 DEF ConfirmCancel, Active, Terminal, NoIntent
  <2>2. reserved' = [reserved EXCEPT ![b] = 0]
    BY <2>1, ReleaseEffect
  <2>3. QED
    BY <1>3, <2>1, <2>2
<1>7. QED
  BY <1>1, <1>2, <1>4, <1>5, <1>6 DEF OrderStep

LEMMA EasedIn ==
  ASSUME TypeOK, TypeOK', NEW b \in Approvals, OnlyOrder(b), Eases(b), NEW c
  PROVE  /\ ClusterReserved(c)' <= ClusterReserved(c)
         /\ ClusterReserved(c) \in Nat /\ ClusterReserved(c)' \in Int
<1>1. \A a \in Approvals \ {b} : ReservedIn(a, c)' = ReservedIn(a, c)
  BY DEF OnlyOrder, ReservedIn, PlanOf
<1>2. reserved[b] \in Nat /\ reserved'[b] \in Nat
  BY DEF TypeOK
<1>3. ReservedIn(b, c)' <= ReservedIn(b, c)
  BY <1>2 DEF Eases, ReservedIn, PlanOf
<1>4. /\ ClusterReserved(c) \in Nat /\ ReservedIn(b, c) \in Nat /\ ReservedIn(b, c)' \in Nat
      /\ ClusterReserved(c)' = ClusterReserved(c) + ReservedIn(b, c)' - ReservedIn(b, c)
  BY <1>1, ReservedInChange
<1>5. QED
  BY <1>3, <1>4

LEMMA OrderWithin ==
  ASSUME TypeOK, TypeOK', OrderStep, NEW c \in Clusters, WithinCluster(c)
  PROVE  WithinCluster(c)'
<1>1. ClusterBasis(c)' = ClusterBasis(c)
  BY OrderFrame DEF positionVars, ClusterBasis
<1>2. ClusterBasis(c) \in Nat /\ ClusterReserved(c) \in Nat
  BY ClusterNat
<1>3. ClusterBasis(c) + ClusterReserved(c) <= Limits.cluster
  BY DEF WithinCluster, ClusterExposure
<1>4. PICK b \in Approvals :
        /\ OnlyOrder(b)
        /\ Eases(b) \/ \E p \in Plans, t \in Times : Prepare(b, p, t)
  BY OrderReserves
<1>5. CASE Eases(b)
  <2>1. ClusterReserved(c)' <= ClusterReserved(c) /\ ClusterReserved(c)' \in Int
    BY <1>4, <1>5, EasedIn
  <2>2. QED
    BY <1>1, <1>2, <1>3, <2>1, LimitsNat DEF WithinCluster, ClusterExposure
<1>6. ASSUME NEW p \in Plans, NEW t \in Times, Prepare(b, p, t)
      PROVE  WithinCluster(c)'
  <2>1. PICK r \in Nat :
          /\ r = IF p.side = "BUY" THEN CostCap(p) ELSE 0
          /\ reserved' = [reserved EXCEPT ![b] = r]
    BY <1>6, PrepareEffect
  <2>2. /\ state[b] = NoIntent /\ approval' = approval /\ approval[b] = p
        /\ state' = [state EXCEPT ![b] = "PREPARED"]
    BY <1>6 DEF Prepare, ReserveIntent, ApprovalUsable
  <2>3. /\ ReservedIn(b, c) = 0
        /\ ReservedIn(b, c)' = IF p.cluster = c THEN r ELSE 0
    BY <2>1, <2>2 DEF ReservedIn, PlanOf, TypeOK, NoIntent
  <2>4. \A a \in Approvals \ {b} : ReservedIn(a, c)' = ReservedIn(a, c)
    BY <1>4 DEF OnlyOrder, ReservedIn, PlanOf
  <2>5. ClusterReserved(c)' = ClusterReserved(c) + (IF p.cluster = c THEN r ELSE 0)
    BY <1>2, <2>1, <2>3, <2>4, ReservedInChange
  <2>6. p.side = "BUY" => ClusterBasis(p.cluster) + ClusterReserved(p.cluster) + CostCap(p)
                            <= Limits.cluster
    BY <1>6 DEF Prepare, ReserveIntent, Validate, ValidateBuy, ClusterExposure
  <2>7. CASE p.side = "BUY" /\ p.cluster = c
    BY <1>1, <1>2, <2>1, <2>5, <2>6, <2>7, LimitsNat DEF WithinCluster, ClusterExposure
  <2>8. CASE p.side # "BUY" \/ p.cluster # c
    BY <1>1, <1>2, <1>3, <2>1, <2>5, <2>8, LimitsNat DEF WithinCluster, ClusterExposure
  <2>9. QED
    BY <2>7, <2>8
<1>7. QED
  BY <1>4, <1>5, <1>6

\* What a fill adds to the cost of its position leaves its reservation, in one
\* cluster; what a sell takes from it leaves the cluster.
LEMMA FillWithin ==
  ASSUME TypeOK, TypeOK', Clustered, FillStep
  PROVE  Clustered' /\ \A c \in Clusters : WithinCluster(c) => WithinCluster(c)'
<1>1. PICK f \in Trades, b \in Approvals, q \in 1 .. MaxQuantity, p \in 1 .. One,
           fee \in 0 .. MaxFee, t \in Times, ex \in OptionalExecutors,
           l \in Levels \cup {NoLevel} : ApplyFill(f, b, q, p, fee, t, ex, l)
  BY DEF FillStep
<1>2. /\ Active(b) /\ fee \in Nat
      /\ PlanOf(b).asset \in Assets /\ PlanOf(b).cluster \in Clusters
      /\ state'[b] # NoIntent /\ approval' = approval
      /\ \A a \in Approvals \ {b} : state'[a] = state[a]
  <2>1. /\ Active(b) /\ PlanOf(b) \in Plans /\ approval' = approval
        /\ state' = [state EXCEPT ![b] = IF filled[b] + q = PlanOf(b).quantity THEN "FILLED"
              ELSE IF state[b] = "CANCEL_PENDING" THEN "CANCEL_PENDING" ELSE "PARTIALLY_FILLED"]
    BY <1>1, FillMoves
  <2>2. PlanOf(b).asset \in Assets /\ PlanOf(b).cluster \in Clusters /\ fee \in Nat
    BY <2>1, PlansAssumption, InputsAssumption DEF PlanOK
  <2>3. QED
    BY <2>1, <2>2 DEF TypeOK, NoIntent
<1>. PICK x \in Assets, k \in Clusters : x = PlanOf(b).asset /\ k = PlanOf(b).cluster
  BY <1>2
<1>3. cluster[x] \in {NoCluster, k}
  BY <1>1 DEF ApplyFill, ApplyBuyFill, ApplySellFill, FillAllowed
<1>4. PICK add \in Int :
        /\ basis' = [basis EXCEPT ![x] = basis[x] + add]
        /\ \A a \in Approvals \ {b} : reserved'[a] = reserved[a]
        /\ reserved'[b] + Greatest(0, add) <= reserved[b]
        /\ \/ cluster' = cluster /\ add <= 0
           \/ cluster' = [cluster EXCEPT ![x] = k]
  <2>1. CASE ApplyBuyFill(f, b, q, p, fee, t, ex, l)
    <3>1. PICK gross \in Nat, left \in Nat :
            /\ left = reserved[b] - gross - fee
            /\ basis' = [basis EXCEPT ![x] = basis[x] + gross]
            /\ FillIntent(b, q, t, left)
      BY <2>1, BuyFillEffect
    <3>2. \E n \in {0, left} : reserved' = [reserved EXCEPT ![b] = n]
      BY <3>1 DEF FillIntent
    <3>3. reserved[b] \in Nat /\ reserved'[b] \in {0, left}
          /\ \A a \in Approvals \ {b} : reserved'[a] = reserved[a]
      BY <3>2 DEF TypeOK
    <3>4. cluster' = [cluster EXCEPT ![x] = k]
      BY <2>1 DEF ApplyBuyFill
    <3>5. Greatest(0, gross) = gross /\ reserved'[b] + gross <= reserved[b]
      BY <1>2, <3>1, <3>3 DEF Greatest
    <3>6. gross \in Int
      OBVIOUS
    <3> WITNESS gross \in Int
    <3>7. QED
      BY <3>1, <3>3, <3>4, <3>5
  <2>2. CASE ApplySellFill(f, b, q, p, fee, t, ex, l)
    <3>1. PICK cost \in Nat :
            /\ basis' = [basis EXCEPT ![x] = basis[x] - cost]
            /\ FillIntent(b, q, t, 0)
      BY <2>2, SellFillEffect
    <3>2. reserved' = [reserved EXCEPT ![b] = 0]
      BY <3>1 DEF FillIntent
    <3>3. reserved[b] \in Nat /\ reserved'[b] = 0
          /\ \A a \in Approvals \ {b} : reserved'[a] = reserved[a]
      BY <3>2 DEF TypeOK
    <3>4. cluster' = cluster
      BY <2>2 DEF ApplySellFill
    <3>5. PICK loss \in Int : loss = -cost
      OBVIOUS
    <3>6. /\ loss <= 0 /\ Greatest(0, loss) = 0
          /\ basis[x] - cost = basis[x] + loss
      BY <1>2, <3>1, <3>5 DEF TypeOK, Greatest
    <3>7. basis' = [basis EXCEPT ![x] = basis[x] + loss]
      BY <3>1, <3>6
    <3>8. reserved'[b] + Greatest(0, loss) <= reserved[b]
      BY <3>3, <3>6
    <3> WITNESS loss \in Int
    <3>9. QED
      BY <3>3, <3>4, <3>6, <3>7, <3>8
  <2>3. QED
    BY <1>1, <2>1, <2>2 DEF ApplyFill
<1>5. /\ \A y \in Assets \ {x} : cluster'[y] = cluster[y] /\ basis'[y] = basis[y]
      /\ basis'[x] = basis[x] + add /\ basis[x] \in Nat /\ basis'[x] \in Nat
      /\ \/ cluster'[x] = k
         \/ cluster'[x] = cluster[x] /\ add <= 0
  <2>1. /\ basis \in [Assets -> Nat] /\ basis' \in [Assets -> Nat]
        /\ cluster \in [Assets -> Clusters \cup {NoCluster}]
    BY DEF TypeOK
  <2>2. basis'[x] = basis[x] + add /\ basis[x] \in Nat /\ basis'[x] \in Nat
    BY <1>2, <1>4, <2>1
  <2>3. /\ \A y \in Assets \ {x} : cluster'[y] = cluster[y] /\ basis'[y] = basis[y]
        /\ \/ cluster'[x] = k
           \/ cluster'[x] = cluster[x] /\ add <= 0
    BY <1>2, <1>4, <2>1
  <2>4. QED
    BY <2>2, <2>3
<1>6. Clustered'
  <2>1. k # NoCluster
    BY <1>2, AbsentAssumption
  <2>2. ASSUME NEW y \in Assets, cluster'[y] = NoCluster
        PROVE  basis'[y] = 0
    BY <1>4, <1>5, <2>1, <2>2 DEF Clustered
  <2>3. QED
    BY <2>2 DEF Clustered
<1>7. ASSUME NEW c \in Clusters, WithinCluster(c)
      PROVE  WithinCluster(c)'
  <2>1. ClusterBasis(c) + ClusterReserved(c) <= Limits.cluster
    BY <1>7 DEF WithinCluster, ClusterExposure
  <2>2. \A y \in Assets \ {x} : BasisIn(y, c)' = BasisIn(y, c)
    BY <1>5 DEF BasisIn
  <2>3. \A a \in Approvals \ {b} : ReservedIn(a, c)' = ReservedIn(a, c)
    BY <1>2, <1>4 DEF ReservedIn, PlanOf
  <2>4. /\ ClusterBasis(c) \in Nat /\ BasisIn(x, c) \in Nat /\ BasisIn(x, c)' \in Nat
        /\ ClusterBasis(c)' = ClusterBasis(c) + BasisIn(x, c)' - BasisIn(x, c)
    BY <1>2, <2>2, BasisInChange
  <2>5. /\ ClusterReserved(c) \in Nat /\ ReservedIn(b, c) \in Nat /\ ReservedIn(b, c)' \in Nat
        /\ ClusterReserved(c)' = ClusterReserved(c) + ReservedIn(b, c)' - ReservedIn(b, c)
    BY <2>3, ReservedInChange
  <2>6. c # NoCluster
    BY AbsentAssumption
  <2>7. reserved[b] \in Nat /\ reserved'[b] \in Nat
    BY DEF TypeOK
  <2>8. BasisIn(x, c)' + ReservedIn(b, c)' <= BasisIn(x, c) + ReservedIn(b, c)
    <3>1. CASE c = k
      <4>1. ReservedIn(b, c) = reserved[b] /\ ReservedIn(b, c)' = reserved'[b]
        BY <1>2, <3>1 DEF ReservedIn, PlanOf, Active
      <4>2. BasisIn(x, c) = basis[x]
        BY <1>2, <1>3, <2>6, <3>1 DEF BasisIn, Clustered
      <4>3. BasisIn(x, c)' <= basis[x] + Greatest(0, add)
        BY <1>4, <1>5 DEF BasisIn, Greatest
      <4>4. Greatest(0, add) \in Nat
        BY <1>4 DEF Greatest
      <4>5. QED
        BY <1>4, <1>5, <2>4, <2>7, <4>1, <4>2, <4>3, <4>4
    <3>2. CASE c # k
      <4>1. ReservedIn(b, c) = 0 /\ ReservedIn(b, c)' = 0
        BY <1>2, <3>2 DEF ReservedIn, PlanOf
      <4>2. BasisIn(x, c) = 0 /\ BasisIn(x, c)' = 0
        BY <1>3, <1>5, <2>6, <3>2 DEF BasisIn
      <4>3. QED
        BY <4>1, <4>2
    <3>3. QED
      BY <3>1, <3>2
  <2>9. QED
    BY <2>1, <2>4, <2>5, <2>8, LimitsNat DEF WithinCluster, ClusterExposure
<1>8. QED
  BY <1>6, <1>7

LEMMA SettleWithin ==
  ASSUME TypeOK, TypeOK', Clustered, SettleStep
  PROVE  Clustered' /\ \A c \in Clusters : WithinCluster(c) => WithinCluster(c)'
<1>1. PICK x \in Assets, payout \in 0 .. One, sid \in SettlementIds, t \in Times :
        Settle(x, payout, sid, t)
  BY DEF SettleStep
<1>2. UNCHANGED intentVars /\ cluster' = cluster /\ basis' = [basis EXCEPT ![x] = 0]
  BY <1>1 DEF Settle
<1>3. Clustered'
  BY <1>2 DEF Clustered, TypeOK
<1>4. ASSUME NEW c \in Clusters, WithinCluster(c)
      PROVE  WithinCluster(c)'
  <2>1. ClusterBasis(c) + ClusterReserved(c) <= Limits.cluster
    BY <1>4 DEF WithinCluster, ClusterExposure
  <2>2. \A y \in Assets \ {x} : BasisIn(y, c)' = BasisIn(y, c)
    BY <1>2 DEF BasisIn, TypeOK
  <2>3. /\ ClusterBasis(c) \in Nat /\ BasisIn(x, c) \in Nat /\ BasisIn(x, c)' \in Nat
        /\ ClusterBasis(c)' = ClusterBasis(c) + BasisIn(x, c)' - BasisIn(x, c)
    BY <2>2, BasisInChange
  <2>4. BasisIn(x, c)' = 0
    BY <1>2 DEF BasisIn, TypeOK
  <2>5. ClusterReserved(c)' = ClusterReserved(c) /\ ClusterReserved(c) \in Nat
    BY <1>2, ClusterNat DEF ClusterReserved, PlanOf, intentVars
  <2>6. QED
    BY <2>1, <2>3, <2>4, <2>5, LimitsNat DEF WithinCluster, ClusterExposure
<1>5. QED
  BY <1>3, <1>4

LEMMA TotalWithin ==
  ASSUME BooksInv, [Next]_vars, Exposure(bal) <= ExposureLimit
  PROVE  Exposure(bal') <= ExposureLimit
<1>1. TypeOK /\ bal["inventory_cost"] \in Int /\ bal["reserved"] \in Int
  BY DEF BooksInv, TypeOK, Accounts
<1>2. ExposureLimit \in Nat
  BY LimitsNat DEF ExposureLimit, Least
<1>3. ASSUME NEW a \in Approvals, NEW p \in Plans, NEW t \in Times,
             Prepare(a, p, t), p.side = "BUY"
      PROVE  Exposure(bal') <= ExposureLimit
  <2>1. /\ bal'["reserved"] = bal["reserved"] + CostCap(p)
        /\ bal'["inventory_cost"] = bal["inventory_cost"]
    BY <1>1, <1>3, PrepareEffect DEF Accounts
  <2>2. CostCap(p) \in Nat
    BY PlansAssumption, CostCapNat
  <2>3. Exposure(bal) + CostCap(p) <= ExposureLimit
    BY <1>3 DEF Prepare, ReserveIntent, Validate, ValidateBuy
  <2>4. QED
    BY <1>1, <1>2, <2>1, <2>2, <2>3 DEF Exposure
<1>4. CASE ~ \E a \in Approvals, p \in Plans, t \in Times : Prepare(a, p, t) /\ p.side = "BUY"
  <2>1. Exposure(bal') <= Exposure(bal)
    BY <1>4, ExposureGrows
  <2>2. bal'["inventory_cost"] \in Int /\ bal'["reserved"] \in Int
    BY <1>1, NextType DEF TypeOK, Accounts
  <2>3. QED
    BY <1>1, <1>2, <2>1, <2>2 DEF Exposure
<1>5. QED
  BY <1>3, <1>4

\* What is owned and reserved stays within the envelope, in total and in every
\* cluster, however reservations, fills and sales of many orders interleave.
THEOREM EnvelopeHolds == Spec => []ExposureBounded
<1>1. Init => EnvelopeInv
  <2> SUFFICES ASSUME Init PROVE EnvelopeInv
    OBVIOUS
  <2>1. TypeOK /\ BooksInv
    BY InitBooks, InitType
  <2>2. Clustered
    BY DEF Init, Clustered
  <2>3. Exposure(bal) = 0 /\ ExposureLimit \in Nat
    BY LimitsNat DEF Init, Exposure, Accounts, ExposureLimit, Least
  <2>4. ASSUME NEW c \in Clusters PROVE ClusterExposure(c) = 0
    <3>1. /\ [x \in Assets |-> IF cluster[x] = c THEN basis[x] ELSE 0] = [x \in Assets |-> 0]
          /\ [a \in Approvals |->
                IF state[a] # NoIntent /\ PlanOf(a).cluster = c THEN reserved[a] ELSE 0]
               = [a \in Approvals |-> 0]
      BY DEF Init
    <3>2. ClusterBasis(c) = 0 /\ ClusterReserved(c) = 0
      BY <3>1, TotalZero, FiniteAssumption DEF ClusterBasis, ClusterReserved
    <3>3. QED
      BY <3>2 DEF ClusterExposure
  <2>5. QED
    BY <2>1, <2>2, <2>3, <2>4, LimitsNat DEF EnvelopeInv, ExposureBounded
<1>2. EnvelopeInv /\ [Next]_vars => EnvelopeInv'
  <2> SUFFICES ASSUME BooksInv, BooksInv', Clustered, ExposureBounded, [Next]_vars
               PROVE  Clustered' /\ ExposureBounded'
    BY NextBooks DEF EnvelopeInv
  <2>1. TypeOK /\ TypeOK'
    BY DEF BooksInv
  <2>2. Exposure(bal)' <= ExposureLimit
    BY TotalWithin DEF ExposureBounded, Exposure
  <2>3. Clustered' /\ \A c \in Clusters : WithinCluster(c) => WithinCluster(c)'
    <3>1. CASE OrderStep
      <4>1. Clustered'
        BY <3>1, OrderFrame DEF positionVars, Clustered
      <4>2. QED
        BY <2>1, <3>1, <4>1, OrderWithin
    <3>2. CASE UNCHANGED <<intentVars, basis, cluster>>
      BY <3>2 DEF Clustered, WithinCluster, ClusterExposure, ClusterBasis, ClusterReserved,
                  PlanOf, intentVars
    <3>3. MoneyStep \/ ControlStep \/ LeaseStep \/ UNCHANGED vars
            => UNCHANGED <<intentVars, basis, cluster>>
      BY MoneyFrame, ControlFrame, LeaseFrame DEF vars, positionVars
    <3>4. QED
      BY <2>1, <3>1, <3>2, <3>3, FillWithin, SettleWithin DEF Next
  <2>4. QED
    BY <2>2, <2>3 DEF ExposureBounded, WithinCluster
<1>3. EnvelopeInv => ExposureBounded
  BY DEF EnvelopeInv
<1>4. QED
  BY <1>1, <1>2, <1>3, PTL DEF Spec
=============================================================================
