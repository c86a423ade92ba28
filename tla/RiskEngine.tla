----------------------------- MODULE RiskEngine -----------------------------
(***************************************************************************)
(* The risk engine (edgehunter/risk/engine.py) over the journal, and every *)
(* caller of both: the paper executor, the candidate, the daemon's loops,  *)
(* the operator's commands and the tests, as transactions in any order     *)
(* with any timestamps.  What holds here holds for all of them, crashed or *)
(* interleaved anywhere, because each of their steps is one of these.      *)
(***************************************************************************)
EXTENDS Journal

CONSTANTS
  Amounts,       \* deposits and operating costs
  MaxQuantity,   \* shares of one fill
  MaxFee,        \* fee of one fill
  MaxEpoch       \* bound on executor epochs

ASSUME InputsAssumption ==
  /\ Amounts \subseteq Nat \ {0}
  /\ MaxQuantity \in Nat
  /\ MaxFee \in Nat
  /\ MaxEpoch \in Nat

\* Cost of what is owned plus what is reserved.
Exposure(b) == b["inventory_cost"] + b["reserved"]
ExposureLimit == Least(Limits.capital, Limits.total)

ClusterBasis(c) == Total([x \in Assets |-> IF cluster[x] = c THEN basis[x] ELSE 0])
ClusterReserved(c) ==
  Total([a \in Approvals |->
           IF state[a] # NoIntent /\ PlanOf(a).cluster = c THEN reserved[a] ELSE 0])
ClusterExposure(c) == ClusterBasis(c) + ClusterReserved(c)

\* Shares that the open sell orders of an asset may still sell.
OpenSale(a, x) ==
  IF Active(a) /\ PlanOf(a).asset = x /\ ~IsBuy(a) THEN PlanOf(a).quantity - filled[a] ELSE 0
Committed(x) == Total([a \in Approvals |-> OpenSale(a, x)])

\* Mutant: a sell is compared with what is owned, not with what is still free.
ValidateSellOwned(p) == p.reduceOnly /\ p.quantity <= qty[p.asset]

ValidateSell(p) ==
  /\ p.reduceOnly
  /\ p.quantity <= qty[p.asset] - Committed(p.asset)

\* Mutant: the cluster counts what is owned, not what is reserved.
ValidateBuyOwned(p) ==
  /\ ~p.reduceOnly
  /\ ~LossBreach
  /\ CostCap(p) <= Limits.order
  /\ Exposure(bal) + CostCap(p) <= ExposureLimit
  /\ ClusterBasis(p.cluster) + CostCap(p) <= Limits.cluster

ValidateBuy(p) ==
  /\ ~p.reduceOnly
  /\ ~LossBreach
  /\ CostCap(p) <= Limits.order
  /\ Exposure(bal) + CostCap(p) <= ExposureLimit
  /\ ClusterExposure(p.cluster) + CostCap(p) <= Limits.cluster

\* The conditions on the book only reject, and any book may be offered.
Validate(p, t) ==
  /\ ~Stopped(p.side)
  /\ control.leaseExpires > t
  /\ LedgerValid
  /\ settledBy[p.asset] = NoSettlement
  /\ \A a \in Approvals : state[a] # "UNKNOWN"
  /\ p.created <= t
  /\ t < p.expires
  /\ cluster[p.asset] \in {NoCluster, p.cluster}
  /\ IF p.side = "SELL" THEN ValidateSell(p) ELSE ValidateBuy(p)

\* A rejection for a loss or for invalid books is followed by a halt in a
\* transaction of its own, after the rollback: an instance of Halt.
Prepare(a, p, t) == ReserveIntent(a, p, t, Validate(p, t))

Executors == [owner : Owners, epoch : 1 .. MaxEpoch]
OptionalExecutors == Executors \cup {NoExecutor}
-----------------------------------------------------------------------------
MoneyStep ==
  \/ \E k \in DepositKeys, n \in Amounts : Deposit(k, n)
  \/ \E k \in ExpenseKeys, n \in Amounts : RecordOperatingCost(k, n)

ControlStep ==
  \/ Halt
  \/ \E t \in Times, ttl \in 1 .. MaxTtl : RenewControlLease(t, ttl)
  \/ \E c \in Commands, kind \in CommandKinds, e, t \in Times : ProposeCommand(c, kind, e, t)
  \/ \E c \in Commands, d, t \in Times : ConsumeControlCommand(c, d, t)

LeaseStep ==
  \/ \E o \in Owners, t \in Times, ttl \in 1 .. MaxTtl :
       lease.epoch < MaxEpoch /\ AcquireExecutor(o, t, ttl)
  \/ \E ex \in Executors, t \in Times : ReleaseExecutor(ex, t)

OrderStep ==
  \E a \in Approvals, t \in Times :
    \/ \E p \in Plans : ApproveSimulated(a, p, t)
    \/ \E p \in Plans : Prepare(a, p, t)
    \/ \E ex \in OptionalExecutors :
         \/ \E s \in OrderStates : Transition(a, s, t, ex)
         \/ TransitionHalts(a, t, ex)
    \/ \E n \in 0 .. MaxQuantity : ConfirmCancel(a, n, t)

FillStep ==
  \E f \in Trades, a \in Approvals, q \in 1 .. MaxQuantity, p \in 1 .. One,
     fee \in 0 .. MaxFee, t \in Times, ex \in OptionalExecutors, l \in Levels \cup {NoLevel} :
    ApplyFill(f, a, q, p, fee, t, ex, l)

SettleStep ==
  \E x \in Assets, payout \in 0 .. One, sid \in SettlementIds, t \in Times :
    Settle(x, payout, sid, t)

Next == MoneyStep \/ ControlStep \/ LeaseStep \/ OrderStep \/ FillStep \/ SettleStep

Spec == Init /\ [][Next]_vars
-----------------------------------------------------------------------------
FillRecords ==
  [intent : Approvals, quantity : Nat, gross : Nat, fee : Nat] \cup {NoFill}

CommandRecords ==
  [status : {"PROPOSED", "CONSUMED"}, kind : CommandKinds, created : Times, expires : Times]
    \cup {NoCommand}

\* The tables hold what their columns may hold, and an intent has a plan.
TypeOK ==
  /\ bal \in [Accounts -> Int]
  /\ shares \in [Assets -> Int]
  /\ deposited \in [DepositKeys -> Nat]
  /\ expensed \in [ExpenseKeys -> Nat]
  /\ released \in [Approvals -> Nat]
  /\ approval \in [Approvals -> Plans \cup {NoPlan}]
  /\ state \in [Approvals -> OrderStates \cup {NoIntent}]
  /\ reserved \in [Approvals -> Nat]
  /\ filled \in [Approvals -> Nat]
  /\ updated \in [Approvals -> Nat]
  /\ fills \in [Trades -> FillRecords]
  /\ consumed \in [Levels \X Sides -> Nat]
  /\ qty \in [Assets -> Nat]
  /\ basis \in [Assets -> Nat]
  /\ cluster \in [Assets -> Clusters \cup {NoCluster}]
  /\ settledBy \in [Assets -> SettlementIds \cup {NoSettlement}]
  /\ control \in [halted : BOOLEAN, paused : BOOLEAN, leaseExpires : Nat,
                  high : Int, businessHigh : Int]
  /\ commands \in [Commands -> CommandRecords]
  /\ lease \in [owner : Owners \cup {NoOwner}, epoch : Nat, expires : Nat]
  /\ \A a \in Approvals : state[a] # NoIntent => approval[a] \in Plans

(***************************************************************************)
(* Safety.  LedgerValid is the first of them: the books the risk engine     *)
(* checks before each order agree in every state any caller can reach.      *)
(***************************************************************************)

\* An order never costs more than the amount approved for it: what its fills
\* were charged and what is still reserved for it add up to its cost cap while
\* it is active, whatever rounding, duplicates and cancellations happened.
FillCost(a) ==
  Total([f \in Trades |-> IF fills[f].intent = a THEN fills[f].gross + fills[f].fee ELSE 0])
FillQuantity(a) ==
  Total([f \in Trades |-> IF fills[f].intent = a THEN fills[f].quantity ELSE 0])

ReservationCoversFills ==
  \A a \in Approvals : state[a] # NoIntent =>
    /\ filled[a] = FillQuantity(a)
    /\ filled[a] <= PlanOf(a).quantity
    /\ state[a] = "FILLED" <=> filled[a] = PlanOf(a).quantity
    /\ state[a] \in {"REJECTED", "EXPIRED"} => filled[a] = 0
    /\ IsBuy(a) => /\ reserved[a] + FillCost(a) <= CostCap(PlanOf(a))
                   /\ Active(a) => reserved[a] + FillCost(a) = CostCap(PlanOf(a))

\* Concurrent reservations and fills stay within the envelope, in total and
\* for each cluster.
ExposureBounded ==
  /\ Exposure(bal) <= ExposureLimit
  /\ \A c \in Clusters : ClusterExposure(c) <= Limits.cluster

\* Reduce-only orders that are open at the same time, whatever is sold,
\* settled or cancelled meanwhile, can never sell more than is owned.
NeverOversold == \A x \in Assets : Committed(x) <= qty[x]

\* A settled asset is finished: no shares, no order that may still trade it.
SettledFinal ==
  \A x \in Assets : settledBy[x] # NoSettlement =>
    /\ qty[x] = 0
    /\ \A a \in Approvals : Active(a) => PlanOf(a).asset # x

\* The drawdown is measured from a mark no lower than any result realized so far.
HighWaterAboveResult ==
  /\ control.high >= Pnl(bal)
  /\ control.businessHigh >= BusinessPnl(bal)

\* Money is only moved, never made: each account is explained by the tables.
MoneyExplained ==
  /\ bal["contributed_capital"] = -Total(deposited)
  /\ bal["operating_cost"] = Total(expensed)
  /\ bal["fees"] = Total([f \in Trades |-> fills[f].fee])
  /\ bal["cash"] + Exposure(bal) = Total(deposited) + BusinessPnl(bal)

\* Once a stop is persisted no step takes new risk: the exposure never grows
\* again, although orders that are open may still be filled or sold, and an
\* order that was reserved before the stop is not sent after it (a pause lets
\* only sales through).
NoNewRiskAfterStop ==
  [][/\ (control.halted \/ control.paused) => Exposure(bal') <= Exposure(bal)
     /\ \A a \in Approvals :
          (state[a] # "SUBMITTING" /\ state'[a] = "SUBMITTING")
            => ~(control.halted \/ (control.paused /\ IsBuy(a)))]_vars

\* A persisted stop, a consumed command, a consumed approval and its plan, a
\* finished order, a fill, a settlement and a high-water mark are never taken
\* back, and the rows of an order do not go back in time.
NothingTakenBack ==
  [][/\ control.halted => control'.halted
     /\ control.paused => control'.paused
     /\ control'.high >= control.high
     /\ control'.businessHigh >= control.businessHigh
     /\ \A c \in Commands : commands[c].status = "CONSUMED" => commands'[c] = commands[c]
     /\ \A a \in Approvals :
          /\ state[a] # NoIntent => state'[a] # NoIntent /\ approval'[a] = approval[a]
          /\ state[a] \in Terminal => state'[a] = state[a]
          /\ updated'[a] >= updated[a]
     /\ \A f \in Trades : fills[f] # NoFill => fills'[f] = fills[f]
     /\ \A x \in Assets : settledBy[x] # NoSettlement => settledBy'[x] = settledBy[x]
    ]_vars

\* A token of the executor lease that was superseded never regains force, so
\* that a process that lost the lease can neither move an order nor fill it.
TokenNeverReissued ==
  [][\A ex \in Executors :
       (ex # [owner |-> lease.owner, epoch |-> lease.epoch] /\ ex.epoch <= lease.epoch)
         => ex # [owner |-> lease'.owner, epoch |-> lease'.epoch]]_vars
=============================================================================
