------------------------------ MODULE Journal ------------------------------
(***************************************************************************)
(* The durable simulated financial journal, edgehunter/storage/journal.py. *)
(*                                                                         *)
(* Every mutation of the code is one BEGIN IMMEDIATE transaction: here one *)
(* action.  A guard that fails is an exception that rolls back, so it is   *)
(* an action that is not taken; a repeated call that the code answers with *)
(* "already done" changes nothing, and is a stuttering step.  Timestamps   *)
(* come from the callers (the wall clock, a modelled latency, a replay) and *)
(* are not ordered: every action takes any timestamp of Times.             *)
(*                                                                         *)
(* An intent is named by its approval, which the code lets at most one     *)
(* intent consume; its plan is the approved plan.  The outbox row that     *)
(* each transaction appends is not read back by these operations, except   *)
(* for a settlement's, which settledBy keeps.                              *)
(***************************************************************************)
EXTENDS Money

CONSTANTS
  Approvals,      \* approval ids
  Plans,          \* the order plans that may be approved
  Assets,         \* outcome tokens
  Clusters,       \* the market and cluster a position belongs to
  Trades,         \* trade ids
  Levels,         \* levels of paper book snapshots
  Capacity,       \* the depth of a level on a side, after the haircut
  DepositKeys, ExpenseKeys, SettlementIds,  \* idempotency keys of callers
  Owners,         \* executor processes
  Commands,       \* stop commands
  MaxTime,        \* timestamps are 1 .. MaxTime
  MaxTtl,         \* leases last 1 .. MaxTtl
  Limits,         \* the risk envelope, stored with every intent
  NoPlan, NoCluster, NoLevel, NoSettlement, NoOwner   \* absent rows

Times == 1 .. MaxTime
Sides == {"BUY", "SELL"}
FeeModels == {"flat_notional", "polymarket_curve"}

\* What OrderPlan's constructor checks.  Modes, wallets, venues, collateral
\* and strategies other than the simulated, authorized ones only ever reject.
PlanOK(p) ==
  /\ p.asset \in Assets
  /\ p.cluster \in Clusters
  /\ p.side \in Sides
  /\ p.feeModel \in FeeModels
  /\ {p.quantity, p.tick, p.limit} \subseteq Nat \ {0}
  /\ p.feeRate \in 0 .. FeeScale
  /\ p.limit <= One
  /\ p.limit % p.tick = 0
  /\ {p.created, p.expires} \subseteq Nat
  /\ p.created < p.expires
  /\ p.reduceOnly \in BOOLEAN

LimitsOK ==
  \A f \in {"capital", "order", "cluster", "total", "realizedLoss", "drawdown",
            "businessLoss", "businessDrawdown"} :
     f \in DOMAIN Limits /\ Limits[f] \in Nat

ASSUME PlansAssumption == \A p \in Plans : PlanOK(p)
ASSUME LimitsAssumption == LimitsOK
ASSUME CapacityAssumption == Capacity \in [Levels \X Sides -> Nat]
ASSUME FiniteAssumption ==
  /\ IsFiniteSet(Approvals)
  /\ IsFiniteSet(Assets)
  /\ IsFiniteSet(Trades)
  /\ IsFiniteSet(DepositKeys)
  /\ IsFiniteSet(ExpenseKeys)
ASSUME TimeAssumption == MaxTime \in Nat /\ MaxTtl \in Nat
ASSUME AbsentAssumption ==
  /\ NoPlan \notin Plans
  /\ NoCluster \notin Clusters
  /\ NoLevel \notin Levels
  /\ NoSettlement \notin SettlementIds
  /\ NoOwner \notin Owners

VARIABLES
  bal,        \* balances of the collateral accounts of the ledger
  shares,     \* balances of the shares accounts, by asset
  deposited, expensed, released,  \* ledger transaction ids posted, with the amount
  approval,   \* approvals: the approved plan
  state, reserved, filled, updated,    \* intents
  fills,      \* fills, by trade id
  consumed,   \* paper_liquidity
  qty, basis, cluster,   \* positions
  settledBy,  \* settled_assets
  control,    \* control: stops, control lease, high-water marks
  commands,   \* control_commands
  lease       \* executor_lease

ledgerVars == <<bal, shares, deposited, expensed, released>>
intentVars == <<approval, state, reserved, filled, updated>>
positionVars == <<fills, consumed, qty, basis, cluster, settledBy>>
vars == <<ledgerVars, intentVars, positionVars, control, commands, lease>>

Accounts == {"cash", "reserved", "inventory_cost", "fees", "realized_income",
             "operating_cost", "contributed_capital"}

NoIntent == "NONE"
NoFill == [intent |-> "NONE", quantity |-> 0, gross |-> 0, fee |-> 0]
Terminal == {"FILLED", "CANCELLED", "REJECTED", "EXPIRED"}
OrderStates == {"PREPARED", "SUBMITTING", "ACKNOWLEDGED", "OPEN", "PARTIALLY_FILLED",
                "CANCEL_PENDING", "UNKNOWN"} \cup Terminal

Active(a) == state[a] \notin Terminal \cup {NoIntent}
PlanOf(a) == approval[a]
IsBuy(a) == PlanOf(a).side = "BUY"
NoCommand == [status |-> "NONE"]

Init ==
  /\ bal = [k \in Accounts |-> 0]
  /\ shares = [x \in Assets |-> 0]
  /\ deposited = [k \in DepositKeys |-> 0]
  /\ expensed = [k \in ExpenseKeys |-> 0]
  /\ released = [a \in Approvals |-> 0]
  /\ approval = [a \in Approvals |-> NoPlan]
  /\ state = [a \in Approvals |-> NoIntent]
  /\ reserved = [a \in Approvals |-> 0]
  /\ filled = [a \in Approvals |-> 0]
  /\ updated = [a \in Approvals |-> 0]
  /\ fills = [f \in Trades |-> NoFill]
  /\ consumed = [l \in Levels \X Sides |-> 0]
  /\ qty = [x \in Assets |-> 0]
  /\ basis = [x \in Assets |-> 0]
  /\ cluster = [x \in Assets |-> NoCluster]
  /\ settledBy = [x \in Assets |-> NoSettlement]
  /\ control = [halted |-> FALSE, paused |-> FALSE, leaseExpires |-> 0,
                high |-> 0, businessHigh |-> 0]
  /\ commands = [c \in Commands |-> NoCommand]
  /\ lease = [owner |-> NoOwner, epoch |-> 0, expires |-> 0]
-----------------------------------------------------------------------------
(* The ledger.                                                             *)

\* Posting entries: amounts by account.  Each ledger transaction balances.
Post(e) == bal' = [k \in Accounts |-> IF k \in DOMAIN e THEN bal[k] + e[k] ELSE bal[k]]

Pnl(b) == -b["realized_income"] - b["fees"]
BusinessPnl(b) == Pnl(b) - b["operating_cost"]

\* Mutant: the marks are taken before the posting.
UpdateHighWaterFirst ==
  control' = [control EXCEPT !.high = Greatest(@, Pnl(bal)),
                             !.businessHigh = Greatest(@, BusinessPnl(bal))]

UpdateHighWater ==
  control' = [control EXCEPT !.high = Greatest(@, Pnl(bal')),
                             !.businessHigh = Greatest(@, BusinessPnl(bal'))]

\* The books agree with the tables: the check the risk engine runs before it
\* takes risk, and that halts when it fails.
LedgerValid ==
  /\ Total(reserved) = bal["reserved"]
  /\ bal["cash"] >= 0
  /\ \A x \in Assets :
       /\ qty[x] >= 0 /\ basis[x] >= 0
       /\ qty[x] = shares[x]
       /\ qty[x] = 0 => basis[x] = 0
  /\ Total(basis) = bal["inventory_cost"]
  /\ \A a \in Approvals :
       /\ reserved[a] >= 0
       /\ state[a] \in Terminal => reserved[a] = 0

\* Mutant: a retried deposit is posted again.
DepositTwice(k, n) ==
  /\ deposited' = [deposited EXCEPT ![k] = n]
  /\ Post([cash |-> n, contributed_capital |-> -n])
  /\ UNCHANGED <<shares, expensed, released, intentVars, positionVars, control, commands, lease>>

Deposit(k, n) ==
  /\ deposited[k] = 0
  /\ deposited' = [deposited EXCEPT ![k] = n]
  /\ Post([cash |-> n, contributed_capital |-> -n])
  /\ UNCHANGED <<shares, expensed, released, intentVars, positionVars, control, commands, lease>>

RecordOperatingCost(k, n) ==
  /\ expensed[k] = 0
  /\ bal["cash"] >= n
  /\ expensed' = [expensed EXCEPT ![k] = n]
  /\ Post([cash |-> -n, operating_cost |-> n])
  /\ UpdateHighWater
  /\ UNCHANGED <<shares, deposited, released, intentVars, positionVars, commands, lease>>
-----------------------------------------------------------------------------
(* Stops and leases.                                                       *)

RenewControlLease(t, ttl) ==
  /\ control' = [control EXCEPT !.leaseExpires = t + ttl]
  /\ UNCHANGED <<ledgerVars, intentVars, positionVars, commands, lease>>

Halt ==
  /\ control' = [control EXCEPT !.halted = TRUE]
  /\ UNCHANGED <<ledgerVars, intentVars, positionVars, commands, lease>>

CommandKinds == {"PAUSE_NEW_RISK", "EMERGENCY_HALT"}

ProposeCommand(c, kind, expires, t) ==
  /\ commands[c] = NoCommand
  /\ expires > t
  /\ commands' = [commands EXCEPT ![c] =
                    [status |-> "PROPOSED", kind |-> kind, created |-> t, expires |-> expires]]
  /\ UNCHANGED <<ledgerVars, intentVars, positionVars, control, lease>>

\* Mutant: the answer to the later command replaces the stop of the earlier one.
ConsumeReplacesHalt(c, d, t) ==
  /\ commands[c].status = "PROPOSED"
  /\ commands[c].created <= d
  /\ d <= t
  /\ commands[c].expires > t
  /\ commands' = [commands EXCEPT ![c].status = "CONSUMED"]
  /\ control' = [control EXCEPT !.paused = TRUE, !.halted = commands[c].kind = "EMERGENCY_HALT"]
  /\ UNCHANGED <<ledgerVars, intentVars, positionVars, lease>>

\* An answer of the designated human, decided at d, read back at t.
ConsumeControlCommand(c, d, t) ==
  /\ commands[c].status = "PROPOSED"
  /\ commands[c].created <= d
  /\ d <= t
  /\ commands[c].expires > t
  /\ commands' = [commands EXCEPT ![c].status = "CONSUMED"]
  /\ control' = [control EXCEPT !.paused = TRUE,
                                !.halted = @ \/ commands[c].kind = "EMERGENCY_HALT"]
  /\ UNCHANGED <<ledgerVars, intentVars, positionVars, lease>>

\* A token of the executor lease: its owner and epoch; NoExecutor skips the check.
NoExecutor == [owner |-> NoOwner, epoch |-> 0]

\* Mutant: any token will do while the lease lasts.
CheckExecutorTime(ex, t) == ex # NoExecutor => lease.expires > t

CheckExecutor(ex, t) ==
  ex # NoExecutor => /\ lease.owner = ex.owner
                     /\ lease.epoch = ex.epoch
                     /\ lease.expires > t

\* Mutant: an expired lease is taken over under its old epoch.
EpochKept(o, t) == IF lease.epoch = 0 THEN 1 ELSE lease.epoch

\* The holder that renews in time keeps its epoch; any other start is a new one.
EpochFor(o, t) ==
  IF lease.owner = o /\ lease.expires > t THEN lease.epoch ELSE lease.epoch + 1

AcquireExecutor(o, t, ttl) ==
  /\ lease.owner = o \/ lease.expires <= t
  /\ lease' = [owner |-> o, epoch |-> EpochFor(o, t), expires |-> t + ttl]
  /\ UNCHANGED <<ledgerVars, intentVars, positionVars, control, commands>>

ReleaseExecutor(ex, t) ==
  /\ lease.owner = ex.owner
  /\ lease.epoch = ex.epoch
  /\ lease' = [lease EXCEPT !.expires = t]
  /\ UNCHANGED <<ledgerVars, intentVars, positionVars, control, commands>>
-----------------------------------------------------------------------------
(* Approvals and intents.                                                  *)

ApproveSimulated(a, p, t) ==
  /\ approval[a] = NoPlan
  /\ p.created <= t
  /\ t < p.expires
  /\ approval' = [approval EXCEPT ![a] = p]
  /\ UNCHANGED <<ledgerVars, state, reserved, filled, updated, positionVars,
                 control, commands, lease>>

\* Mutant: any plan may consume an approval, approved or not.
ApprovalUnmatched(a, p, t) == p.expires > t

ApprovalUsable(a, p, t) == approval[a] = p /\ p.expires > t

\* valid is what the caller's validator, which runs inside the transaction, answers.
ReserveIntent(a, p, t, valid) ==
  LET reserve == IF p.side = "BUY" THEN CostCap(p) ELSE 0
  IN  /\ state[a] = NoIntent
      /\ ApprovalUsable(a, p, t)
      /\ valid
      /\ bal["cash"] >= reserve
      /\ state' = [state EXCEPT ![a] = "PREPARED"]
      /\ reserved' = [reserved EXCEPT ![a] = reserve]
      /\ updated' = [updated EXCEPT ![a] = t]
      /\ Post([cash |-> -reserve, reserved |-> reserve])
      /\ UNCHANGED <<shares, deposited, expensed, released, approval, filled, positionVars,
                     control, commands, lease>>

\* Return what is left of a reservation, once for each intent.
Release(a) ==
  IF reserved[a] = 0
    THEN UNCHANGED <<bal, reserved, released>>
    ELSE /\ released[a] \in {0, reserved[a]}
         /\ released' = [released EXCEPT ![a] = reserved[a]]
         /\ IF released[a] = 0
              THEN Post([reserved |-> -reserved[a], cash |-> reserved[a]])
              ELSE UNCHANGED bal
         /\ reserved' = [reserved EXCEPT ![a] = 0]

Allowed ==
  [s \in OrderStates \cup {NoIntent} |->
     CASE s = "PREPARED"         -> {"SUBMITTING", "CANCEL_PENDING", "REJECTED", "EXPIRED"}
       [] s = "SUBMITTING"       -> {"ACKNOWLEDGED", "UNKNOWN", "REJECTED", "CANCEL_PENDING"}
       [] s = "ACKNOWLEDGED"     -> {"OPEN", "CANCEL_PENDING", "UNKNOWN"}
       [] s = "OPEN"             -> {"CANCEL_PENDING", "UNKNOWN"}
       [] s = "PARTIALLY_FILLED" -> {"CANCEL_PENDING", "UNKNOWN"}
       [] s = "UNKNOWN"          -> {"ACKNOWLEDGED", "OPEN", "CANCEL_PENDING"}
       [] s = "CANCEL_PENDING"   -> {"UNKNOWN"}
       [] OTHER                  -> {}]

\* Mutant: an order that timed out is released.
ReleasingOnTimeout == {"REJECTED", "EXPIRED", "UNKNOWN"}

\* The transitions that give the reservation back; a cancellation does so only
\* once it is confirmed, an UNKNOWN order never.
Releasing == {"REJECTED", "EXPIRED"}

\* The losses at which an order that was approved may no longer be sent.
LossBreach ==
  \/ Pnl(bal) <= -Limits.realizedLoss
  \/ control.high - Pnl(bal) >= Limits.drawdown
  \/ BusinessPnl(bal) <= -Limits.businessLoss
  \/ control.businessHigh - BusinessPnl(bal) >= Limits.businessDrawdown

DispatchRiskBreach == ~LedgerValid \/ LossBreach

\* What the persisted stops forbid: a pause only new risk.
Stopped(side) == control.halted \/ (control.paused /\ side = "BUY")

\* Mutant: the stops that came after the reservation are not looked at.
TransitionAllowedStill(a, s, t, ex) ==
  /\ CheckExecutor(ex, t)
  /\ updated[a] <= t
  /\ s \in Allowed[state[a]]
  /\ s = "SUBMITTING" => control.leaseExpires > t

TransitionAllowed(a, s, t, ex) ==
  /\ CheckExecutor(ex, t)
  /\ updated[a] <= t
  /\ s \in Allowed[state[a]]
  /\ s = "SUBMITTING" => /\ ~Stopped(PlanOf(a).side)
                         /\ control.leaseExpires > t

Transition(a, s, t, ex) ==
  /\ TransitionAllowed(a, s, t, ex)
  /\ ~(s = "SUBMITTING" /\ IsBuy(a) /\ DispatchRiskBreach)
  /\ state' = [state EXCEPT ![a] = s]
  /\ updated' = [updated EXCEPT ![a] = t]
  /\ IF s \in Releasing THEN Release(a) ELSE UNCHANGED <<bal, reserved, released>>
  /\ UNCHANGED <<shares, deposited, expensed, approval, filled, positionVars,
                 control, commands, lease>>

\* The dispatch that meets a breach commits a halt and leaves the intent
\* PREPARED with its reservation.
TransitionHalts(a, t, ex) ==
  /\ TransitionAllowed(a, "SUBMITTING", t, ex)
  /\ IsBuy(a)
  /\ DispatchRiskBreach
  /\ control' = [control EXCEPT !.halted = TRUE]
  /\ UNCHANGED <<ledgerVars, intentVars, positionVars, commands, lease>>

\* n is the filled quantity that the caller has reconciled.
ConfirmCancel(a, n, t) ==
  /\ n = filled[a]
  /\ state[a] = "CANCEL_PENDING"
  /\ updated[a] <= t
  /\ state' = [state EXCEPT ![a] = "CANCELLED"]
  /\ updated' = [updated EXCEPT ![a] = t]
  /\ Release(a)
  /\ UNCHANGED <<shares, deposited, expensed, approval, filled, positionVars,
                 control, commands, lease>>
-----------------------------------------------------------------------------
(* Fills and settlement.                                                   *)

\* A fill of q shares at price p, with a fee, that may take depth of a level.
FillAllowed(f, a, q, p, fee, t, ex, level) ==
  LET plan == PlanOf(a) IN
  /\ CheckExecutor(ex, t)
  /\ fills[f] = NoFill
  /\ state[a] \notin Terminal \cup {"PREPARED", NoIntent}
  /\ plan.created <= t
  /\ p % plan.tick = 0
  /\ filled[a] + q <= plan.quantity
  /\ cluster[plan.asset] \in {NoCluster, plan.cluster}
  /\ level # NoLevel => consumed[<<level, plan.side>>] + q <= Capacity[<<level, plan.side>>]
  /\ fee <= FeeFor(plan, q, p)
  /\ IF IsBuy(a)
       THEN p <= plan.limit /\ Money(q, p) + fee <= reserved[a]
       ELSE p >= plan.limit /\ q <= qty[plan.asset] /\ fee <= Proceeds(q, p)

\* The intent after its fill; what a filled order has left reserved is released.
FillIntent(a, q, t, left) ==
  LET full == filled[a] + q = PlanOf(a).quantity
  IN  /\ filled' = [filled EXCEPT ![a] = @ + q]
      /\ state' = [state EXCEPT ![a] = CASE full -> "FILLED"
                                         [] ~full /\ @ = "CANCEL_PENDING" -> "CANCEL_PENDING"
                                         [] OTHER -> "PARTIALLY_FILLED"]
      /\ updated' = [updated EXCEPT ![a] = Greatest(@, t)]
      /\ reserved' = [reserved EXCEPT ![a] = IF full THEN 0 ELSE left]
      /\ released' = IF full /\ left # 0 THEN [released EXCEPT ![a] = left] ELSE released

\* Mutant: the depth taken by the last fill replaces that of the earlier ones.
RecordFillReplaces(f, a, q, gross, fee, level) ==
  /\ fills' = [fills EXCEPT ![f] = [intent |-> a, quantity |-> q, gross |-> gross, fee |-> fee]]
  /\ consumed' = IF level = NoLevel THEN consumed
                 ELSE [consumed EXCEPT ![<<level, PlanOf(a).side>>] = q]

RecordFill(f, a, q, gross, fee, level) ==
  /\ fills' = [fills EXCEPT ![f] = [intent |-> a, quantity |-> q, gross |-> gross, fee |-> fee]]
  /\ consumed' = IF level = NoLevel THEN consumed
                 ELSE [consumed EXCEPT ![<<level, PlanOf(a).side>>] = @ + q]

ApplyBuyFill(f, a, q, p, fee, t, ex, level) ==
  LET x     == PlanOf(a).asset
      gross == Money(q, p)
      left  == reserved[a] - gross - fee
      back  == IF filled[a] + q = PlanOf(a).quantity THEN left ELSE 0
  IN  /\ FillAllowed(f, a, q, p, fee, t, ex, level)
      /\ IsBuy(a)
      /\ back # 0 => released[a] = 0
      /\ Post([cash |-> back, reserved |-> -gross - fee - back,
               inventory_cost |-> gross, fees |-> fee])
      /\ shares' = [shares EXCEPT ![x] = @ + q]
      /\ qty' = [qty EXCEPT ![x] = @ + q]
      /\ basis' = [basis EXCEPT ![x] = @ + gross]
      /\ cluster' = [cluster EXCEPT ![x] = PlanOf(a).cluster]
      /\ FillIntent(a, q, t, left)
      /\ RecordFill(f, a, q, gross, fee, level)
      /\ UpdateHighWater
      /\ UNCHANGED <<deposited, expensed, approval, settledBy, commands, lease>>

ApplySellFill(f, a, q, p, fee, t, ex, level) ==
  LET x     == PlanOf(a).asset
      gross == Proceeds(q, p)
      cost  == BasisShare(basis[x], q, qty[x])
  IN  /\ FillAllowed(f, a, q, p, fee, t, ex, level)
      /\ ~IsBuy(a)
      /\ Post([cash |-> gross - fee, inventory_cost |-> -cost,
               realized_income |-> cost - gross, fees |-> fee])
      /\ shares' = [shares EXCEPT ![x] = @ - q]
      /\ qty' = [qty EXCEPT ![x] = @ - q]
      /\ basis' = [basis EXCEPT ![x] = @ - cost]
      /\ FillIntent(a, q, t, 0)
      /\ RecordFill(f, a, q, gross, fee, level)
      /\ UpdateHighWater
      /\ UNCHANGED <<deposited, expensed, approval, cluster, settledBy, commands, lease>>

ApplyFill(f, a, q, p, fee, t, ex, level) ==
  \/ ApplyBuyFill(f, a, q, p, fee, t, ex, level)
  \/ ApplySellFill(f, a, q, p, fee, t, ex, level)

\* Mutant: only the time of the orders is looked at, not whether they are finished.
ReconciledInTime(x, t) ==
  \A a \in Approvals : (state[a] # NoIntent /\ PlanOf(a).asset = x) => updated[a] <= t

\* Every order of the asset is finished, and none of them later than t.
Reconciled(x, t) ==
  \A a \in Approvals : (state[a] # NoIntent /\ PlanOf(a).asset = x) =>
    /\ updated[a] <= t
    /\ ~Active(a)

Settle(x, payout, sid, t) ==
  LET credit == Proceeds(qty[x], payout)
  IN  /\ \A y \in Assets : settledBy[y] # sid
      /\ Reconciled(x, t)
      /\ qty[x] > 0
      /\ settledBy[x] = NoSettlement   \* primary key of settled_assets
      /\ Post([cash |-> credit, inventory_cost |-> -basis[x],
               realized_income |-> basis[x] - credit])
      /\ shares' = [shares EXCEPT ![x] = @ - qty[x]]
      /\ qty' = [qty EXCEPT ![x] = 0]
      /\ basis' = [basis EXCEPT ![x] = 0]
      /\ settledBy' = [settledBy EXCEPT ![x] = sid]
      /\ UpdateHighWater
      /\ UNCHANGED <<deposited, expensed, released, intentVars, fills, consumed, cluster,
                     commands, lease>>
=============================================================================
