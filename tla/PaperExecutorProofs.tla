------------------------- MODULE PaperExecutorProofs -------------------------
(***************************************************************************)
(* The executor implements the core: every step of a call is one of the    *)
(* core's transactions, with arguments the core allows, or changes nothing *)
(* of the journal.  What RiskEngineProofs proves of the core then holds    *)
(* while calls come, crash, are repeated and lose their lease.             *)
(***************************************************************************)
EXTENDS PaperExecutor, RiskEngineProofs, SequenceTheorems

USE DEF Times, Sides, CommandKinds

(* What every transaction of the core leaves alone.                        *)

PlansKept == \A a \in Approvals : approval[a] \in Plans => approval'[a] = approval[a]

LEMMA ExecutorOrderFrame ==
  ASSUME TypeOK, OrderStep
  PROVE  PlansKept /\ filled' = filled /\ lease' = lease
<1>1. ASSUME NEW a \in Approvals, NEW p \in Plans, NEW t \in Times, ApproveSimulated(a, p, t)
      PROVE  PlansKept /\ filled' = filled /\ lease' = lease
  BY <1>1, AbsentAssumption DEF ApproveSimulated, PlansKept, TypeOK
<1>2. ASSUME NEW a \in Approvals, NEW p \in Plans, NEW t \in Times, Prepare(a, p, t)
      PROVE  PlansKept /\ filled' = filled /\ lease' = lease
  BY <1>2 DEF Prepare, ReserveIntent, PlansKept
<1>3. ASSUME NEW a \in Approvals, NEW s \in OrderStates, NEW t \in Times, NEW ex,
             Transition(a, s, t, ex)
      PROVE  PlansKept /\ filled' = filled /\ lease' = lease
  BY <1>3 DEF Transition, PlansKept
<1>4. ASSUME NEW a \in Approvals, NEW t \in Times, NEW ex, TransitionHalts(a, t, ex)
      PROVE  PlansKept /\ filled' = filled /\ lease' = lease
  BY <1>4 DEF TransitionHalts, intentVars, PlansKept
<1>5. ASSUME NEW a \in Approvals, NEW n, NEW t \in Times, ConfirmCancel(a, n, t)
      PROVE  PlansKept /\ filled' = filled /\ lease' = lease
  BY <1>5 DEF ConfirmCancel, PlansKept
<1>6. QED
  BY <1>1, <1>2, <1>3, <1>4, <1>5 DEF OrderStep

LEMMA NextKeepsPlans ==
  ASSUME TypeOK, [Next]_vars
  PROVE  PlansKept
<1>1. CASE MoneyStep
  BY <1>1 DEF MoneyStep, Deposit, RecordOperatingCost, intentVars, PlansKept
<1>2. CASE ControlStep
  BY <1>2 DEF ControlStep, Halt, RenewControlLease, ProposeCommand, ConsumeControlCommand,
              intentVars, PlansKept
<1>3. CASE LeaseStep
  BY <1>3 DEF LeaseStep, AcquireExecutor, ReleaseExecutor, intentVars, PlansKept
<1>4. CASE OrderStep
  BY <1>4, ExecutorOrderFrame
<1>5. CASE FillStep
  BY <1>5 DEF FillStep, ApplyFill, ApplyBuyFill, ApplySellFill, PlansKept
<1>6. CASE SettleStep
  BY <1>6 DEF SettleStep, Settle, intentVars, PlansKept
<1>7. CASE UNCHANGED vars
  BY <1>7 DEF vars, intentVars, PlansKept
<1>8. QED
  BY <1>1, <1>2, <1>3, <1>4, <1>5, <1>6, <1>7 DEF Next
-----------------------------------------------------------------------------
(* The inductive invariant: what a call remembers is of the type its next  *)
(* transaction takes.                                                      *)

ExecutePcs == {"read", "check", "submit", "acknowledge", "open", "walk", "fill"}
Entries == [level : Levels, price : 1 .. One]

CallRecords ==
  [pc : ExecutePcs \cup {"cancel", "confirm", "leave"}, intent : Approvals, now : Times,
   own : BOOLEAN, epoch : 0 .. MaxEpoch, book : Seq(Entries), shift : Nat,
   then : {"submit", "open", "walk"}, next : Nat \ {0}, left : Int, take : Nat]

CallsTyped == calls \in [Owners -> CallRecords \cup {Idle}]

\* A call is of an approved plan and an effective time of the clock; one that
\* may use its token has one; a fill takes some of what is left, at a price.
CallOK(o) ==
  Running(o) =>
    /\ EffectiveTime(o) \in Times
    /\ CallPlan(o) \in Plans
    /\ calls[o].own \/ calls[o].pc \in ExecutePcs => calls[o].epoch >= 1
    /\ calls[o].left <= CallPlan(o).quantity
    /\ At(o, "fill") => /\ calls[o].next <= Len(calls[o].book)
                        /\ Price(o) \in 1 .. One
                        /\ calls[o].take \in 1 .. calls[o].left

LeaseBounded ==
  /\ lease.epoch <= MaxEpoch
  /\ lease.owner \in Owners => lease.epoch >= 1

FilledBounded == \A a \in Approvals : filled[a] <= MaxQuantity

CallInv == CallsTyped /\ LeaseBounded /\ FilledBounded /\ \A o \in Owners : CallOK(o)

LEMMA NextBounds ==
  ASSUME TypeOK, LeaseBounded, FilledBounded, [Next]_vars
  PROVE  LeaseBounded' /\ FilledBounded'
<1>1. CASE LeaseStep
  <2>1. ASSUME NEW o \in Owners, NEW t \in Times, NEW ttl \in 1 .. MaxTtl,
               lease.epoch < MaxEpoch, AcquireExecutor(o, t, ttl)
        PROVE  LeaseBounded' /\ FilledBounded'
    <3>1. EpochFor(o, t) >= 1 /\ EpochFor(o, t) <= MaxEpoch
      BY <2>1, InputsAssumption DEF EpochFor, TypeOK, LeaseBounded
    <3>2. QED
      BY <2>1, <3>1 DEF AcquireExecutor, LeaseBounded, FilledBounded, intentVars
  <2>2. ASSUME NEW ex \in Executors, NEW t \in Times, ReleaseExecutor(ex, t)
        PROVE  LeaseBounded' /\ FilledBounded'
    BY <2>2 DEF ReleaseExecutor, LeaseBounded, FilledBounded, intentVars, TypeOK
  <2>3. QED
    BY <1>1, <2>1, <2>2 DEF LeaseStep
<1>2. CASE FillStep
  <2>1. PICK f \in Trades, a \in Approvals, q \in 1 .. MaxQuantity, p \in 1 .. One,
             fee \in 0 .. MaxFee, t \in Times, ex \in OptionalExecutors,
             l \in Levels \cup {NoLevel} :
          ApplyFill(f, a, q, p, fee, t, ex, l)
    BY <1>2 DEF FillStep
  <2>2. /\ FillAllowed(f, a, q, p, fee, t, ex, l)
        /\ filled' = [filled EXCEPT ![a] = @ + q]
        /\ lease' = lease
    BY <2>1 DEF ApplyFill, ApplyBuyFill, ApplySellFill, FillIntent
  <2>3. /\ PlanOf(a) \in Plans
        /\ PlanOf(a).quantity \in Nat
        /\ filled[a] + q <= PlanOf(a).quantity
    BY <2>2, FillFacts
  <2>4. PlanOf(a).quantity <= MaxQuantity
    BY <2>3, FillBoundsAssumption
  <2>5. filled[a] + q <= MaxQuantity
    BY <2>3, <2>4, InputsAssumption DEF TypeOK
  <2>6. QED
    BY <2>2, <2>5 DEF LeaseBounded, FilledBounded, TypeOK
<1>3. CASE MoneyStep \/ ControlStep \/ OrderStep \/ SettleStep
  <2>1. filled' = filled /\ lease' = lease
    <3>1. CASE MoneyStep
      BY <3>1 DEF MoneyStep, Deposit, RecordOperatingCost, intentVars
    <3>2. CASE ControlStep
      BY <3>2 DEF ControlStep, Halt, RenewControlLease, ProposeCommand, ConsumeControlCommand,
                  intentVars
    <3>3. CASE OrderStep
      BY <3>3, ExecutorOrderFrame
    <3>4. CASE SettleStep
      BY <3>4 DEF SettleStep, Settle, intentVars
    <3>5. QED
      BY <1>3, <3>1, <3>2, <3>3, <3>4
  <2>2. QED
    BY <2>1 DEF LeaseBounded, FilledBounded
<1>4. CASE UNCHANGED vars
  BY <1>4 DEF vars, intentVars, LeaseBounded, FilledBounded
<1>5. QED
  BY <1>1, <1>2, <1>3, <1>4 DEF Next
-----------------------------------------------------------------------------
(* Refinement: a step of a call is a transaction of the core, or none.     *)

\* The token of a call that executes, or that holds a lease, is one of the core's.
LEMMA TokenTyped ==
  ASSUME CallInv, NEW o \in Owners, Running(o), calls[o].own \/ calls[o].pc \in ExecutePcs
  PROVE  Token(o) \in Executors
<1>1. calls[o] \in CallRecords
  BY DEF CallInv, CallsTyped, Running
<1>2. calls[o].epoch \in 1 .. MaxEpoch
  BY <1>1, InputsAssumption DEF CallInv, CallOK, CallRecords
<1>3. QED
  BY <1>2 DEF Token, Executors

LEMMA RunningTyped ==
  ASSUME CallInv, NEW o \in Owners, calls[o].pc # "idle"
  PROVE  /\ Running(o)
         /\ calls[o] \in CallRecords
         /\ calls[o].intent \in Approvals
         /\ calls[o].now \in Times
         /\ EffectiveTime(o) \in Times
         /\ CallPlan(o) \in Plans
<1>1. Running(o)
  BY DEF Running, Idle
<1>2. calls[o] \in CallRecords
  BY <1>1 DEF CallInv, CallsTyped, Running
<1>3. QED
  BY <1>1, <1>2 DEF CallInv, CallOK, CallRecords

LEMMA CallStartRefines ==
  ASSUME TypeOK, CallInv, CallStarts
  PROVE  [Next]_vars
<1>1. ASSUME NEW o \in Owners, NEW a \in Approvals, NEW t \in Times, NEW b, NEW shift,
             ExecuteAlone(o, a, t, b, shift)
      PROVE  LeaseStep
  <2>1. MaxTtl \in 1 .. MaxTtl
    BY TimeAssumption, OwnLeaseAssumption
  <2>2. QED
    BY <1>1, <2>1 DEF ExecuteAlone, LeaseStep
<1>2. ASSUME NEW o \in Owners, NEW a \in Approvals, NEW t \in Times, NEW b, NEW shift,
             ExecuteUnderLease(o, a, t, b, shift) \/ Cancel(o, a, t)
      PROVE  UNCHANGED vars
  BY <1>2 DEF ExecuteUnderLease, Cancel
<1>3. QED
  BY <1>1, <1>2 DEF CallStarts, Next

LEMMA DispatchRefines ==
  ASSUME TypeOK, CallInv, NEW o \in Owners, ReadExpired(o) \/ Dispatch(o)
  PROVE  OrderStep
<1>1. calls[o].pc \in ExecutePcs
  BY DEF ReadExpired, Dispatch, Dispatching, At, Stage, ExecutePcs
<1>2. /\ calls[o].intent \in Approvals
      /\ calls[o].now \in Times /\ EffectiveTime(o) \in Times
      /\ Token(o) \in Executors
  BY <1>1, RunningTyped, TokenTyped DEF ExecutePcs
<1>3. Token(o) \in OptionalExecutors
  BY <1>2 DEF OptionalExecutors
<1>4. CASE ReadExpired(o)
  <2>1. "EXPIRED" \in OrderStates
    BY DEF OrderStates, Terminal
  <2>2. QED
    BY <1>2, <1>3, <1>4, <2>1 DEF ReadExpired, OrderStep
<1>5. CASE Dispatch(o)
  <2>1. Stage[calls[o].pc] \in OrderStates /\ StageTime(o) \in Times
    BY <1>2, <1>5 DEF Dispatch, Dispatching, Stage, StageTime, OrderStates
  <2>2. QED
    BY <1>2, <1>3, <1>5, <2>1 DEF Dispatch, OrderStep
<1>6. QED
  BY <1>4, <1>5

\* What a fill of the executor takes is within the bounds of the core.
LEMMA FillArguments ==
  ASSUME CallInv, NEW o \in Owners, At(o, "fill")
  PROVE  /\ Trade(o) \in Trades
         /\ calls[o].take \in 1 .. MaxQuantity
         /\ calls[o].take <= calls[o].left
         /\ Price(o) \in 1 .. One
         /\ Fee(o) \in 0 .. MaxFee
         /\ Level(o) \in Levels
<1>1. /\ calls[o] \in CallRecords
      /\ calls[o].intent \in Approvals
      /\ CallPlan(o) \in Plans
      /\ Running(o)
  BY RunningTyped DEF At
<1>2. /\ calls[o].book \in Seq(Entries)
      /\ calls[o].next \in 1 .. Len(calls[o].book)
      /\ Price(o) \in 1 .. One
      /\ calls[o].take \in 1 .. calls[o].left
      /\ calls[o].left \in Int
      /\ calls[o].left <= CallPlan(o).quantity
  BY <1>1 DEF CallInv, CallOK, CallRecords
<1>3. calls[o].book[calls[o].next] \in Entries
  BY <1>2
<1>4. Level(o) \in Levels
  BY <1>3 DEF Level, Entries
<1>5. Trade(o) \in Trades
  BY <1>1, <1>4, TradesAssumption DEF Trade
<1>6. PlanOK(CallPlan(o)) /\ CallPlan(o).quantity \in Nat
  BY <1>1, PlansAssumption DEF PlanOK
<1>7. calls[o].take \in 1 .. CallPlan(o).quantity
  BY <1>2, <1>6
<1>8. CallPlan(o).quantity <= MaxQuantity /\ Fee(o) <= MaxFee
  BY <1>1, <1>2, <1>7, FillBoundsAssumption DEF Fee
<1>9. Fee(o) \in Nat
  <2>1. calls[o].take \in Nat /\ Price(o) \in Nat /\ Price(o) <= One
    BY <1>2, <1>6, <1>7, OneAssumption
  <2>2. QED
    BY <1>6, <2>1, FeeForNat DEF Fee
<1>10. QED
  BY <1>2, <1>4, <1>5, <1>6, <1>7, <1>8, <1>9, InputsAssumption

LEMMA FillRefines ==
  ASSUME TypeOK, CallInv, NEW o \in Owners, Fill(o)
  PROVE  FillStep
<1>1. At(o, "fill")
  BY DEF Fill
<1>2. /\ calls[o].intent \in Approvals /\ EffectiveTime(o) \in Times
      /\ Token(o) \in OptionalExecutors
  BY <1>1, RunningTyped, TokenTyped DEF At, ExecutePcs, OptionalExecutors
<1>3. Level(o) \in Levels \cup {NoLevel}
  BY <1>1, FillArguments
<1>4. QED
  BY <1>1, <1>2, <1>3, FillArguments DEF Fill, FillStep

LEMMA CancelRefines ==
  ASSUME TypeOK, CallInv, NEW o \in Owners, CancelRequest(o) \/ CancelConfirm(o)
  PROVE  [Next]_vars
<1>1. calls[o].pc \in {"cancel", "confirm"}
  BY DEF CancelRequest, CancelConfirm, At
<1>2. calls[o].intent \in Approvals /\ calls[o].now \in Times
  BY <1>1, RunningTyped
<1>3. CASE CancelRequest(o)
  <2>1. "CANCEL_PENDING" \in OrderStates /\ NoExecutor \in OptionalExecutors
    BY DEF OrderStates, OptionalExecutors
  <2>2. \/ UNCHANGED vars
        \/ Transition(calls[o].intent, "CANCEL_PENDING", calls[o].now, NoExecutor)
    BY <1>3 DEF CancelRequest
  <2>3. QED
    BY <1>2, <2>1, <2>2 DEF OrderStep, Next
<1>4. CASE CancelConfirm(o)
  <2>1. ConfirmCancel(calls[o].intent, calls[o].take, calls[o].now)
    BY <1>4 DEF CancelConfirm
  <2>2. calls[o].take \in 0 .. MaxQuantity
    BY <1>2, <2>1 DEF ConfirmCancel, CallInv, FilledBounded, TypeOK
  <2>3. QED
    BY <1>2, <2>1, <2>2 DEF OrderStep, Next
<1>5. QED
  BY <1>3, <1>4

LEMMA ReturnRefines ==
  ASSUME TypeOK, CallInv, NEW o \in Owners, Return(o)
  PROVE  [Next]_vars
<1>1. calls[o].pc = "leave"
  BY DEF Return, At
<1>2. calls[o].now \in Times /\ Running(o)
  BY <1>1, RunningTyped
<1>3. CASE UNCHANGED vars
  BY <1>3
<1>4. CASE calls[o].own /\ ReleaseExecutor(Token(o), calls[o].now)
  BY <1>2, <1>4, TokenTyped DEF LeaseStep, Next
<1>5. QED
  BY <1>3, <1>4 DEF Return

LEMMA OthersRefine ==
  ASSUME OthersStep
  PROVE  [Next]_vars
<1>1. CASE MoneyStep \/ ControlStep \/ SettleStep
  BY <1>1 DEF Next
<1>2. ASSUME NEW a \in Approvals, NEW p \in Plans, NEW t \in Times,
             ApproveSimulated(a, p, t) \/ Prepare(a, p, t)
      PROVE  Next
  BY <1>2 DEF OrderStep, Next
<1>3. ASSUME NEW o \in Owners, NEW t \in Times, lease.epoch < MaxEpoch,
             AcquireExecutor(o, t, MaxTtl)
      PROVE  Next
  <2>1. MaxTtl \in 1 .. MaxTtl
    BY TimeAssumption, OwnLeaseAssumption
  <2>2. QED
    BY <1>3, <2>1 DEF LeaseStep, Next
<1>4. QED
  BY <1>1, <1>2, <1>3 DEF OthersStep

LEMMA StepRefines ==
  ASSUME TypeOK, CallInv, [ExecutorNext]_callVars
  PROVE  [Next]_vars
<1>1. CASE CallStarts
  BY <1>1, CallStartRefines
<1>2. ASSUME NEW o \in Owners, CallStep(o)
      PROVE  [Next]_vars
  <2>1. CASE ReadExpired(o) \/ Dispatch(o)
    BY <2>1, DispatchRefines DEF Next
  <2>2. CASE Fill(o)
    BY <2>2, FillRefines DEF Next
  <2>3. CASE CancelRequest(o) \/ CancelConfirm(o)
    BY <2>3, CancelRefines
  <2>4. CASE Return(o)
    BY <2>4, ReturnRefines
  <2>5. CASE Read(o) \/ Check(o) \/ Walk(o) \/ Raise(o)
    BY <2>5 DEF Read, Check, Walk, Raise, Leave
  <2>6. QED
    BY <1>2, <2>1, <2>2, <2>3, <2>4, <2>5 DEF CallStep
<1>3. ASSUME NEW o \in Owners, Crash(o)
      PROVE  [Next]_vars
  BY <1>3 DEF Crash
<1>4. CASE OthersStep
  BY <1>4, OthersRefine
<1>5. CASE UNCHANGED callVars
  BY <1>5 DEF callVars
<1>6. QED
  BY <1>1, <1>2, <1>3, <1>4, <1>5 DEF ExecutorNext
-----------------------------------------------------------------------------
(* The invariant is kept: a step changes one call, and no approved plan.   *)

\* Process o made a step of its call, and its call is as it should be.
Moved(o) ==
  /\ calls' = [calls EXCEPT ![o] = calls'[o]]
  /\ calls'[o] \in CallRecords \cup {Idle}
  /\ CallOK(o)'

\* A new call of an approved plan, with a token if it executes.
LEMMA CallMoves ==
  ASSUME TypeOK, CallInv, PlansKept, NEW o \in Owners, NEW a \in Approvals, state[a] # NoIntent,
         NEW t \in Times, t + Latency \in Times, NEW pc \in {"read", "cancel"},
         NEW own \in BOOLEAN, NEW e \in 0 .. MaxEpoch, own \/ pc = "read" => e >= 1,
         NEW book \in Seq(Entries), NEW shift \in Nat, NEW n \in Nat,
         calls' = [calls EXCEPT ![o] = Call(pc, a, t, own, e, book, shift, n)]
  PROVE  Moved(o)
<1>1. approval[a] \in Plans /\ approval'[a] = approval[a]
  BY DEF TypeOK, PlansKept
<1>2. approval[a].quantity \in Nat
  BY <1>1, PlansAssumption DEF PlanOK
<1>3. calls'[o] = Call(pc, a, t, own, e, book, shift, n)
  BY DEF CallInv, CallsTyped
<1>4. calls'[o] \in CallRecords
  <2>1. pc \in ExecutePcs \cup {"cancel", "confirm", "leave"} /\ 1 \in Nat \ {0} /\ 0 \in Int
    BY DEF ExecutePcs
  <2>2. QED
    BY <1>3, <2>1 DEF Call, CallRecords
<1>5. /\ calls'[o].intent = a /\ calls'[o].now = t /\ calls'[o].own = own
      /\ calls'[o].epoch = e /\ calls'[o].pc = pc /\ calls'[o].left = 0
  BY <1>3 DEF Call
<1>6. CallOK(o)'
  BY <1>1, <1>2, <1>5 DEF CallOK, EffectiveTime, CallPlan, PlanOf, At, ExecutePcs
<1>7. QED
  BY <1>3, <1>4, <1>6 DEF Moved

LEMMA ExecuteMoves ==
  ASSUME TypeOK, CallInv, PlansKept, NEW o \in Owners, NEW a \in Approvals, NEW t \in Times,
         t + Latency \in Times, NEW b \in Books, NEW shift \in {0, AdverseTicks},
         ExecuteAlone(o, a, t, b, shift) \/ ExecuteUnderLease(o, a, t, b, shift)
  PROVE  Moved(o)
<1>1. b \in Seq(Entries)
  BY BooksAssumption DEF Entries
<1>2. shift \in Nat
  BY ExecutorAssumption
<1>3. state[a] # NoIntent
  BY DEF ExecuteAlone, ExecuteUnderLease
<1>4. ASSUME NEW own \in BOOLEAN, NEW e \in 1 .. MaxEpoch,
             calls' = [calls EXCEPT ![o] = Call("read", a, t, own, e, b, shift, 0)]
      PROVE  Moved(o)
  <2>1. e \in 0 .. MaxEpoch /\ e >= 1
    BY InputsAssumption
  <2>2. QED
    BY <1>1, <1>2, <1>3, <1>4, <2>1, CallMoves
<1>5. CASE ExecuteAlone(o, a, t, b, shift)
  <2>1. EpochFor(o, t) \in 1 .. MaxEpoch
    BY <1>5, InputsAssumption DEF ExecuteAlone, EpochFor, TypeOK, CallInv, LeaseBounded
  <2>2. QED
    BY <1>4, <1>5, <2>1 DEF ExecuteAlone
<1>6. CASE ExecuteUnderLease(o, a, t, b, shift)
  <2>1. lease.owner = o
    BY <1>6, AbsentAssumption DEF ExecuteUnderLease, CheckExecutor, NoExecutor
  <2>2. lease.epoch \in 1 .. MaxEpoch
    BY <2>1, InputsAssumption DEF TypeOK, CallInv, LeaseBounded
  <2>3. QED
    BY <1>4, <1>6, <2>2 DEF ExecuteUnderLease
<1>7. QED
  BY <1>5, <1>6

LEMMA CancelMoves ==
  ASSUME TypeOK, CallInv, PlansKept, NEW o \in Owners, NEW a \in Approvals, NEW t \in Times,
         t + Latency \in Times, Cancel(o, a, t)
  PROVE  Moved(o)
<1>1. filled[a] \in Nat /\ 0 \in 0 .. MaxEpoch
  BY InputsAssumption DEF TypeOK
<1>2. <<>> \in Seq(Entries)
  BY EmptySeq
<1>3. state[a] # NoIntent
  BY DEF Cancel
<1>4. calls' = [calls EXCEPT ![o] = Call("cancel", a, t, FALSE, 0, <<>>, 0, filled[a])]
  BY DEF Cancel
<1>5. QED
  BY <1>1, <1>2, <1>3, <1>4, CallMoves

\* A step that moves a call to another place, with what else it remembers unchanged.
LEMMA GotoMoves ==
  ASSUME CallInv, PlansKept, NEW o \in Owners, calls[o].pc # "idle",
         NEW pc \in (ExecutePcs \ {"fill"}) \cup {"cancel", "confirm", "leave"}, Goto(o, pc),
         pc \in ExecutePcs => calls[o].pc \in ExecutePcs
  PROVE  Moved(o)
<1>1. /\ Running(o) /\ calls[o] \in CallRecords /\ calls[o].intent \in Approvals
      /\ CallPlan(o) \in Plans
  BY RunningTyped
<1>2. calls'[o] = [calls[o] EXCEPT !.pc = pc] /\ calls' = [calls EXCEPT ![o] = calls'[o]]
  BY DEF Goto, CallInv, CallsTyped
<1>3. calls'[o] \in CallRecords
  BY <1>1, <1>2 DEF CallRecords
<1>4. CallPlan(o)' = CallPlan(o)
  BY <1>1, <1>2 DEF CallPlan, PlanOf, PlansKept, CallRecords
<1>5. CallOK(o)
  BY DEF CallInv
<1>6. CallOK(o)'
  BY <1>1, <1>2, <1>4, <1>5 DEF CallOK, EffectiveTime, At, CallRecords, ExecutePcs
<1>7. QED
  BY <1>2, <1>3, <1>6 DEF Moved

\* The order is read: what is left is no more than its quantity.
LEMMA ReadMoves ==
  ASSUME TypeOK, CallInv, PlansKept, NEW o \in Owners, Read(o)
  PROVE  Moved(o)
<1> DEFINE a == calls[o].intent
           left == CallPlan(o).quantity - filled[a]
<1>1. /\ Running(o) /\ calls[o] \in CallRecords /\ a \in Approvals
      /\ CallPlan(o) \in Plans
  BY RunningTyped DEF Read, At
<1>2. PICK then \in {"submit", "open", "walk"} :
        calls' = [calls EXCEPT ![o].pc = "check", ![o].left = left, ![o].then = then]
  BY DEF Read
<1>3. calls'[o] = [calls[o] EXCEPT !.pc = "check", !.left = left, !.then = then]
  BY <1>2 DEF CallInv, CallsTyped
<1>4. left \in Int /\ left <= CallPlan(o).quantity
  BY <1>1, PlansAssumption DEF PlanOK, TypeOK
<1>5. calls'[o] \in CallRecords
  BY <1>1, <1>3, <1>4 DEF CallRecords, ExecutePcs
<1>6. CallPlan(o)' = CallPlan(o)
  BY <1>1, <1>3 DEF CallPlan, PlanOf, PlansKept, CallRecords
<1>7. CallOK(o) /\ calls[o].pc = "read"
  BY DEF CallInv, Read, At
<1>8. CallOK(o)'
  BY <1>1, <1>3, <1>4, <1>6, <1>7 DEF CallOK, EffectiveTime, At, CallRecords, ExecutePcs
<1>9. QED
  BY <1>2, <1>3, <1>5, <1>8 DEF Moved

\* What is taken of a level is what is left of the order, or of the level.
LEMMA WalkMoves ==
  ASSUME TypeOK, CallInv, PlansKept, NEW o \in Owners, Walk(o)
  PROVE  Moved(o)
<1>1. /\ Running(o) /\ calls[o] \in CallRecords /\ calls[o].intent \in Approvals
      /\ CallPlan(o) \in Plans /\ calls[o].pc = "walk"
  BY RunningTyped DEF Walk, At
<1>2. CASE WalkEnds(o)
  <2>1. Goto(o, "leave") /\ "leave" \notin ExecutePcs
    BY <1>2 DEF Walk, ExecutePcs
  <2>2. QED
    BY <1>1, <2>1, GotoMoves
<1>3. CASE ~WalkEnds(o) /\ Advance(o)
  <2>1. calls'[o] = [calls[o] EXCEPT !.pc = "walk", !.next = @ + 1]
    BY <1>3 DEF Advance, CallInv, CallsTyped
  <2>2. calls'[o] \in CallRecords
    <3>1. calls[o].next + 1 \in Nat \ {0}
      BY <1>1 DEF CallRecords
    <3>2. QED
      BY <1>1, <2>1, <3>1 DEF CallRecords, ExecutePcs
  <2>3. CallPlan(o)' = CallPlan(o)
    BY <1>1, <2>1 DEF CallPlan, PlanOf, PlansKept, CallRecords
  <2>4. CallOK(o)
    BY DEF CallInv
  <2>5. CallOK(o)'
    BY <1>1, <2>1, <2>3, <2>4 DEF CallOK, EffectiveTime, At, CallRecords, ExecutePcs
  <2>6. calls' = [calls EXCEPT ![o] = calls'[o]]
    BY <1>3, <2>1 DEF Advance, CallInv, CallsTyped
  <2>7. QED
    BY <2>2, <2>5, <2>6 DEF Moved
<1>4. ASSUME ~WalkEnds(o), Price(o) \in 1 .. One, Available(o) # 0,
             calls' = [calls EXCEPT ![o].pc = "fill",
                                    ![o].take = Least(calls[o].left, Available(o))]
      PROVE  Moved(o)
  <2> DEFINE take == Least(calls[o].left, Available(o))
  <2>1. calls[o].left > 0 /\ calls[o].next <= Len(calls[o].book) /\ calls[o].left \in Int
    BY <1>1, <1>4, LenProperties DEF WalkEnds, CallRecords
  <2>2. Level(o) \in Levels
    <3>1. calls[o].book \in Seq(Entries) /\ calls[o].next \in Nat \ {0}
      BY <1>1 DEF CallRecords
    <3>2. calls[o].book[calls[o].next] \in Entries
      BY <2>1, <3>1
    <3>3. QED
      BY <3>2 DEF Level, Entries
  <2>3. CallPlan(o).side \in Sides
    BY <1>1, PlansAssumption DEF PlanOK
  <2>4. Available(o) \in Nat /\ Available(o) > 0
    <3>1. <<Level(o), CallPlan(o).side>> \in Levels \X Sides
      BY <2>2, <2>3
    <3>2. /\ Capacity[<<Level(o), CallPlan(o).side>>] \in Nat
          /\ consumed[<<Level(o), CallPlan(o).side>>] \in Nat
      BY <3>1, CapacityAssumption DEF TypeOK
    <3>3. Available(o) \in Nat
      BY <3>2 DEF Available, Greatest
    <3>4. QED
      BY <1>4, <3>3
  <2>5. take \in 1 .. calls[o].left /\ take \in Nat
    BY <2>1, <2>4 DEF Least
  <2>6. calls'[o] = [calls[o] EXCEPT !.pc = "fill", !.take = take]
    BY <1>4 DEF CallInv, CallsTyped
  <2>7. calls'[o] \in CallRecords
    BY <1>1, <2>5, <2>6 DEF CallRecords, ExecutePcs
  <2>8. CallPlan(o)' = CallPlan(o)
    BY <1>1, <2>6 DEF CallPlan, PlanOf, PlansKept, CallRecords
  <2>9. Price(o)' = Price(o)
    BY <1>1, <2>6, <2>8 DEF Price, CallRecords
  <2>10. CallOK(o)
    BY DEF CallInv
  <2>11. CallOK(o)'
    <3>1. /\ calls'[o].next = calls[o].next /\ calls'[o].book = calls[o].book
          /\ calls'[o].left = calls[o].left /\ calls'[o].take = take
          /\ calls'[o].now = calls[o].now /\ calls'[o].epoch = calls[o].epoch
      BY <1>1, <2>6 DEF CallRecords
    <3>2. /\ EffectiveTime(o)' \in Times
          /\ CallPlan(o)' \in Plans
          /\ calls'[o].epoch >= 1
          /\ calls'[o].left <= CallPlan(o)'.quantity
      BY <1>1, <2>8, <2>10, <3>1 DEF CallOK, EffectiveTime, ExecutePcs
    <3>3. /\ calls'[o].next <= Len(calls'[o].book)
          /\ Price(o)' \in 1 .. One
          /\ calls'[o].take \in 1 .. calls'[o].left
      BY <1>4, <2>1, <2>5, <2>9, <3>1
    <3>4. QED
      BY <3>2, <3>3 DEF CallOK
  <2>12. calls' = [calls EXCEPT ![o] = calls'[o]]
    BY <1>4, <2>6 DEF CallInv, CallsTyped
  <2>13. QED
    BY <2>7, <2>11, <2>12 DEF Moved
<1>5. QED
  BY <1>2, <1>3, <1>4 DEF Walk

LEMMA ExecutorFillMoves ==
  ASSUME CallInv, PlansKept, NEW o \in Owners, Fill(o)
  PROVE  Moved(o)
<1> DEFINE left == calls[o].left - calls[o].take
<1>1. /\ Running(o) /\ calls[o] \in CallRecords /\ calls[o].intent \in Approvals
      /\ CallPlan(o) \in Plans /\ calls[o].pc = "fill"
  BY RunningTyped DEF Fill, At
<1>2. CallOK(o) /\ calls[o].take \in 1 .. calls[o].left /\ calls[o].left \in Int
  BY <1>1 DEF CallInv, CallOK, At, CallRecords
<1>3. calls'[o] = [calls[o] EXCEPT !.pc = "walk", !.next = @ + 1, !.left = left]
  BY <1>1 DEF Fill, CallInv, CallsTyped
<1>4. calls'[o] \in CallRecords
  <2>1. calls[o].next + 1 \in Nat \ {0} /\ left \in Int
    BY <1>1, <1>2 DEF CallRecords
  <2>2. QED
    BY <1>1, <1>3, <2>1 DEF CallRecords, ExecutePcs
<1>5. CallPlan(o)' = CallPlan(o) /\ CallPlan(o).quantity \in Nat
  BY <1>1, <1>3, PlansAssumption DEF CallPlan, PlanOf, PlansKept, CallRecords, PlanOK
<1>6. CallOK(o)'
  BY <1>1, <1>2, <1>3, <1>5 DEF CallOK, EffectiveTime, At, CallRecords, ExecutePcs
<1>7. calls' = [calls EXCEPT ![o] = calls'[o]]
  BY <1>1, <1>3 DEF Fill, CallInv, CallsTyped
<1>8. QED
  BY <1>4, <1>6, <1>7 DEF Moved

LEMMA EndMoves ==
  ASSUME CallInv, NEW o \in Owners, Return(o) \/ Crash(o)
  PROVE  Moved(o)
<1>1. calls' = [calls EXCEPT ![o] = Idle]
  BY DEF Return, Crash
<1>2. calls'[o] = Idle
  BY <1>1 DEF CallInv, CallsTyped
<1>3. QED
  BY <1>1, <1>2 DEF Moved, CallOK, Running

\* Every step of a process is a move of its call.
LEMMA StepMoves ==
  ASSUME TypeOK, CallInv, PlansKept, NEW o \in Owners, CallStep(o) \/ Crash(o)
  PROVE  Moved(o)
<1>1. CASE Read(o)
  BY <1>1, ReadMoves
<1>2. CASE Walk(o)
  BY <1>2, WalkMoves
<1>3. CASE Fill(o)
  BY <1>3, ExecutorFillMoves
<1>4. CASE Return(o) \/ Crash(o)
  BY <1>4, EndMoves
<1>5. CASE Raise(o)
  BY <1>5, GotoMoves, RunningTyped
     DEF Raise, Leave, Running, CallInv, CallsTyped, CallRecords, ExecutePcs, Idle
<1>6. CASE ReadExpired(o) \/ Dispatch(o)
  BY <1>6, GotoMoves DEF ReadExpired, Dispatch, Dispatching, At, Stage, AfterStage, ExecutePcs
<1>7. CASE CancelRequest(o) \/ CancelConfirm(o)
  BY <1>7, GotoMoves DEF CancelRequest, CancelConfirm, At, ExecutePcs
<1>8. CASE Check(o)
  <2>1. calls[o].pc = "check" /\ calls[o].then \in {"submit", "open", "walk"}
    BY <1>8, RunningTyped DEF Check, At, CallRecords
  <2>2. QED
    BY <1>8, <2>1, GotoMoves DEF Check, ExecutePcs
<1>9. QED
  BY <1>1, <1>2, <1>3, <1>4, <1>5, <1>6, <1>7, <1>8 DEF CallStep

\* A call that makes no step is as it was.
LEMMA CallKept ==
  ASSUME CallInv, PlansKept, NEW o \in Owners, calls'[o] = calls[o]
  PROVE  CallOK(o)'
<1>1. CASE ~Running(o)
  BY <1>1 DEF CallOK, Running
<1>2. CASE Running(o)
  <2>1. calls[o] \in CallRecords /\ CallOK(o)
    BY <1>2 DEF CallInv, CallsTyped, Running
  <2>2. CallPlan(o)' = CallPlan(o)
    BY <1>2, <2>1 DEF CallOK, CallPlan, PlanOf, PlansKept, CallRecords
  <2>3. Price(o)' = Price(o)
    BY <2>2 DEF Price
  <2>4. QED
    BY <2>1, <2>2, <2>3 DEF CallOK, Running, At, EffectiveTime
<1>3. QED
  BY <1>1, <1>2

LEMMA CallInvKept ==
  ASSUME TypeOK, CallInv, [ExecutorNext]_callVars
  PROVE  CallInv'
<1>1. [Next]_vars
  BY StepRefines
<1>2. PlansKept /\ LeaseBounded' /\ FilledBounded'
  BY <1>1, NextKeepsPlans, NextBounds DEF CallInv
<1>3. ASSUME NEW o \in Owners, Moved(o)
      PROVE  CallInv'
  <2>1. CallsTyped'
    BY <1>3 DEF Moved, CallInv, CallsTyped
  <2>2. ASSUME NEW u \in Owners PROVE CallOK(u)'
    <3>1. CASE u = o
      BY <1>3, <3>1 DEF Moved
    <3>2. CASE u # o
      <4>1. calls'[u] = calls[u]
        BY <1>3, <3>2 DEF Moved, CallInv, CallsTyped
      <4>2. QED
        BY <1>2, <4>1, CallKept
    <3>3. QED
      BY <3>1, <3>2
  <2>3. QED
    BY <1>2, <2>1, <2>2 DEF CallInv
<1>4. CASE calls' = calls
  <2>1. CallsTyped'
    BY <1>4 DEF CallInv, CallsTyped
  <2>2. \A u \in Owners : CallOK(u)'
    BY <1>2, <1>4, CallKept
  <2>3. QED
    BY <1>2, <2>1, <2>2 DEF CallInv
<1>5. CASE CallStarts
  <2>1. PICK o \in Owners, a \in Approvals, t \in Times :
          /\ t + Latency \in Times
          /\ \/ \E b \in Books, shift \in {0, AdverseTicks} :
                  ExecuteAlone(o, a, t, b, shift) \/ ExecuteUnderLease(o, a, t, b, shift)
             \/ Cancel(o, a, t)
    BY <1>5 DEF CallStarts
  <2>2. Moved(o)
    BY <1>2, <2>1, ExecuteMoves, CancelMoves
  <2>3. QED
    BY <1>3, <2>2
<1>6. CASE \E o \in Owners : CallStep(o) \/ Crash(o)
  BY <1>2, <1>3, <1>6, StepMoves
<1>7. QED
  BY <1>4, <1>5, <1>6 DEF ExecutorNext, OthersStep, callVars

LEMMA ExecutorInitInv == ExecutorInit => TypeOK /\ CallInv
<1> SUFFICES ASSUME ExecutorInit PROVE TypeOK /\ CallInv
  OBVIOUS
<1>1. TypeOK
  BY InitType DEF ExecutorInit
<1>2. QED
  BY <1>1, AbsentAssumption, InputsAssumption
     DEF ExecutorInit, Init, CallInv, CallsTyped, CallOK, Running, LeaseBounded, FilledBounded

LEMMA ExecutorStepInv == TypeOK /\ CallInv /\ [ExecutorNext]_callVars => TypeOK' /\ CallInv'
BY StepRefines, NextType, CallInvKept

\* The executor implements the core: a behaviour of its calls, whatever their
\* interleaving, crashes and repetitions, is a behaviour of the journal's
\* transactions guarded by the risk engine.
THEOREM ExecutorImplementsCore == ExecutorSpec => ImplementsCore
<1>1. ExecutorInit => Init
  BY DEF ExecutorInit
<1>2. TypeOK /\ CallInv /\ [ExecutorNext]_callVars => [Next]_vars
  BY StepRefines
<1>3. QED
  BY <1>1, <1>2, ExecutorInitInv, ExecutorStepInv, PTL DEF ExecutorSpec, ImplementsCore, Spec

\* The books stay valid under the executor.
THEOREM ExecutorKeepsBooks == ExecutorSpec => []LedgerValid
BY ExecutorImplementsCore, BooksAlwaysValid, PTL DEF ImplementsCore
-----------------------------------------------------------------------------
(* What a call remembers.  A reading goes stale only when another process  *)
(* fills, which it can only do once it has taken the lease; a running call *)
(* never takes it back.                                                    *)

\* The steps that move no order.
Quiet(o) == Read(o) \/ Check(o) \/ Walk(o) \/ Raise(o) \/ Return(o) \/ Crash(o)

LEMMA QuietFrame ==
  ASSUME NEW o \in Owners, Quiet(o)
  PROVE  state' = state /\ filled' = filled
<1>1. CASE Return(o)
  BY <1>1 DEF Return, ReleaseExecutor, intentVars, vars
<1>2. CASE Read(o) \/ Check(o) \/ Walk(o) \/ Raise(o) \/ Crash(o)
  BY <1>2 DEF Read, Check, Walk, Raise, Leave, Crash, vars, intentVars
<1>3. QED
  BY <1>1, <1>2 DEF Quiet

LEMMA StartsFrame ==
  ASSUME CallStarts
  PROVE  state' = state /\ filled' = filled
<1>1. ASSUME NEW o \in Owners, NEW a \in Approvals, NEW t \in Times, NEW b, NEW shift,
             ExecuteAlone(o, a, t, b, shift)
      PROVE  state' = state /\ filled' = filled
  BY <1>1 DEF ExecuteAlone, AcquireExecutor, intentVars
<1>2. ASSUME NEW o \in Owners, NEW a \in Approvals, NEW t \in Times, NEW b, NEW shift,
             ExecuteUnderLease(o, a, t, b, shift) \/ Cancel(o, a, t)
      PROVE  state' = state /\ filled' = filled
  BY <1>2 DEF ExecuteUnderLease, Cancel, vars, intentVars
<1>3. QED
  BY <1>1, <1>2 DEF CallStarts

LEMMA OthersFrame ==
  ASSUME TypeOK, OthersStep
  PROVE  /\ filled' = filled
         /\ \A a \in Approvals : state[a] # NoIntent => state'[a] = state[a]
<1>1. CASE MoneyStep
  BY <1>1 DEF MoneyStep, Deposit, RecordOperatingCost, intentVars
<1>2. CASE ControlStep
  BY <1>2 DEF ControlStep, Halt, RenewControlLease, ProposeCommand, ConsumeControlCommand,
              intentVars
<1>3. CASE SettleStep
  BY <1>3 DEF SettleStep, Settle, intentVars
<1>4. ASSUME NEW a \in Approvals, NEW p \in Plans, NEW t \in Times,
             ApproveSimulated(a, p, t) \/ Prepare(a, p, t)
      PROVE  /\ filled' = filled
             /\ \A b \in Approvals : state[b] # NoIntent => state'[b] = state[b]
  <2>1. CASE ApproveSimulated(a, p, t)
    BY <2>1 DEF ApproveSimulated
  <2>2. CASE Prepare(a, p, t)
    BY <2>2 DEF Prepare, ReserveIntent, TypeOK
  <2>3. QED
    BY <1>4, <2>1, <2>2
<1>5. ASSUME NEW o \in Owners, NEW t \in Times, AcquireExecutor(o, t, MaxTtl)
      PROVE  filled' = filled /\ state' = state
  BY <1>5 DEF AcquireExecutor, intentVars
<1>6. QED
  BY <1>1, <1>2, <1>3, <1>4, <1>5 DEF OthersStep

\* The steps that move an order, by their effect.
LEMMA DispatchFrame ==
  ASSUME TypeOK, CallInv, NEW o \in Owners,
         ReadExpired(o) \/ Dispatch(o) \/ CancelRequest(o) \/ CancelConfirm(o)
  PROVE  /\ filled' = filled /\ lease' = lease
         /\ \A b \in Approvals : b # calls[o].intent => state'[b] = state[b]
<1>1. CASE ReadExpired(o)
  BY <1>1 DEF ReadExpired, Transition, TypeOK
<1>2. CASE Dispatch(o)
  BY <1>2 DEF Dispatch, Transition, TransitionHalts, intentVars, TypeOK
<1>3. CASE CancelRequest(o)
  BY <1>3 DEF CancelRequest, Transition, vars, intentVars, TypeOK
<1>4. CASE CancelConfirm(o)
  BY <1>4 DEF CancelConfirm, ConfirmCancel, TypeOK
<1>5. QED
  BY <1>1, <1>2, <1>3, <1>4

LEMMA FillEffect ==
  ASSUME TypeOK, CallInv, NEW o \in Owners, Fill(o)
  PROVE  /\ lease' = lease
         /\ lease.owner = o /\ lease.epoch = calls[o].epoch
         /\ filled' = [filled EXCEPT ![calls[o].intent] = @ + calls[o].take]
         /\ \A b \in Approvals : b # calls[o].intent => state'[b] = state[b]
         /\ state'[calls[o].intent] \in {"FILLED", "CANCEL_PENDING", "PARTIALLY_FILLED"}
<1> DEFINE a == calls[o].intent
<1>1. a \in Approvals
  BY RunningTyped DEF Fill, At
<1>2. ApplyFill(Trade(o), a, calls[o].take, Price(o), Fee(o), EffectiveTime(o), Token(o), Level(o))
  BY DEF Fill
<1>3. \E left : FillIntent(a, calls[o].take, EffectiveTime(o), left)
  <2>1. CASE ApplyBuyFill(Trade(o), a, calls[o].take, Price(o), Fee(o), EffectiveTime(o),
                          Token(o), Level(o))
    BY <2>1 DEF ApplyBuyFill
  <2>2. CASE ApplySellFill(Trade(o), a, calls[o].take, Price(o), Fee(o), EffectiveTime(o),
                           Token(o), Level(o))
    BY <2>2 DEF ApplySellFill
  <2>3. QED
    BY <1>2, <2>1, <2>2 DEF ApplyFill
<1>4. lease' = lease /\ CheckExecutor(Token(o), EffectiveTime(o))
  BY <1>2 DEF ApplyFill, ApplyBuyFill, ApplySellFill, FillAllowed
<1>5. lease.owner = o /\ lease.epoch = calls[o].epoch
  BY <1>4, AbsentAssumption DEF CheckExecutor, Token, NoExecutor
<1>6. /\ filled' = [filled EXCEPT ![a] = @ + calls[o].take]
      /\ \A b \in Approvals : b # a => state'[b] = state[b]
      /\ state'[a] \in {"FILLED", "CANCEL_PENDING", "PARTIALLY_FILLED"}
  BY <1>1, <1>3 DEF FillIntent, TypeOK
<1>7. QED
  BY <1>4, <1>5, <1>6

\* While a call runs its process takes no lease.
LEMMA LeaseNotRetaken ==
  ASSUME TypeOK, CallInv, [ExecutorNext]_callVars, NEW o \in Owners, Running(o), lease'.owner = o
  PROVE  lease.owner = o /\ lease'.epoch = lease.epoch
<1>1. CASE CallStarts
  <2>1. ASSUME NEW u \in Owners, NEW a \in Approvals, NEW t \in Times, NEW b, NEW shift,
               ExecuteAlone(u, a, t, b, shift)
        PROVE  FALSE
    BY <2>1 DEF ExecuteAlone, AcquireExecutor
  <2>2. ASSUME NEW u \in Owners, NEW a \in Approvals, NEW t \in Times, NEW b, NEW shift,
               ExecuteUnderLease(u, a, t, b, shift) \/ Cancel(u, a, t)
        PROVE  lease' = lease
    BY <2>2 DEF ExecuteUnderLease, Cancel, vars
  <2>3. QED
    BY <1>1, <2>1, <2>2 DEF CallStarts
<1>2. ASSUME NEW u \in Owners, CallStep(u) \/ Crash(u)
      PROVE  lease'.owner = lease.owner /\ lease'.epoch = lease.epoch
  <2>1. CASE Return(u)
    BY <2>1 DEF Return, ReleaseExecutor, vars, TypeOK
  <2>2. CASE Fill(u)
    BY <2>2, FillEffect
  <2>3. CASE ReadExpired(u) \/ Dispatch(u) \/ CancelRequest(u) \/ CancelConfirm(u)
    BY <2>3, DispatchFrame
  <2>4. CASE Read(u) \/ Check(u) \/ Walk(u) \/ Raise(u) \/ Crash(u)
    BY <2>4 DEF Read, Check, Walk, Raise, Leave, Crash, vars
  <2>5. QED
    BY <1>2, <2>1, <2>2, <2>3, <2>4 DEF CallStep
<1>3. CASE OthersStep
  <2>1. CASE MoneyStep
    BY <2>1 DEF MoneyStep, Deposit, RecordOperatingCost
  <2>2. CASE ControlStep
    BY <2>2 DEF ControlStep, Halt, RenewControlLease, ProposeCommand, ConsumeControlCommand
  <2>3. CASE SettleStep
    BY <2>3 DEF SettleStep, Settle
  <2>4. ASSUME NEW a \in Approvals, NEW p \in Plans, NEW t \in Times,
               ApproveSimulated(a, p, t) \/ Prepare(a, p, t)
        PROVE  lease' = lease
    BY <2>4 DEF ApproveSimulated, Prepare, ReserveIntent
  <2>5. ASSUME NEW u \in Owners, NEW t \in Times, ~Running(u), AcquireExecutor(u, t, MaxTtl)
        PROVE  FALSE
    BY <2>5 DEF AcquireExecutor
  <2>6. QED
    BY <1>3, <2>1, <2>2, <2>3, <2>4, <2>5 DEF OthersStep
<1>4. CASE UNCHANGED callVars
  BY <1>4 DEF callVars, vars
<1>5. QED
  BY <1>1, <1>2, <1>3, <1>4 DEF ExecutorNext

HasRead == {"check", "submit", "acknowledge", "open", "walk", "fill"}
HoldsLease(o) == lease.owner = o /\ lease.epoch = calls[o].epoch

Fresh(o) ==
  calls[o].pc \in HasRead /\ HoldsLease(o)
    => calls[o].left = CallPlan(o).quantity - filled[calls[o].intent]

LEMMA FreshOfOthers ==
  ASSUME TypeOK, CallInv, [ExecutorNext]_callVars, NEW o \in Owners, Fresh(o),
         calls'[o] = calls[o], filled' = filled \/ \E u \in Owners : u # o /\ Fill(u)
  PROVE  Fresh(o)'
<1> SUFFICES ASSUME calls[o].pc \in HasRead, HoldsLease(o)'
             PROVE  calls[o].left = CallPlan(o)'.quantity - filled'[calls[o].intent]
  BY DEF Fresh
<1>1. Running(o) /\ calls[o].intent \in Approvals /\ CallPlan(o) \in Plans
  BY RunningTyped DEF HasRead
<1>2. HoldsLease(o)
  BY <1>1, LeaseNotRetaken DEF HoldsLease
<1>3. calls[o].left = CallPlan(o).quantity - filled[calls[o].intent]
  BY <1>2 DEF Fresh
<1>4. CallPlan(o)' = CallPlan(o)
  BY <1>1, StepRefines, NextKeepsPlans DEF CallPlan, PlanOf, PlansKept
<1>5. filled' = filled
  BY <1>2, FillEffect DEF HoldsLease
<1>6. QED
  BY <1>3, <1>4, <1>5

\* Reading makes it right, a fill takes from both sides.
LEMMA FreshOfStep ==
  ASSUME TypeOK, CallInv, [ExecutorNext]_callVars, NEW o \in Owners, Fresh(o),
         CallStep(o) \/ Crash(o)
  PROVE  Fresh(o)'
<1> SUFFICES ASSUME calls'[o].pc \in HasRead, HoldsLease(o)'
             PROVE  calls'[o].left = CallPlan(o)'.quantity - filled'[calls'[o].intent]
  BY DEF Fresh
<1>1. CASE Return(o) \/ Crash(o)
  BY <1>1 DEF Return, Crash, Idle, HasRead, CallInv, CallsTyped
<1>2. CASE Raise(o) \/ ReadExpired(o) \/ CancelRequest(o) \/ CancelConfirm(o)
  <2>1. Running(o)
    BY <1>2, RunningTyped DEF Raise, ReadExpired, CancelRequest, CancelConfirm, At
  <2>2. calls'[o].pc \in {"leave", "confirm"}
    BY <1>2, <2>1 DEF Raise, Leave, ReadExpired, CancelRequest, CancelConfirm, Goto, CallInv,
                      CallsTyped, Running, CallRecords
  <2>3. QED
    BY <2>2 DEF HasRead
<1>3. ASSUME Read(o) \/ Check(o) \/ Dispatch(o) \/ Walk(o) \/ Fill(o)
      PROVE  /\ Running(o) /\ calls[o] \in CallRecords /\ calls[o].intent \in Approvals
             /\ CallPlan(o) \in Plans
             /\ calls'[o].intent = calls[o].intent /\ calls'[o].epoch = calls[o].epoch
             /\ CallPlan(o)' = CallPlan(o)
             /\ HoldsLease(o)
  <2>1. /\ Running(o) /\ calls[o] \in CallRecords /\ calls[o].intent \in Approvals
        /\ CallPlan(o) \in Plans
    BY <1>3, RunningTyped DEF Read, Check, Dispatch, Dispatching, Stage, Walk, Fill, At
  <2>2. calls'[o].intent = calls[o].intent /\ calls'[o].epoch = calls[o].epoch
    BY <1>3, <2>1 DEF Read, Check, Dispatch, Walk, Fill, Goto, Advance, CallInv, CallsTyped,
                      CallRecords
  <2>3. CallPlan(o)' = CallPlan(o)
    BY <2>1, <2>2, StepRefines, NextKeepsPlans DEF CallPlan, PlanOf, PlansKept
  <2>4. HoldsLease(o)
    BY <2>1, <2>2, LeaseNotRetaken DEF HoldsLease
  <2>5. QED
    BY <2>1, <2>2, <2>3, <2>4
<1>4. CASE Read(o)
  <2>1. calls'[o].left = CallPlan(o).quantity - filled[calls[o].intent]
    BY <1>3, <1>4 DEF Read, CallInv, CallsTyped, CallRecords
  <2>2. QED
    BY <1>3, <1>4, <2>1, QuietFrame DEF Quiet
<1>5. CASE Check(o) \/ Dispatch(o) \/ Walk(o)
  <2>1. calls'[o].left = calls[o].left /\ calls[o].pc \in HasRead
    BY <1>3, <1>5 DEF Check, Dispatch, Dispatching, Stage, Walk, Goto, Advance, At, HasRead,
                      CallInv, CallsTyped, CallRecords
  <2>2. filled' = filled
    BY <1>5, QuietFrame, DispatchFrame DEF Quiet
  <2>3. QED
    BY <1>3, <1>5, <2>1, <2>2 DEF Fresh
<1>6. CASE Fill(o)
  <2>1. calls'[o].left = calls[o].left - calls[o].take /\ calls[o].pc \in HasRead
    BY <1>3, <1>6 DEF Fill, At, HasRead, CallInv, CallsTyped, CallRecords
  <2>2. filled'[calls[o].intent] = filled[calls[o].intent] + calls[o].take
    BY <1>3, <1>6, FillEffect DEF TypeOK
  <2>3. /\ filled[calls[o].intent] \in Int /\ calls[o].take \in Int
        /\ CallPlan(o).quantity \in Int
    BY <1>3, <1>6, PlansAssumption DEF TypeOK, CallRecords, PlanOK
  <2>4. QED
    BY <1>3, <1>6, <2>1, <2>2, <2>3 DEF Fresh
<1>7. QED
  BY <1>1, <1>2, <1>4, <1>5, <1>6 DEF CallStep

\* A call starts by reading its intent.
LEMMA NewCall ==
  ASSUME CallInv, NEW o \in Owners, NEW a \in Approvals, NEW t \in Times, NEW b, NEW shift,
         \/ ExecuteAlone(o, a, t, b, shift) \/ ExecuteUnderLease(o, a, t, b, shift)
         \/ Cancel(o, a, t)
  PROVE  /\ calls'[o].pc \in {"read", "cancel"} /\ calls'[o].intent = a
         /\ \A u \in Owners : u # o => calls'[u] = calls[u]
         /\ state[a] # NoIntent /\ state' = state
<1>1. CASE ExecuteAlone(o, a, t, b, shift)
  <2>1. calls' = [calls EXCEPT ![o] = Call("read", a, t, TRUE, EpochFor(o, t), b, shift, 0)]
    BY <1>1 DEF ExecuteAlone
  <2>2. calls'[o].pc = "read" /\ calls'[o].intent = a
    BY <2>1 DEF Call, CallInv, CallsTyped
  <2>3. QED
    BY <1>1, <2>1, <2>2 DEF ExecuteAlone, AcquireExecutor, intentVars, CallInv, CallsTyped
<1>2. CASE ExecuteUnderLease(o, a, t, b, shift)
  <2>1. calls' = [calls EXCEPT ![o] = Call("read", a, t, FALSE, lease.epoch, b, shift, 0)]
    BY <1>2 DEF ExecuteUnderLease
  <2>2. calls'[o].pc = "read" /\ calls'[o].intent = a
    BY <2>1 DEF Call, CallInv, CallsTyped
  <2>3. QED
    BY <1>2, <2>1, <2>2 DEF ExecuteUnderLease, vars, intentVars, CallInv, CallsTyped
<1>3. CASE Cancel(o, a, t)
  <2>1. calls' = [calls EXCEPT ![o] = Call("cancel", a, t, FALSE, 0, <<>>, 0, filled[a])]
    BY <1>3 DEF Cancel
  <2>2. calls'[o].pc = "cancel" /\ calls'[o].intent = a
    BY <2>1 DEF Call, CallInv, CallsTyped
  <2>3. QED
    BY <1>3, <2>1, <2>2 DEF Cancel, vars, intentVars, Terminal, CallInv, CallsTyped
<1>4. QED
  BY <1>1, <1>2, <1>3

LEMMA FreshKept ==
  ASSUME TypeOK, CallInv, \A o \in Owners : Fresh(o), [ExecutorNext]_callVars
  PROVE  \A o \in Owners : Fresh(o)'
<1> SUFFICES ASSUME NEW o \in Owners PROVE Fresh(o)'
  OBVIOUS
<1>1. CASE CallStarts
  <2>1. PICK u \in Owners : /\ calls'[u].pc \in {"read", "cancel"}
                            /\ \A v \in Owners : v # u => calls'[v] = calls[v]
    BY <1>1, NewCall DEF CallStarts
  <2>2. CASE u = o
    BY <2>1, <2>2 DEF Fresh, HasRead
  <2>3. CASE u # o
    BY <1>1, <2>1, <2>3, StartsFrame, FreshOfOthers
  <2>4. QED
    BY <2>2, <2>3
<1>2. ASSUME NEW u \in Owners, CallStep(u) \/ Crash(u)
      PROVE  Fresh(o)'
  <2>1. CASE u = o
    BY <1>2, <2>1, FreshOfStep
  <2>2. CASE u # o
    <3>1. Moved(u)
      BY <1>2, StepRefines, NextKeepsPlans, StepMoves
    <3>2. calls'[o] = calls[o]
      BY <2>2, <3>1 DEF Moved, CallInv, CallsTyped
    <3>3. filled' = filled \/ Fill(u)
      BY <1>2, QuietFrame, DispatchFrame DEF CallStep, Quiet
    <3>4. QED
      BY <2>2, <3>2, <3>3, FreshOfOthers
  <2>3. QED
    BY <2>1, <2>2
<1>3. CASE OthersStep
  BY <1>3, OthersFrame, FreshOfOthers DEF OthersStep
<1>4. CASE UNCHANGED callVars
  BY <1>4, FreshOfOthers DEF callVars, vars, intentVars
<1>5. QED
  BY <1>1, <1>2, <1>3, <1>4 DEF ExecutorNext

\* What is left of an order, computed once when the call read it, is right at every
\* fill the call can still make, for any number of processes and any timestamps.
THEOREM RemainingAlwaysFresh == ExecutorSpec => []RemainingFresh
<1> DEFINE FreshInv == TypeOK /\ CallInv /\ \A o \in Owners : Fresh(o)
<1>1. ExecutorInit => FreshInv
  BY ExecutorInitInv DEF ExecutorInit, Fresh, HasRead, Idle
<1>2. FreshInv /\ [ExecutorNext]_callVars => FreshInv'
  BY ExecutorStepInv, FreshKept
<1>3. FreshInv => RemainingFresh
  BY DEF Fresh, HasRead, HoldsLease, RemainingFresh, At
<1>4. QED
  BY <1>1, <1>2, <1>3, PTL DEF ExecutorSpec
-----------------------------------------------------------------------------
(* Orders that are being sent.  A call that walks the book read an order   *)
(* that had been sent, or sent it, and no order goes back before that.     *)

Unsent == {NoIntent, "PREPARED", "SUBMITTING"}
Walks == {"open", "walk", "fill"}

Sent(o) ==
  /\ Running(o) => state[calls[o].intent] # NoIntent
  /\ \/ calls[o].pc \in Walks
     \/ calls[o].pc = "check" /\ calls[o].then # "submit"
     => state[calls[o].intent] \notin Unsent

\* Orders are never forgotten, nor taken back to before they were sent.
Forward ==
  \A a \in Approvals : /\ state[a] # NoIntent => state'[a] # NoIntent
                       /\ state[a] \notin Unsent => state'[a] \notin Unsent

LEMMA TransitionForward ==
  ASSUME TypeOK, NEW a \in Approvals, NEW s \in OrderStates, NEW t, NEW ex,
         Transition(a, s, t, ex)
  PROVE  Forward
<1>1. state' = [state EXCEPT ![a] = s] /\ s \in Allowed[state[a]]
  BY DEF Transition, TransitionAllowed
<1>2. s # NoIntent /\ s # "PREPARED" /\ (state[a] \notin Unsent => s # "SUBMITTING")
  BY <1>1 DEF Allowed, NoIntent, Unsent, OrderStates, Terminal, TypeOK
<1>3. QED
  BY <1>1, <1>2 DEF Forward, Unsent, TypeOK

LEMMA ExecutorForward ==
  ASSUME TypeOK, CallInv, [ExecutorNext]_callVars
  PROVE  Forward
<1>1. CASE CallStarts
  BY <1>1, StartsFrame DEF Forward
<1>2. CASE OthersStep
  BY <1>2, OthersFrame DEF Forward, Unsent
<1>3. ASSUME NEW o \in Owners, CallStep(o) \/ Crash(o)
      PROVE  Forward
  <2>1. CASE Quiet(o)
    BY <2>1, QuietFrame DEF Forward
  <2>2. CASE Fill(o)
    BY <2>2, FillEffect DEF Forward, Unsent, NoIntent
  <2>3. CASE ReadExpired(o) \/ Dispatch(o) \/ CancelRequest(o)
    <3>1. calls[o].intent \in Approvals
      BY <2>3, RunningTyped DEF ReadExpired, Dispatch, Dispatching, Stage, CancelRequest, At
    <3>2. {"EXPIRED", "CANCEL_PENDING", "SUBMITTING", "ACKNOWLEDGED", "OPEN"} \subseteq OrderStates
      BY DEF OrderStates, Terminal
    <3>3. ASSUME Dispatch(o) PROVE Stage[calls[o].pc] \in OrderStates
      BY <3>2, <3>3 DEF Dispatch, Dispatching, Stage
    <3>4. CASE UNCHANGED vars \/ TransitionHalts(calls[o].intent, StageTime(o), Token(o))
      BY <3>4 DEF Forward, vars, intentVars, TransitionHalts
    <3>5. CASE \E s \in OrderStates : \E t, ex : Transition(calls[o].intent, s, t, ex)
      BY <3>1, <3>5, TransitionForward
    <3>6. QED
      BY <2>3, <3>2, <3>3, <3>4, <3>5 DEF ReadExpired, Dispatch, CancelRequest
  <2>4. CASE CancelConfirm(o)
    BY <2>4 DEF CancelConfirm, ConfirmCancel, Forward, Unsent, NoIntent, TypeOK
  <2>5. QED
    BY <1>3, <2>1, <2>2, <2>3, <2>4 DEF CallStep, Quiet
<1>4. CASE UNCHANGED callVars
  BY <1>4 DEF callVars, vars, intentVars, Forward
<1>5. QED
  BY <1>1, <1>2, <1>3, <1>4 DEF ExecutorNext

\* A call that is moved without a transition, or that starts.
LEMMA SentOfOthers ==
  ASSUME CallInv, Forward, NEW o \in Owners, Sent(o), calls'[o] = calls[o]
  PROVE  Sent(o)'
<1>1. CASE calls[o].pc = "idle"
  <2>1. ~Running(o)
    BY <1>1 DEF CallInv, CallsTyped, CallRecords, ExecutePcs, Running
  <2>2. QED
    BY <1>1, <2>1 DEF Sent, Running, Walks
<1>2. CASE calls[o].pc # "idle"
  BY <1>2, RunningTyped DEF Sent, Forward, Running
<1>3. QED
  BY <1>1, <1>2

LEMMA SentOfStep ==
  ASSUME TypeOK, CallInv, Forward, NEW o \in Owners, Sent(o), CallStep(o)
  PROVE  Sent(o)'
<1>1. CASE Return(o)
  <2>1. calls'[o] = Idle
    BY <1>1 DEF Return, CallInv, CallsTyped
  <2>2. QED
    BY <2>1 DEF Sent, Running, Idle, Walks
<1>2. ASSUME \/ Read(o) \/ ReadExpired(o) \/ Check(o) \/ Dispatch(o) \/ Walk(o) \/ Fill(o)
             \/ CancelRequest(o) \/ CancelConfirm(o) \/ Raise(o)
      PROVE  /\ calls[o] \in CallRecords /\ calls[o].intent \in Approvals
             /\ state[calls[o].intent] # NoIntent
             /\ calls'[o].intent = calls[o].intent
             /\ state'[calls'[o].intent] # NoIntent
  <2>1. calls[o].pc # "idle"
    <3>1. CASE Raise(o)
      BY <3>1 DEF Raise, Running, CallInv, CallsTyped, CallRecords, ExecutePcs
    <3>2. CASE ~Raise(o)
      BY <1>2, <3>2 DEF Read, ReadExpired, Check, Dispatch, Dispatching, Stage, Walk, Fill,
                        CancelRequest, CancelConfirm, At
    <3>3. QED
      BY <3>1, <3>2
  <2>2. Running(o) /\ calls[o] \in CallRecords /\ calls[o].intent \in Approvals
    BY <2>1, RunningTyped
  <2>3. calls'[o].intent = calls[o].intent
    <3>1. \A pc : Goto(o, pc) => calls'[o].intent = calls[o].intent
      BY <2>2 DEF Goto, CallInv, CallsTyped, CallRecords
    <3>2. CASE Read(o)
      BY <2>2, <3>2 DEF Read, CallInv, CallsTyped, CallRecords
    <3>3. CASE Walk(o) \/ Fill(o)
      BY <2>2, <3>1, <3>3 DEF Walk, Fill, Advance, CallInv, CallsTyped, CallRecords
    <3>4. CASE ReadExpired(o) \/ Check(o) \/ Dispatch(o) \/ CancelRequest(o) \/ CancelConfirm(o)
               \/ Raise(o)
      BY <3>1, <3>4 DEF ReadExpired, Check, Dispatch, CancelRequest, CancelConfirm, Raise, Leave
    <3>5. QED
      BY <1>2, <3>2, <3>3, <3>4
  <2>4. QED
    BY <2>2, <2>3 DEF Sent, Forward
<1>3. CASE Read(o)
  <2>1. calls'[o].pc = "check" /\ state' = state
    BY <1>2, <1>3, QuietFrame DEF Quiet, Read, CallInv, CallsTyped, CallRecords
  <2>2. calls'[o].then # "submit" => state[calls[o].intent] \notin Unsent
    <3>1. calls'[o].then # "submit" => state[calls[o].intent] # "PREPARED"
      BY <1>2, <1>3 DEF Read, CallInv, CallsTyped, CallRecords
    <3>2. state[calls[o].intent] # "SUBMITTING"
      BY <1>3 DEF Read, ReadAllowed, Uncertain
    <3>3. QED
      BY <1>2, <1>3, <3>1, <3>2 DEF Unsent
  <2>3. QED
    BY <1>2, <1>3, <2>1, <2>2 DEF Sent, Walks
<1>4. CASE Check(o)
  <2>1. /\ calls[o].pc = "check" /\ calls'[o].pc = calls[o].then
        /\ calls[o].then \in {"submit", "open", "walk"}
    BY <1>2, <1>4 DEF Check, Goto, At, CallInv, CallsTyped, CallRecords
  <2>2. QED
    BY <1>2, <1>4, <2>1 DEF Sent, Forward, Walks
<1>5. CASE Dispatch(o)
  <2>1. calls[o].pc \in {"submit", "acknowledge", "open"}
    BY <1>5 DEF Dispatch, Dispatching, Stage
  <2>2. CASE Goto(o, "leave")
    <3>1. calls'[o].pc = "leave"
      BY <1>2, <1>5, <2>2 DEF Goto, CallInv, CallsTyped, CallRecords
    <3>2. QED
      BY <1>2, <1>5, <3>1 DEF Sent, Walks
  <2>3. CASE /\ Transition(calls[o].intent, Stage[calls[o].pc], StageTime(o), Token(o))
             /\ Goto(o, AfterStage[calls[o].pc])
    <3>1. state'[calls[o].intent] = Stage[calls[o].pc]
      BY <1>2, <1>5, <2>3 DEF Transition, TypeOK
    <3>2. calls'[o].pc = AfterStage[calls[o].pc]
      BY <1>2, <1>5, <2>3 DEF Goto, CallInv, CallsTyped, CallRecords
    <3>3. CASE calls[o].pc = "submit"
      <4>1. calls'[o].pc = "acknowledge"
        BY <3>2, <3>3 DEF AfterStage
      <4>2. QED
        BY <1>2, <1>5, <4>1 DEF Sent, Walks
    <3>4. CASE calls[o].pc \in {"acknowledge", "open"}
      <4>1. state'[calls[o].intent] \in {"ACKNOWLEDGED", "OPEN"} /\ calls'[o].pc # "check"
        BY <3>1, <3>2, <3>4 DEF Stage, AfterStage
      <4>2. QED
        BY <1>2, <1>5, <4>1 DEF Sent, Unsent
    <3>5. QED
      BY <2>1, <3>3, <3>4
  <2>4. QED
    BY <1>5, <2>2, <2>3 DEF Dispatch
<1>6. CASE Walk(o) \/ Fill(o)
  <2>1. calls[o].pc \in Walks
    BY <1>6 DEF Walk, Fill, At, Walks
  <2>2. state[calls[o].intent] \notin Unsent
    BY <2>1 DEF Sent
  <2>3. QED
    BY <1>2, <1>6, <2>2 DEF Sent, Forward
<1>7. CASE ReadExpired(o) \/ CancelRequest(o) \/ CancelConfirm(o) \/ Raise(o)
  <2>1. calls'[o].pc \in {"leave", "confirm"}
    BY <1>2, <1>7 DEF ReadExpired, CancelRequest, CancelConfirm, Raise, Leave, Goto, CallInv,
                      CallsTyped, CallRecords
  <2>2. QED
    BY <1>2, <1>7, <2>1 DEF Sent, Walks
<1>8. QED
  BY <1>1, <1>3, <1>4, <1>5, <1>6, <1>7 DEF CallStep

LEMMA SentKept ==
  ASSUME TypeOK, CallInv, \A o \in Owners : Sent(o), [ExecutorNext]_callVars
  PROVE  \A o \in Owners : Sent(o)'
<1> SUFFICES ASSUME NEW o \in Owners PROVE Sent(o)'
  OBVIOUS
<1>1. Forward
  BY ExecutorForward
<1>2. CASE calls'[o] = calls[o]
  BY <1>1, <1>2, SentOfOthers
<1>3. CASE CallStarts
  <2>1. PICK u \in Owners, a \in Approvals :
          /\ calls'[u].pc \in {"read", "cancel"} /\ calls'[u].intent = a
          /\ \A v \in Owners : v # u => calls'[v] = calls[v]
          /\ state[a] # NoIntent /\ state' = state
    BY <1>3, NewCall DEF CallStarts
  <2>2. CASE u = o
    BY <2>1, <2>2 DEF Sent, Walks
  <2>3. QED
    BY <1>2, <2>1, <2>2
<1>4. ASSUME NEW u \in Owners, CallStep(u) \/ Crash(u)
      PROVE  Sent(o)'
  <2>1. Moved(u)
    BY <1>4, StepRefines, NextKeepsPlans, StepMoves
  <2>2. CASE u # o
    BY <1>2, <2>1, <2>2 DEF Moved, CallInv, CallsTyped
  <2>3. CASE u = o /\ CallStep(o)
    BY <1>1, <2>3, SentOfStep
  <2>4. CASE u = o /\ Crash(o)
    <3>1. calls'[o] = Idle
      BY <2>4 DEF Crash, CallInv, CallsTyped
    <3>2. QED
      BY <3>1 DEF Sent, Running, Idle, Walks
  <2>5. QED
    BY <1>4, <2>2, <2>3, <2>4
<1>5. CASE OthersStep \/ UNCHANGED callVars
  BY <1>2, <1>5 DEF OthersStep, callVars
<1>6. QED
  BY <1>3, <1>4, <1>5 DEF ExecutorNext

\* An order that is being sent is moved by the call that sends it, and by a
\* cancellation, but by no other step.
LEMMA SubmittingStays ==
  ASSUME TypeOK, CallInv, \A o \in Owners : Sent(o), [ExecutorNext]_callVars,
         NEW a \in Approvals, state[a] = "SUBMITTING",
         \A o \in Owners : Running(o) /\ calls[o].intent = a => ~At(o, "acknowledge")
  PROVE  state'[a] \in {"SUBMITTING", "CANCEL_PENDING"} /\ filled'[a] = filled[a]
<1>1. CASE CallStarts
  BY <1>1, StartsFrame
<1>2. CASE OthersStep
  BY <1>2, OthersFrame DEF NoIntent
<1>3. CASE UNCHANGED callVars
  BY <1>3 DEF callVars, vars, intentVars
<1>4. ASSUME NEW o \in Owners, CallStep(o) \/ Crash(o)
      PROVE  state'[a] \in {"SUBMITTING", "CANCEL_PENDING"} /\ filled'[a] = filled[a]
  <2>1. CASE Quiet(o)
    BY <2>1, QuietFrame
  <2>2. CASE Fill(o)
    <3>1. calls[o].intent # a
      BY <2>2 DEF Sent, Fill, At, Walks, Unsent
    <3>2. QED
      BY <2>2, <3>1, FillEffect DEF TypeOK
  <2>3. CASE ReadExpired(o) \/ Dispatch(o) \/ CancelRequest(o) \/ CancelConfirm(o)
    <3>1. CASE calls[o].intent # a
      BY <2>3, <3>1, DispatchFrame
    <3>2. CASE calls[o].intent = a
      <4>1. ~ReadExpired(o) /\ ~CancelConfirm(o)
        BY <3>2 DEF ReadExpired, ExpiredUnsent, CancelConfirm, ConfirmCancel
      <4>2. CASE CancelRequest(o)
        BY <3>2, <4>2 DEF CancelRequest, Transition, TypeOK
      <4>3. CASE Dispatch(o)
        <5>1. calls[o].pc \in {"submit", "open"}
          BY <3>2, <4>3, RunningTyped DEF Dispatch, Dispatching, Stage, At
        <5>2. Stage[calls[o].pc] \notin Allowed[state[a]]
          BY <5>1 DEF Stage, Allowed, OrderStates
        <5>3. ~Transition(a, Stage[calls[o].pc], StageTime(o), Token(o))
          BY <5>2 DEF Transition, TransitionAllowed
        <5>4. TransitionHalts(a, StageTime(o), Token(o))
          BY <3>2, <4>3, <5>3 DEF Dispatch
        <5>5. QED
          BY <5>4 DEF TransitionHalts, intentVars
      <4>4. QED
        BY <2>3, <4>1, <4>2, <4>3
    <3>3. QED
      BY <3>1, <3>2
  <2>4. QED
    BY <1>4, <2>1, <2>2, <2>3 DEF CallStep, Quiet
<1>5. QED
  BY <1>1, <1>2, <1>3, <1>4 DEF ExecutorNext

\* An order whose sending was interrupted is never sent again and never filled by
\* any later call, of this process or another: it waits for a cancellation.
THEOREM UncertainStays == ExecutorSpec => UncertainNotResumed
<1> DEFINE SentInv == TypeOK /\ CallInv /\ \A o \in Owners : Sent(o)
           Stays == \A a \in Approvals :
                      (state[a] = "SUBMITTING" /\ \A o \in Owners : Running(o) /\ calls[o].intent = a
                                                                      => ~At(o, "acknowledge"))
                        => /\ state'[a] \in {"SUBMITTING", "CANCEL_PENDING"}
                           /\ filled'[a] = filled[a]
<1>1. ExecutorInit => SentInv
  BY ExecutorInitInv DEF ExecutorInit, Sent, Running, Idle, Walks
<1>2. SentInv /\ [ExecutorNext]_callVars => SentInv'
  BY ExecutorStepInv, SentKept
<1>3. SentInv /\ [ExecutorNext]_callVars => [Stays]_callVars
  BY SubmittingStays
<1>4. QED
  BY <1>1, <1>2, <1>3, PTL DEF ExecutorSpec, UncertainNotResumed
-----------------------------------------------------------------------------
(* The depth of the books.  Only a fill takes from a level, and it is      *)
(* recorded under its order and the level; an order has no fill before it  *)
(* is an intent.                                                           *)

Taken(l, side) ==
  [a \in Approvals |->
     IF state[a] # NoIntent /\ PlanOf(a).side = side THEN fills[<<a, l>>].quantity ELSE 0]

DepthAt(l, side) ==
  /\ consumed[<<l, side>>] <= Capacity[<<l, side>>]
  /\ consumed[<<l, side>>] = Total(Taken(l, side))

NoneBefore == \A a \in Approvals, l \in Levels : state[a] = NoIntent => fills[<<a, l>>] = NoFill

DepthInv == NoneBefore /\ \A l \in Levels, side \in Sides : DepthAt(l, side)

BooksKept == fills' = fills /\ consumed' = consumed

LEMMA TakenType ==
  ASSUME TypeOK, NEW l \in Levels, NEW side \in Sides
  PROVE  Taken(l, side) \in [Approvals -> Nat]
<1>1. \A a \in Approvals : fills[<<a, l>>] \in FillRecords
  BY TradesAssumption DEF TypeOK
<1>2. \A a \in Approvals : fills[<<a, l>>].quantity \in Nat
  BY <1>1 DEF FillRecords, NoFill
<1>3. QED
  BY <1>2 DEF Taken

\* The steps that fill nothing take nothing from a book.
LEMMA OthersKeepBooks ==
  ASSUME [ExecutorNext]_callVars, \A o \in Owners : ~Fill(o)
  PROVE  BooksKept
<1>1. ASSUME NEW o \in Owners, NEW a \in Approvals, NEW t \in Times, NEW b, NEW shift,
             ExecuteAlone(o, a, t, b, shift) \/ ExecuteUnderLease(o, a, t, b, shift) \/ Cancel(o, a, t)
      PROVE  BooksKept
  BY <1>1
     DEF ExecuteAlone, AcquireExecutor, ExecuteUnderLease, Cancel, vars, positionVars, BooksKept
<1>2. ASSUME NEW o \in Owners, CallStep(o) \/ Crash(o)
      PROVE  BooksKept
  <2>1. CASE Read(o) \/ Check(o) \/ Walk(o) \/ Raise(o) \/ Crash(o)
    BY <2>1 DEF Read, Check, Walk, Raise, Leave, Crash, vars, positionVars, BooksKept
  <2>2. CASE ReadExpired(o) \/ Dispatch(o)
    BY <2>2 DEF ReadExpired, Dispatch, Transition, TransitionHalts, positionVars, BooksKept
  <2>3. CASE CancelRequest(o) \/ CancelConfirm(o)
    BY <2>3
       DEF CancelRequest, CancelConfirm, ConfirmCancel, Transition, vars, positionVars, BooksKept
  <2>4. CASE Return(o)
    BY <2>4 DEF Return, ReleaseExecutor, vars, positionVars, BooksKept
  <2>5. QED
    BY <1>2, <2>1, <2>2, <2>3, <2>4 DEF CallStep
<1>3. CASE OthersStep
  <2>1. CASE MoneyStep
    BY <2>1 DEF MoneyStep, Deposit, RecordOperatingCost, positionVars, BooksKept
  <2>2. CASE ControlStep
    BY <2>2 DEF ControlStep, Halt, RenewControlLease, ProposeCommand, ConsumeControlCommand,
                positionVars, BooksKept
  <2>3. CASE SettleStep
    BY <2>3 DEF SettleStep, Settle, BooksKept
  <2>4. ASSUME NEW a \in Approvals, NEW p \in Plans, NEW t \in Times,
               ApproveSimulated(a, p, t) \/ Prepare(a, p, t)
        PROVE  BooksKept
    BY <2>4 DEF ApproveSimulated, Prepare, ReserveIntent, positionVars, BooksKept
  <2>5. ASSUME NEW o \in Owners, NEW t \in Times, AcquireExecutor(o, t, MaxTtl)
        PROVE  BooksKept
    BY <2>5 DEF AcquireExecutor, positionVars, BooksKept
  <2>6. QED
    BY <1>3, <2>1, <2>2, <2>3, <2>4, <2>5 DEF OthersStep
<1>4. CASE UNCHANGED callVars
  BY <1>4 DEF callVars, vars, positionVars, BooksKept
<1>5. QED
  BY <1>1, <1>2, <1>3, <1>4 DEF ExecutorNext, CallStarts

\* As long as the books stay, an order that becomes an intent brings no fill.
LEMMA DepthStays ==
  ASSUME TypeOK, DepthInv, PlansKept, Forward, BooksKept
  PROVE  DepthInv'
<1>1. NoneBefore'
  BY DEF DepthInv, NoneBefore, Forward, BooksKept
<1>2. ASSUME NEW l \in Levels, NEW side \in Sides PROVE Taken(l, side)' = Taken(l, side)
  <2>1. ASSUME NEW a \in Approvals
        PROVE  (IF state'[a] # NoIntent /\ PlanOf(a)'.side = side THEN fills'[<<a, l>>].quantity ELSE 0)
             = (IF state[a] # NoIntent /\ PlanOf(a).side = side THEN fills[<<a, l>>].quantity ELSE 0)
    <3>1. CASE state[a] = NoIntent
      BY <3>1 DEF DepthInv, NoneBefore, BooksKept, NoFill
    <3>2. CASE state[a] # NoIntent
      <4>1. PlanOf(a)' = PlanOf(a) /\ state'[a] # NoIntent
        BY <3>2 DEF TypeOK, PlansKept, PlanOf, Forward
      <4>2. QED
        BY <3>2, <4>1 DEF BooksKept
    <3>3. QED
      BY <3>1, <3>2
  <2>2. QED
    BY <2>1 DEF Taken
<1>3. \A l \in Levels, side \in Sides : DepthAt(l, side)'
  <2> SUFFICES ASSUME NEW l \in Levels, NEW side \in Sides PROVE DepthAt(l, side)'
    OBVIOUS
  <2>1. Total(Taken(l, side)') = Total(Taken(l, side))
    BY <1>2
  <2>2. QED
    BY <2>1 DEF DepthInv, DepthAt, BooksKept
<1>4. QED
  BY <1>1, <1>3 DEF DepthInv

\* A fill takes from the level what it records.
LEMMA FillDepth ==
  ASSUME TypeOK, CallInv, NEW o \in Owners, Fill(o)
  PROVE  LET a == calls[o].intent
             l == Level(o)
             k == <<l, PlanOf(a).side>>
             q == calls[o].take
         IN  /\ a \in Approvals /\ l \in Levels /\ q \in Nat /\ PlanOf(a).side \in Sides
             /\ state[a] # NoIntent /\ fills[<<a, l>>] = NoFill
             /\ consumed[k] + q <= Capacity[k]
             /\ consumed' = [consumed EXCEPT ![k] = @ + q]
             /\ \E gross, fee : fills' = [fills EXCEPT ![<<a, l>>] =
                  [intent |-> a, quantity |-> q, gross |-> gross, fee |-> fee]]
             /\ approval' = approval
<1> DEFINE a == calls[o].intent
           q == calls[o].take
<1>1. At(o, "fill") /\ ApplyFill(Trade(o), a, q, Price(o), Fee(o), EffectiveTime(o), Token(o), Level(o))
  BY DEF Fill
<1>2. a \in Approvals /\ q \in 1 .. MaxQuantity /\ Level(o) \in Levels /\ CallPlan(o) \in Plans
  BY <1>1, FillArguments, RunningTyped DEF At
<1>3. q \in Nat /\ Level(o) # NoLevel /\ PlanOf(a).side \in Sides
  BY <1>2, InputsAssumption, AbsentAssumption, PlansAssumption DEF CallPlan, PlanOK
<1>4. /\ FillAllowed(Trade(o), a, q, Price(o), Fee(o), EffectiveTime(o), Token(o), Level(o))
      /\ approval' = approval
      /\ \E gross : RecordFill(Trade(o), a, q, gross, Fee(o), Level(o))
  BY <1>1 DEF ApplyFill, ApplyBuyFill, ApplySellFill
<1>5. /\ state[a] # NoIntent
      /\ fills[<<a, Level(o)>>] = NoFill
      /\ consumed[<<Level(o), PlanOf(a).side>>] + q <= Capacity[<<Level(o), PlanOf(a).side>>]
  BY <1>3, <1>4 DEF FillAllowed, Trade
<1>6. /\ consumed' = [consumed EXCEPT ![<<Level(o), PlanOf(a).side>>] = @ + q]
      /\ \E gross, fee : fills' = [fills EXCEPT ![<<a, Level(o)>>] =
           [intent |-> a, quantity |-> q, gross |-> gross, fee |-> fee]]
  BY <1>3, <1>4 DEF RecordFill, Trade
<1>7. QED
  BY <1>2, <1>3, <1>4, <1>5, <1>6

LEMMA FillKeepsDepth ==
  ASSUME TypeOK, TypeOK', CallInv, DepthInv, Forward, NEW o \in Owners, Fill(o)
  PROVE  DepthInv'
<1> DEFINE a == calls[o].intent
           l == Level(o)
           q == calls[o].take
           side == PlanOf(a).side
<1>1. /\ a \in Approvals /\ l \in Levels /\ q \in Nat /\ side \in Sides
      /\ state[a] # NoIntent /\ fills[<<a, l>>] = NoFill
      /\ consumed[<<l, side>>] + q <= Capacity[<<l, side>>]
      /\ consumed' = [consumed EXCEPT ![<<l, side>>] = @ + q]
      /\ approval' = approval
  BY FillDepth
<1>2. PICK gross, fee : fills' = [fills EXCEPT ![<<a, l>>] =
                          [intent |-> a, quantity |-> q, gross |-> gross, fee |-> fee]]
  BY FillDepth
<1>3. \A b \in Approvals : (state'[b] # NoIntent) <=> (state[b] # NoIntent)
  <2>1. \A b \in Approvals : b # a => state'[b] = state[b]
    BY FillEffect
  <2>2. QED
    BY <1>1, <2>1 DEF Forward
<1>4. <<a, l>> \in Trades /\ \A b \in Approvals, m \in Levels : <<b, m>> \in Trades
  BY <1>1, TradesAssumption
<1>5. fills'[<<a, l>>].quantity = q /\ fills[<<a, l>>].quantity = 0
  BY <1>1, <1>2, <1>4 DEF TypeOK, NoFill
<1> HIDE DEF a, l, q, side
<1>6. \A b \in Approvals, m \in Levels : <<b, m>> # <<a, l>> => fills'[<<b, m>>] = fills[<<b, m>>]
  BY <1>2, <1>4 DEF TypeOK
<1>7. NoneBefore'
  BY <1>1, <1>3, <1>6 DEF DepthInv, NoneBefore
<1>8. \A b \in Approvals : PlanOf(b)' = PlanOf(b)
  BY <1>1 DEF PlanOf
<1>9. ASSUME NEW m \in Levels, NEW z \in Sides PROVE DepthAt(m, z)'
  <2> DEFINE f == Taken(m, z)
             g == Taken(m, z)'
  <2>1. f \in [Approvals -> Nat] /\ g \in [Approvals -> Nat]
    <3>1. \A b \in Approvals : fills'[<<b, m>>] \in FillRecords
      BY TradesAssumption DEF TypeOK
    <3>2. \A b \in Approvals : fills'[<<b, m>>].quantity \in Nat
      BY <3>1 DEF FillRecords, NoFill
    <3>3. g \in [Approvals -> Nat]
      BY <3>2 DEF Taken
    <3>4. QED
      BY <3>3, TakenType
  <2>2. CASE m = l /\ z = side
    <3>1. \A b \in Approvals \ {a} : g[b] = f[b]
      BY <1>3, <1>6, <1>8 DEF Taken
    <3>2. g[a] = q /\ f[a] = 0
      BY <1>1, <1>3, <1>5, <1>8, <2>2 DEF Taken, side
    <3> HIDE DEF f, g
    <3>3. Total(g) = Total(f) + q
      <4>1. Total(g) = Total(f) + g[a] - f[a] /\ Total(f) \in Nat
        BY <1>1, <2>1, <3>1, TotalUpdate, FiniteAssumption
      <4>2. QED
        BY <1>1, <3>2, <4>1
    <3> USE DEF f, g
    <3>4. consumed'[<<m, z>>] = consumed[<<m, z>>] + q
      BY <1>1, <2>2 DEF TypeOK
    <3>5. QED
      BY <1>1, <2>2, <3>3, <3>4 DEF DepthInv, DepthAt
  <2>3. CASE ~(m = l /\ z = side)
    <3>1. consumed'[<<m, z>>] = consumed[<<m, z>>]
      BY <1>1, <2>3 DEF TypeOK
    <3>2. ASSUME NEW b \in Approvals PROVE g[b] = f[b]
      <4>1. CASE b = a
        BY <1>3, <1>6, <1>8, <2>3, <4>1 DEF Taken, side
      <4>2. CASE b # a
        BY <1>3, <1>6, <1>8, <4>2 DEF Taken
      <4>3. QED
        BY <4>1, <4>2
    <3>3. g = f
      <4> HIDE DEF f, g
      <4>1. QED
        BY <2>1, <3>2
    <3>4. Total(g) = Total(f)
      BY <3>3
    <3>5. QED
      BY <3>1, <3>4 DEF DepthInv, DepthAt
  <2>4. QED
    BY <2>2, <2>3
<1>10. QED
  BY <1>7, <1>9 DEF DepthInv

\* However many orders, processes, crashed and repeated calls share a book, no more
\* is taken from a level than it had, and what was taken is what its fills say
\* (paper.py's available depth, and apply_fill's check of paper_liquidity).
THEOREM DepthIsExplained == ExecutorSpec => []DepthExplained
<1> DEFINE Inv == TypeOK /\ CallInv /\ DepthInv
<1>1. ExecutorInit => Inv
  <2> SUFFICES ASSUME ExecutorInit PROVE DepthInv
    BY ExecutorInitInv
  <2>1. /\ \A a \in Approvals : state[a] = NoIntent
        /\ fills = [f \in Trades |-> NoFill]
        /\ \A l \in Levels, side \in Sides : consumed[<<l, side>>] = 0
    BY DEF ExecutorInit, Init
  <2>2. NoneBefore
    BY <2>1, TradesAssumption DEF NoneBefore
  <2>3. ASSUME NEW l \in Levels, NEW side \in Sides PROVE DepthAt(l, side)
    <3>1. Taken(l, side) = [a \in Approvals |-> 0]
      BY <2>1 DEF Taken
    <3>2. Total(Taken(l, side)) = 0
      BY <3>1, TotalZero, FiniteAssumption
    <3>3. Capacity[<<l, side>>] \in Nat
      BY CapacityAssumption
    <3>4. consumed[<<l, side>>] = 0
      BY <2>1
    <3> HIDE DEF Taken
    <3>5. QED
      BY <3>2, <3>3, <3>4 DEF DepthAt
  <2>4. QED
    BY <2>2, <2>3 DEF DepthInv
<1>2. Inv /\ [ExecutorNext]_callVars => Inv'
  <2> SUFFICES ASSUME Inv, [ExecutorNext]_callVars PROVE DepthInv'
    BY ExecutorStepInv
  <2>1. Forward /\ PlansKept /\ TypeOK'
    BY ExecutorForward, StepRefines, NextKeepsPlans, ExecutorStepInv
  <2>2. CASE \A o \in Owners : ~Fill(o)
    BY <2>1, <2>2, OthersKeepBooks, DepthStays
  <2>3. CASE \E o \in Owners : Fill(o)
    BY <2>1, <2>3, FillKeepsDepth
  <2>4. QED
    BY <2>2, <2>3
<1>3. Inv => DepthExplained
  BY DEF DepthInv, DepthAt, Taken, DepthExplained
<1>4. QED
  BY <1>1, <1>2, <1>3, PTL DEF ExecutorSpec
=============================================================================
