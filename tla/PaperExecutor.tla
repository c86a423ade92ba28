--------------------------- MODULE PaperExecutor ---------------------------
(***************************************************************************)
(* The paper executor, edgehunter/execution/paper.py: a call of execute or *)
(* cancel is a chain of journal transactions.  Each call runs in a process *)
(* with its own clock, keeps what it read in local variables, and may stop *)
(* between any two transactions: at an exception, or because the process   *)
(* crashed.  Calls of several processes interleave with each other and     *)
(* with every other user of the journal.                                   *)
(***************************************************************************)
EXTENDS RiskEngine, Sequences

CONSTANTS
  Books,         \* books a call may be given: levels of the side its order takes
  Latency,       \* latency_ms, in steps of the clock
  AdverseTicks   \* adverse_ticks

\* A level is of one snapshot of a book: books that differ have no level in common.
ASSUME BooksAssumption == Books \subseteq Seq([level : Levels, price : 1 .. One])
ASSUME ExecutorAssumption == Latency \in Nat /\ AdverseTicks \in Nat
\* Every order, and the fee of every part of it, is within the core's bounds.
ASSUME FillBoundsAssumption ==
  \A p \in Plans :
    /\ p.quantity <= MaxQuantity
    /\ \A q \in 1 .. p.quantity, r \in 1 .. One : FeeFor(p, q, r) <= MaxFee
\* A call of its own takes the lease for MaxTtl.
ASSUME OwnLeaseAssumption == MaxTtl >= 1
\* A fill of the executor is named by its intent and the level it took.
ASSUME TradesAssumption == Approvals \X Levels \subseteq Trades

VARIABLE calls   \* the call that each process has in progress
callVars == <<vars, calls>>

Idle == [pc |-> "idle"]
Running(o) == calls[o] # Idle
At(o, pc) == calls[o].pc = pc

\* Of the call of o: its plan, its token of the lease, and the modelled time
\* of its effects.
CallPlan(o) == PlanOf(calls[o].intent)
Token(o) == [owner |-> o, epoch |-> calls[o].epoch]
EffectiveTime(o) == calls[o].now + Latency

Goto(o, pc) == calls' = [calls EXCEPT ![o].pc = pc]
Advance(o) == calls' = [calls EXCEPT ![o].pc = "walk", ![o].next = @ + 1]

\* A call that raises or returns still has to give back a lease of its own.
Leave(o) == Goto(o, "leave") /\ UNCHANGED vars
-----------------------------------------------------------------------------
(* execute                                                                 *)

Call(pc, a, t, own, epoch, book, shift, take) ==
  [pc |-> pc, intent |-> a, now |-> t, own |-> own, epoch |-> epoch, book |-> book,
   shift |-> shift, then |-> "walk", next |-> 1, left |-> 0, take |-> take]

\* Without a token of its caller a call is a new owner, and takes the lease.
ExecuteAlone(o, a, t, book, shift) ==
  /\ ~Running(o)
  /\ state[a] # NoIntent
  /\ lease.expires <= t
  /\ lease.epoch < MaxEpoch
  /\ AcquireExecutor(o, t, MaxTtl)
  /\ calls' = [calls EXCEPT ![o] = Call("read", a, t, TRUE, EpochFor(o, t), book, shift, 0)]

ExecuteUnderLease(o, a, t, book, shift) ==
  /\ ~Running(o)
  /\ state[a] # NoIntent
  /\ CheckExecutor([owner |-> o, epoch |-> lease.epoch], t)
  /\ calls' = [calls EXCEPT ![o] = Call("read", a, t, FALSE, lease.epoch, book, shift, 0)]
  /\ UNCHANGED vars

\* Mutant: an order that is being sent is taken for one that can be resumed.
UncertainUnsent == {"UNKNOWN", "CANCEL_PENDING"}

\* An order in these states must be reconciled, not sent again.
Uncertain == {"UNKNOWN", "SUBMITTING", "CANCEL_PENDING"}

ReadAllowed(o) ==
  LET a == calls[o].intent IN
  /\ CallPlan(o).created <= calls[o].now
  /\ updated[a] <= calls[o].now
  /\ state[a] \notin Terminal \cup Uncertain
  /\ EffectiveTime(o) < CallPlan(o).expires

\* The intent is read once: what is left of it and how it is to be sent are
\* computed from this reading.
Read(o) ==
  LET a == calls[o].intent IN
  /\ At(o, "read")
  /\ ReadAllowed(o)
  /\ calls' = [calls EXCEPT
       ![o].pc = "check",
       ![o].left = CallPlan(o).quantity - filled[a],
       ![o].then = CASE state[a] = "PREPARED" -> "submit"
                     [] state[a] = "ACKNOWLEDGED" -> "open"
                     [] OTHER -> "walk"]
  /\ UNCHANGED vars

\* Then the stops and the control lease are read, one after another; here in one step: a stop
\* that comes between two of the reads lets the call go on like one that comes after the last.
DispatchAllowed(o) ==
  /\ ~Stopped(CallPlan(o).side)
  /\ control.leaseExpires > EffectiveTime(o)

Check(o) ==
  /\ At(o, "check")
  /\ DispatchAllowed(o)
  /\ Goto(o, calls[o].then)
  /\ UNCHANGED vars

\* The order of an expired plan that was never sent is closed.
ExpiredUnsent(o) ==
  LET a == calls[o].intent IN
  /\ CallPlan(o).created <= calls[o].now
  /\ updated[a] <= calls[o].now
  /\ state[a] = "PREPARED"
  /\ EffectiveTime(o) >= CallPlan(o).expires
  /\ TransitionAllowed(a, "EXPIRED", EffectiveTime(o), Token(o))

ReadExpired(o) ==
  /\ At(o, "read")
  /\ ExpiredUnsent(o)
  /\ Transition(calls[o].intent, "EXPIRED", EffectiveTime(o), Token(o))
  /\ Goto(o, "leave")

\* The transition that each stage of the dispatch makes, and when.
Stage == [submit |-> "SUBMITTING", acknowledge |-> "ACKNOWLEDGED", open |-> "OPEN"]
AfterStage == [submit |-> "acknowledge", acknowledge |-> "open", open |-> "walk"]
Dispatching(o) == calls[o].pc \in DOMAIN Stage
StageTime(o) == IF At(o, "submit") THEN calls[o].now ELSE EffectiveTime(o)

Dispatch(o) ==
  /\ Dispatching(o)
  /\ \/ /\ Transition(calls[o].intent, Stage[calls[o].pc], StageTime(o), Token(o))
        /\ Goto(o, AfterStage[calls[o].pc])
     \/ /\ At(o, "submit")
        /\ TransitionHalts(calls[o].intent, StageTime(o), Token(o))
        /\ Goto(o, "leave")
-----------------------------------------------------------------------------
(* The walk of the book.                                                   *)

Level(o) == calls[o].book[calls[o].next].level
Trade(o) == <<calls[o].intent, Level(o)>>

\* The price of the level, moved against the order.
Price(o) ==
  LET price == calls[o].book[calls[o].next].price
      shift == CallPlan(o).tick * calls[o].shift
  IN  IF CallPlan(o).side = "BUY" THEN price + shift ELSE price - shift

WalkEnds(o) ==
  \/ calls[o].left <= 0
  \/ calls[o].next > Len(calls[o].book)
  \/ /\ Price(o) \in 1 .. One
     /\ IF CallPlan(o).side = "BUY" THEN Price(o) > CallPlan(o).limit
                                    ELSE Price(o) < CallPlan(o).limit

\* Whether the trade is recorded and what is left of the level are read one after the other;
\* here in one step: the trade is this order's own, whose fills the lease keeps from others, and
\* the depth read is taken later, in Fill, whoever has taken of it by then.
Available(o) ==
  LET k == <<Level(o), CallPlan(o).side>> IN Greatest(0, Capacity[k] - consumed[k])

Walk(o) ==
  /\ At(o, "walk")
  /\ IF WalkEnds(o) THEN Goto(o, "leave")
     ELSE IF Price(o) \notin 1 .. One \/ fills[Trade(o)] # NoFill \/ Available(o) = 0
       THEN Advance(o)
       ELSE calls' = [calls EXCEPT ![o].pc = "fill",
                                   ![o].take = Least(calls[o].left, Available(o))]
  /\ UNCHANGED vars

Fee(o) == FeeFor(CallPlan(o), calls[o].take, Price(o))

Fill(o) ==
  /\ At(o, "fill")
  /\ ApplyFill(Trade(o), calls[o].intent, calls[o].take, Price(o), Fee(o),
               EffectiveTime(o), Token(o), Level(o))
  /\ calls' = [calls EXCEPT ![o].pc = "walk", ![o].next = @ + 1,
                            ![o].left = @ - calls[o].take]
-----------------------------------------------------------------------------
(* cancel                                                                  *)

\* The intent is read, and what was filled of it; no lease is needed.
Cancel(o, a, t) ==
  /\ ~Running(o)
  /\ state[a] \notin Terminal \cup {NoIntent}
  /\ calls' = [calls EXCEPT ![o] = Call("cancel", a, t, FALSE, 0, <<>>, 0, filled[a])]
  /\ UNCHANGED vars

CancelRequest(o) ==
  LET a == calls[o].intent IN
  /\ At(o, "cancel")
  /\ IF state[a] = "CANCEL_PENDING" THEN UNCHANGED vars
     ELSE Transition(a, "CANCEL_PENDING", calls[o].now, NoExecutor)
  /\ Goto(o, "confirm")

CancelConfirm(o) ==
  /\ At(o, "confirm")
  /\ ConfirmCancel(calls[o].intent, calls[o].take, calls[o].now)
  /\ Goto(o, "leave")
-----------------------------------------------------------------------------
(* The end of a call.                                                      *)

\* The transaction or the check of the next step fails, and raises.  A call
\* that returns because the order is finished already ends the same way.
Refused(o) ==
  LET a == calls[o].intent
      t == calls[o].now
  IN  \/ At(o, "read") /\ ~ReadAllowed(o) /\ ~ExpiredUnsent(o)
      \/ At(o, "check") /\ ~DispatchAllowed(o)
      \/ Dispatching(o) /\ ~TransitionAllowed(a, Stage[calls[o].pc], StageTime(o), Token(o))
      \/ At(o, "fill") /\ ~FillAllowed(Trade(o), a, calls[o].take, Price(o), Fee(o),
                                       EffectiveTime(o), Token(o), Level(o))
      \/ /\ At(o, "cancel")
         /\ state[a] # "CANCEL_PENDING"
         /\ ~TransitionAllowed(a, "CANCEL_PENDING", t, NoExecutor)
      \/ /\ At(o, "confirm")
         /\ \/ calls[o].take # filled[a] \/ state[a] # "CANCEL_PENDING" \/ t < updated[a]

Raise(o) == Running(o) /\ Refused(o) /\ Leave(o)

\* Mutant: the lease is given back by deleting its row.
ReturnDeletes(o) ==
  /\ At(o, "leave")
  /\ calls' = [calls EXCEPT ![o] = Idle]
  /\ lease' = [owner |-> NoOwner, epoch |-> 0, expires |-> 0]
  /\ UNCHANGED <<ledgerVars, intentVars, positionVars, control, commands>>

\* A lease of its own is given back, if no other call has taken it.
Return(o) ==
  /\ At(o, "leave")
  /\ calls' = [calls EXCEPT ![o] = Idle]
  /\ IF calls[o].own /\ lease.owner = o /\ lease.epoch = calls[o].epoch
       THEN ReleaseExecutor(Token(o), calls[o].now)
       ELSE UNCHANGED vars

Crash(o) ==
  /\ Running(o)
  /\ calls' = [calls EXCEPT ![o] = Idle]
  /\ UNCHANGED vars
-----------------------------------------------------------------------------
ExecutorInit == Init /\ calls = [o \in Owners |-> Idle]

CallStarts ==
  \E o \in Owners, a \in Approvals, t \in Times :
    /\ t + Latency \in Times
    /\ \/ \E b \in Books, shift \in {0, AdverseTicks} :
            ExecuteAlone(o, a, t, b, shift) \/ ExecuteUnderLease(o, a, t, b, shift)
       \/ Cancel(o, a, t)

CallStep(o) ==
  Read(o) \/ ReadExpired(o) \/ Check(o) \/ Dispatch(o) \/ Walk(o) \/ Fill(o)
    \/ CancelRequest(o) \/ CancelConfirm(o) \/ Raise(o) \/ Return(o)

\* The other users of the journal: every transaction but those of a call.
OthersStep ==
  /\ \/ MoneyStep
     \/ ControlStep
     \/ SettleStep
     \/ \E a \in Approvals, p \in Plans, t \in Times : ApproveSimulated(a, p, t) \/ Prepare(a, p, t)
     \/ \E o \in Owners, t \in Times :
          ~Running(o) /\ lease.epoch < MaxEpoch /\ AcquireExecutor(o, t, MaxTtl)
  /\ UNCHANGED calls

ExecutorNext ==
  \/ CallStarts
  \/ \E o \in Owners : CallStep(o) \/ Crash(o)
  \/ OthersStep

ExecutorSpec == ExecutorInit /\ [][ExecutorNext]_callVars
-----------------------------------------------------------------------------
\* What a call remembers of its order is right as long as it holds the lease:
\* a call whose reading is stale has lost the lease, and can no longer fill.
RemainingFresh ==
  \A o \in Owners :
    (At(o, "walk") \/ At(o, "fill")) /\ lease.owner = o /\ lease.epoch = calls[o].epoch
      => calls[o].left = CallPlan(o).quantity - filled[calls[o].intent]

\* However often a book is executed against, by whichever orders, crashed and
\* repeated calls, what was taken from a level is what its fills say.
DepthExplained ==
  \A l \in Levels, side \in Sides :
    /\ consumed[<<l, side>>] <= Capacity[<<l, side>>]
    /\ consumed[<<l, side>>] =
         Total([a \in Approvals |->
                  IF state[a] # NoIntent /\ PlanOf(a).side = side
                    THEN fills[<<a, l>>].quantity ELSE 0])

\* An order that was being sent when its call crashed is never sent again nor
\* filled: it stays until it is cancelled.
UncertainNotResumed ==
  [][\A a \in Approvals :
       (state[a] = "SUBMITTING" /\ \A o \in Owners : Running(o) /\ calls[o].intent = a
                                                       => ~At(o, "acknowledge"))
         => /\ state'[a] \in {"SUBMITTING", "CANCEL_PENDING"}
            /\ filled'[a] = filled[a]]_callVars

\* Every step of a call, crashed or not, is a transaction of the core or none:
\* what is proved of the core holds while calls come and go.
ImplementsCore == Spec
=============================================================================
