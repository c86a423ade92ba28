----------------------------- MODULE PaperDaemon -----------------------------
(***************************************************************************)
(* The paper daemon around the journal (ops/daemon.py, ops/paper_candidate.py), *)
(* and the operator's commands on it (ops/cli.py): launches, crashes, the  *)
(* instance lock, the STOP file, the executor lease, the resolution of     *)
(* positions, and the orders of the candidate, one chain of transactions   *)
(* each.  The journal's own guards are those of Journal and PaperExecutor, *)
(* the money of an order is left to them.  One asset is bought per market. *)
(***************************************************************************)
EXTENDS NoValue, Integers, FiniteSets

CONSTANTS Markets,
          Launches,              \* identities a launch of the daemon may draw
          Payouts,               \* resolutions, "paid" and others that resolution_payout does not know
          Size,                  \* fills that complete an order
          Watched,               \* the markets the liveness is stated of: all are alike
          MaxFaults              \* a bound

ASSUME DaemonAssumption ==
  /\ Size \in Nat \ {0} /\ Cardinality(Launches) >= 2
  /\ None \notin {"daemon", "operator"} \cup Launches \cup Markets

VARIABLES payout,                            \* the resolution of a market
          order, filled, ordered, settled,   \* in the journal; ordered counts the intents of a market
          halt, leased, lease,               \* the stop, the control lease, the owner of the executor lease
          lock, stopFile,
          daemon, operator,
          faults

journal == <<order, filled, ordered, settled>>
control == <<halt, leased>>
vars == <<payout, journal, control, lease, lock, stopFile, daemon, operator, faults>>

Terminal == {"FILLED", "CANCELLED"}
Working == {"ACKNOWLEDGED", "OPEN", "PARTIALLY_FILLED", "CANCEL_PENDING"}
States == Terminal \cup Working \cup {"NONE", "PREPARED", "SUBMITTING"}

Off == [pc |-> "off", launch |-> None, stop |-> FALSE, todo |-> {}, doing |-> None]
AtRest == [pc |-> "off", todo |-> {}]

Init ==
  /\ payout = [m \in Markets |-> "open"]
  /\ order = [m \in Markets |-> "NONE"] /\ filled = [m \in Markets |-> 0]
  /\ ordered = [m \in Markets |-> 0] /\ settled = {}
  /\ halt = FALSE /\ leased = FALSE /\ lease = None
  /\ lock = None /\ stopFile = FALSE /\ daemon = Off /\ operator = AtRest
  /\ faults = 0

At(pc) == daemon.pc = pc
Running == daemon.pc # "off"
\* The coroutines of the daemon take turns; an evaluation does not await.
Looping == daemon.pc \in {"wait", "resolve", "scan"}
Advance(pc, todo) == daemon' = [daemon EXCEPT !.pc = pc, !.todo = todo]
Abort == Advance("wait", {})                    \* except Exception: DEGRADED_SOURCE

----------------------------------------------------------------------------
(* The world. *)

Resolution(m) ==
  /\ payout[m] = "open" /\ payout' \in {[payout EXCEPT ![m] = p] : p \in Payouts}
  /\ UNCHANGED <<journal, control, lease, lock, stopFile, daemon, operator, faults>>

resolution_payout(m) == IF payout[m] = "paid" THEN "paid" ELSE None

ControlLeaseExpires ==
  /\ leased /\ leased' = FALSE
  /\ UNCHANGED <<payout, journal, halt, lease, lock, stopFile, daemon, operator, faults>>

\* The lease of 30 seconds outlives the launch that crashed.
ExecutorLeaseExpires ==
  /\ lease # None /\ lease # daemon.launch /\ lease' = None
  /\ UNCHANGED <<payout, journal, control, lock, stopFile, daemon, operator, faults>>

----------------------------------------------------------------------------
(* A launch. *)

\* run_daemon: the lock comes before the journal is opened.  The identity drawn is one no
\* lease has, whichever: they are alike.
LaunchDaemon ==
  /\ ~Running /\ lock = None /\ lock' = "daemon"
  /\ daemon' = [Off EXCEPT !.pc = "starting", !.launch = CHOOSE n \in Launches : n # lease]
  /\ UNCHANGED <<payout, journal, control, lease, stopFile, operator, faults>>

\* finally: a lease this launch has acquired is released.
Ends ==
  /\ daemon' = Off /\ lock' = None
  /\ lease' = IF lease = daemon.launch THEN None ELSE lease
  /\ UNCHANGED <<payout, journal, control, stopFile, operator, faults>>

\* geoblock, the control identity and its pin.
Started ==
  /\ At("starting") /\ Advance("wait", {})
  /\ UNCHANGED <<payout, journal, control, lease, lock, stopFile, operator, faults>>

\* A launch that fails before its loops ends the same way.
DaemonCrash ==
  /\ Running /\ faults < MaxFaults /\ faults' = faults + 1
  /\ daemon' = Off /\ lock' = None
  /\ UNCHANGED <<payout, journal, control, lease, stopFile, operator>>

\* acquire_executor, or "another executor owns this journal".
Acquires == lease \in {None, daemon.launch}

\* lifecycle_loop: its exception ends the whole task group.
Lifecycle ==
  /\ Looping /\ Acquires
  /\ stopFile' = FALSE /\ lease' = daemon.launch
  /\ daemon' = [daemon EXCEPT !.stop = @ \/ stopFile]
  /\ UNCHANGED <<payout, journal, control, lock, operator, faults>>

LifecycleFails ==
  /\ Looping /\ ~Acquires /\ stopFile' = FALSE /\ daemon' = Off /\ lock' = None
  /\ UNCHANGED <<payout, journal, control, lease, operator, faults>>

\* shutil_free below the limit.
LowDisk ==
  /\ Looping /\ Acquires
  /\ halt' = TRUE /\ lease' = daemon.launch /\ daemon' = [daemon EXCEPT !.stop = TRUE]
  /\ UNCHANGED <<payout, journal, leased, lock, stopFile, operator, faults>>

\* control_loop, when it reaches PocketBase.
RenewLease ==
  /\ Looping /\ ~leased /\ leased' = TRUE
  /\ UNCHANGED <<payout, journal, halt, lease, lock, stopFile, daemon, operator, faults>>

----------------------------------------------------------------------------
(* market_loop *)

Finish == At("wait") /\ daemon.stop /\ Ends

Positions == {m \in Markets : filled[m] > 0 /\ m \notin settled}

BeginCycle ==
  /\ At("wait") /\ ~daemon.stop /\ Advance("resolve", Positions)
  /\ UNCHANGED <<payout, journal, control, lease, lock, stopFile, operator, faults>>

\* Mutant: a settlement waits for the orders of every market.
ReconciledAll(m) == \A n \in Markets : order[n] \in Terminal \cup {"NONE"}

Reconciled(m) == order[m] \in Terminal

\* A position is looked up; settle raises while an order of its asset is open, and that
\* ends the cycle for every market.
Resolve(m) ==
  /\ At("resolve") /\ m \in daemon.todo
  /\ IF resolution_payout(m) = None
     THEN Advance("resolve", daemon.todo \ {m}) /\ UNCHANGED settled
     ELSE IF Reconciled(m)
     THEN Advance("resolve", daemon.todo \ {m}) /\ settled' = settled \cup {m}
     ELSE Abort /\ UNCHANGED settled
  /\ UNCHANGED <<payout, order, filled, ordered, control, lease, lock, stopFile, operator, faults>>

\* A request of the cycle raises.
SourceFails ==
  /\ At("resolve") /\ faults < MaxFaults /\ faults' = faults + 1 /\ Abort
  /\ UNCHANGED <<payout, journal, control, lease, lock, stopFile, operator>>

BeginScan ==
  /\ At("resolve") /\ daemon.todo = {} /\ Advance("scan", {m \in Markets : payout[m] = "open"})
  /\ UNCHANGED <<payout, journal, control, lease, lock, stopFile, operator, faults>>

\* stop, or the last market done; the projections follow.
EndScan ==
  /\ At("scan") /\ (daemon.todo = {} \/ daemon.stop) /\ Advance("wait", {})
  /\ UNCHANGED <<payout, journal, control, lease, lock, stopFile, operator, faults>>

\* Mutant: an attempt that ended without a fill is not an attempt.
AttemptedFilled(m) == order[m] \notin {"NONE", "CANCELLED"}

Attempted(m) == order[m] # "NONE"

\* Every reason of the data to abstain, or an exception of the market's own.
Abstain(m) ==
  /\ At("scan") /\ m \in daemon.todo /\ ~daemon.stop /\ Acquires
  /\ lease' = daemon.launch
  /\ daemon' = [daemon EXCEPT !.todo = @ \ {m}]
  /\ UNCHANGED <<payout, journal, control, lock, stopFile, operator, faults>>

ScanFenced ==
  /\ At("scan") /\ daemon.todo # {} /\ ~daemon.stop /\ ~Acquires /\ Abort
  /\ UNCHANGED <<payout, journal, control, lease, lock, stopFile, operator, faults>>

\* evaluate, up to the approval and the reservation.
Prepare(m) ==
  /\ At("scan") /\ m \in daemon.todo /\ ~daemon.stop /\ Acquires
  /\ ~Attempted(m)
  /\ ~halt /\ leased /\ m \notin settled
  /\ order' = [order EXCEPT ![m] = "PREPARED"] /\ ordered' = [ordered EXCEPT ![m] = @ + 1]
  /\ lease' = daemon.launch /\ daemon' = [daemon EXCEPT !.pc = "order", !.todo = @ \ {m}, !.doing = m]
  /\ UNCHANGED <<payout, filled, settled, control, lock, stopFile, operator, faults>>

Evaluating(m) == At("order") /\ daemon.doing = m

\* One transaction of a chain.
Journaled(m, next) ==
  /\ order' = [order EXCEPT ![m] = next]
  /\ UNCHANGED <<payout, ordered, settled, control, lease, lock, stopFile, faults>>

Submit(m) ==
  /\ Evaluating(m) /\ order[m] = "PREPARED" /\ ~halt /\ leased
  /\ Journaled(m, "SUBMITTING") /\ UNCHANGED <<filled, daemon, operator>>

\* execute raises: the order stays as it is, and the market is passed over.
OrderRefused(m) ==
  /\ Evaluating(m) /\ order[m] = "PREPARED" /\ (halt \/ ~leased)
  /\ daemon' = [daemon EXCEPT !.pc = "scan", !.doing = None]
  /\ UNCHANGED <<payout, journal, control, lease, lock, stopFile, operator, faults>>

Acknowledge(m) ==
  /\ Evaluating(m) /\ \/ order[m] = "SUBMITTING" /\ Journaled(m, "ACKNOWLEDGED")
                      \/ order[m] = "ACKNOWLEDGED" /\ Journaled(m, "OPEN")
  /\ UNCHANGED <<filled, daemon, operator>>

ApplyFill(m) ==
  /\ Evaluating(m) /\ order[m] \in {"OPEN", "PARTIALLY_FILLED"}
  /\ filled' = [filled EXCEPT ![m] = @ + 1]
  /\ Journaled(m, IF filled[m] + 1 = Size THEN "FILLED" ELSE "PARTIALLY_FILLED")
  /\ UNCHANGED <<daemon, operator>>

\* PaperExecutor.cancel, of a process: the request, then the confirmation.
RequestCancel(m) == order[m] \notin Terminal \cup {"CANCEL_PENDING"} /\ Journaled(m, "CANCEL_PENDING")
ConfirmCancel(m) == order[m] = "CANCEL_PENDING" /\ Journaled(m, "CANCELLED")

\* The rest of an order of the daemon is cancelled when the walk of the book is over.
CancelRest(m) ==
  /\ Evaluating(m) /\ order[m] \notin {"PREPARED", "SUBMITTING", "ACKNOWLEDGED"}
  /\ RequestCancel(m) \/ ConfirmCancel(m)
  /\ UNCHANGED <<filled, daemon, operator>>

Evaluated(m) ==
  /\ Evaluating(m) /\ order[m] \in Terminal
  /\ daemon' = [daemon EXCEPT !.pc = "scan", !.doing = None]
  /\ UNCHANGED <<payout, journal, control, lease, lock, stopFile, operator, faults>>

----------------------------------------------------------------------------
(* The operator. *)

\* Mutant: start withdraws a stop without the lock.
WithdrawStopAnyway ==
  /\ stopFile /\ stopFile' = FALSE
  /\ UNCHANGED <<payout, journal, control, lease, lock, daemon, operator, faults>>

\* start: a stop that no daemon has read is withdrawn, under the lock.
WithdrawStop ==
  /\ lock = None /\ stopFile /\ stopFile' = FALSE
  /\ UNCHANGED <<payout, journal, control, lease, lock, daemon, operator, faults>>

RequestStop ==
  /\ ~stopFile /\ stopFile' = TRUE
  /\ UNCHANGED <<payout, journal, control, lease, lock, daemon, operator, faults>>

\* pause
Pause ==
  /\ ~halt /\ halt' = TRUE
  /\ UNCHANGED <<payout, journal, leased, lease, lock, stopFile, daemon, operator, faults>>

\* cancel-open holds the lock of the daemon; an order that is being sent is left alone.
CancelOpen ==
  /\ operator = AtRest /\ lock = None /\ lock' = "operator"
  /\ operator' = [pc |-> "cancel", todo |-> {m \in Markets : order[m] \notin {"NONE", "SUBMITTING"}}]
  /\ UNCHANGED <<payout, journal, control, lease, stopFile, daemon, faults>>

CancelNext(m) ==
  /\ operator.pc = "cancel" /\ m \in operator.todo
  /\ \/ RequestCancel(m) /\ UNCHANGED operator
     \/ ConfirmCancel(m) /\ UNCHANGED operator
     \/ /\ order[m] \in Terminal /\ operator' = [operator EXCEPT !.todo = @ \ {m}]
        /\ UNCHANGED <<payout, journal, control, lease, lock, stopFile, faults>>
  /\ UNCHANGED <<filled, daemon>>

CancelEnds ==
  /\ operator.pc = "cancel" /\ operator.todo = {} /\ operator' = AtRest /\ lock' = None
  /\ UNCHANGED <<payout, journal, control, lease, stopFile, daemon, faults>>

CancelDies ==
  /\ operator.pc = "cancel" /\ faults < MaxFaults /\ faults' = faults + 1
  /\ operator' = AtRest /\ lock' = None
  /\ UNCHANGED <<payout, journal, control, lease, stopFile, daemon>>

----------------------------------------------------------------------------
OrderStep(m) ==
  Submit(m) \/ OrderRefused(m) \/ Acknowledge(m) \/ ApplyFill(m) \/ CancelRest(m) \/ Evaluated(m)

CycleStep == BeginCycle \/ BeginScan \/ EndScan \/ Finish \/ ScanFenced

Next ==
  \/ ControlLeaseExpires \/ ExecutorLeaseExpires
  \/ LaunchDaemon \/ Started \/ DaemonCrash \/ Lifecycle \/ LifecycleFails \/ LowDisk \/ RenewLease
  \/ CycleStep \/ SourceFails
  \/ WithdrawStop \/ RequestStop \/ Pause \/ CancelOpen \/ CancelEnds \/ CancelDies
  \/ \E m \in Markets : Resolution(m) \/ Resolve(m) \/ Abstain(m) \/ Prepare(m)
                        \/ OrderStep(m) \/ CancelNext(m)

Spec == Init /\ [][Next]_vars

Interrupted == {m \in Markets : order[m] \in (Working \cup {"PREPARED"}) /\ ~Evaluating(m)}

\* The event loop runs its coroutines, a source answers again and again, the service
\* manager launches the daemon when it ended, not every launch is stopped before its
\* first cycle, and the operator, who sees an interrupted order, stops the daemon and
\* runs cancel-open (docs/OPERATIONS.md).
Fairness ==
  /\ WF_vars(ExecutorLeaseExpires) /\ SF_vars(LaunchDaemon) /\ WF_vars(Started)
  /\ WF_vars(Lifecycle) /\ WF_vars(LifecycleFails) /\ WF_vars(CycleStep) /\ SF_vars(BeginCycle)
  /\ \A m \in Markets : /\ WF_vars(OrderStep(m)) /\ WF_vars(CancelNext(m)) /\ WF_vars(Abstain(m) \/ Resolve(m))
  /\ WF_vars(RequestStop /\ Interrupted # {}) /\ SF_vars(CancelOpen /\ Interrupted # {}) /\ WF_vars(CancelEnds)

FairSpec == Spec /\ Fairness

----------------------------------------------------------------------------
(* Properties. *)

\* Orders and fills stay in their sets, and the instance lock is held by exactly the
\* program that runs (InstanceLock).
TypeOK ==
  /\ order \in [Markets -> States] /\ filled \in [Markets -> 0 .. Size] /\ settled \subseteq Markets
  /\ lock \in {None, "daemon", "operator"} /\ lease \in Launches \cup {None}
  /\ (lock = "daemon") = Running /\ (lock = "operator") = (operator # AtRest)

\* One attempt per market, across faults, launches, halts and cancellations
\* (MARKET_ALREADY_ATTEMPTED).
OneAttempt == \A m \in Markets : ordered[m] <= 1

\* What is settled is final: no order of the market is open, and nothing is filled later.
SettledFinal == [][\A m \in settled : filled'[m] = filled[m] /\ order'[m] = order[m]]_vars

\* A stop request that reaches a running daemon ends it, whatever its cycle does.
StopHonoured == (stopFile /\ Running) ~> ~Running

\* With an operator who stops the daemon and cancels, every interrupted order is closed,
\* but one caught while it was being sent ...
InterruptedClosed ==
  \A m \in Watched : order[m] \in Working \cup {"PREPARED"} ~> order[m] \in Terminal \cup {"SUBMITTING"}

\* ... and every position of a resolved market is settled, although an open order of one
\* market ends the cycle of all.
PositionsSettled ==
  \A m \in Watched : (filled[m] > 0 /\ payout[m] = "paid") ~> m \in settled

\* Across faults, launches, halts and cancellations a market is attempted once, by one
\* program at a time, and stays as it was settled.
AttemptsFinal == [](TypeOK /\ OneAttempt) /\ SettledFinal

\* Nothing that a crash or a stop left behind stays open: neither an order that was not
\* being sent, nor a position.
NothingLeftOpen == InterruptedClosed /\ PositionsSettled
=============================================================================
