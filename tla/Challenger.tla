------------------------------ MODULE Challenger ------------------------------
(***************************************************************************)
(* The frozen challenger experiment: register, load_manifest, the journal  *)
(* ExperimentJournal with its lock and its recovery, observe_once,         *)
(* settle_pending and the loop of scripts/run_btc_challenger.py.           *)
(*                                                                         *)
(* Time is counted in phases, four for every five minute market.           *)
(* A pending event is one whose write has begun: a crash may leave a part. *)
(***************************************************************************)
EXTENDS Integers, FiniteSets, FiniteSetsExt, Sequences, SequencesExt, EventLog, Totals

CONSTANTS Procs, Paths, Versions,
          Capital, Stake, Orders,     \* Orders: [qty, cost] an order may fill, no cost above Stake
          MaxTime, MaxErrors

Kind == {"ERROR", "OPPORTUNITY", "PREDICTION", "REJECTION", "NO_FILL", "PAPER_FILL",
         "OUTCOME", "SETTLEMENT"}

\* An event of the journal: every one but an error is of a market.
Events ==
  {e \in [type : Kind, market : {0} \cup Markets, seq : Nat, config : Paths, qty : Nat, cost : Nat,
           side : {Null, "UP", "DOWN"}, payout : 0 .. 2] : e.type # "ERROR" => e.market \in Markets}

ASSUME ChallengerAssumption ==
  /\ IsFiniteSet(Markets) /\ Markets \subseteq Nat \ {0}
  /\ {Capital, Stake, MaxTime} \subseteq Nat /\ Orders \subseteq [qty : Nat, cost : Nat]
  /\ {Null, Garbage} \cap Events = {} /\ Null \notin Procs \cup Paths

VARIABLES now, result,               \* the clock and the official results
          manifest, version,         \* manifests by path, deployed implementation
          file, lock, pc, config, mem, pending, at, todo

challenger_vars == <<now, result, manifest, version, file, lock, pc, config, mem, pending, at, todo>>
world == <<now, result, manifest, version>>
local == <<config, at, todo>>

----------------------------------------------------------------------------
(* The events and what the journal accepts behind them. *)

Blank == [type |-> "ERROR", market |-> 0, seq |-> 0, config |-> Null,
          qty |-> 0, cost |-> 0, side |-> Null, payout |-> 0]

TheSettlement(events, m) == CHOOSE e \in ToSet(events) : e.market = m /\ e.type = "SETTLEMENT"

Costs(events, ms) == Total([m \in ms |-> TheFill(events, m).cost])
Payouts(events, ms) == Total([m \in ms |-> TheFill(events, m).qty * TheSettlement(events, m).payout])

balances(events) ==
  LET settled == Having(events, "SETTLEMENT")
      open == Having(events, "PAPER_FILL") \ settled
      pnl == Payouts(events, settled) - Costs(events, settled)
      reserved == Costs(events, open)
  IN [pnl |-> pnl, reserved |-> reserved, cash |-> Capital + pnl - reserved]

\* ExperimentJournal._validate: what may follow, kind by kind.
Valid(events, e) ==
  LET kinds == Kinds(events, e.market)
  IN \/ e.type = "ERROR"
     \/ e.type = "OPPORTUNITY" /\ e.type \notin kinds
     \/ /\ e.type \in {"PREDICTION", "REJECTION", "NO_FILL", "PAPER_FILL", "OUTCOME", "SETTLEMENT"}
        /\ "OPPORTUNITY" \in kinds /\ e.type \notin kinds
        /\ e.type \in {"PAPER_FILL", "NO_FILL", "OUTCOME"} => "PREDICTION" \in kinds
        /\ e.type = "PAPER_FILL" => /\ kinds \cap {"NO_FILL", "REJECTION"} = {}
                                    /\ e.cost <= Min({Stake, balances(events).cash})
        /\ e.type = "PREDICTION" => "REJECTION" \notin kinds
        /\ e.type = "SETTLEMENT" => "PAPER_FILL" \in kinds

\* ExperimentJournal._recover over the whole lines: every line is parsed, bound to
\* this configuration and to its place in the chain, and validated again.
Recovers(events, c) ==
  \A i \in DOMAIN events :
    /\ events[i] # Garbage
    /\ events[i].config = c /\ events[i].seq = i - 1
    /\ Valid(SubSeq(events, 1, i - 1), events[i])

----------------------------------------------------------------------------
ChallengerInit ==
  /\ now = 0 /\ result = [m \in Markets |-> Null]
  /\ manifest = [x \in Paths |-> Null] /\ version \in Versions
  /\ file = EmptyFile /\ lock = Null
  /\ pc = [p \in Procs |-> "down"] /\ config = [p \in Procs |-> Null]
  /\ mem = [p \in Procs |-> <<>>] /\ pending = [p \in Procs |-> Null]
  /\ at = [p \in Procs |-> 0] /\ todo = [p \in Procs |-> {}]

Goto(p, label) == pc' = [pc EXCEPT ![p] = label]

\* journal.append: validated against the memory, then its line is written.
Begin(p, e) ==
  /\ Valid(mem[p], e)
  /\ pending' = [pending EXCEPT ![p] = [e EXCEPT !.seq = Len(mem[p]), !.config = config[p]]]
  /\ UNCHANGED <<file, lock, mem>>

Event(kind, m) == [Blank EXCEPT !.type = kind, !.market = m]
Ready(p, label) == pc[p] = label /\ pending[p] = Null

\* The line, its newline and the fsync are on the disk: the event is appended.
Appended(p) ==
  /\ pending[p] # Null
  /\ file' = Written(file, pending[p])
  /\ mem' = [mem EXCEPT ![p] = Append(@, pending[p])]
  /\ pending' = [pending EXCEPT ![p] = Null]
  /\ UNCHANGED <<world, lock, pc, local>>

Ends(p) ==
  /\ Goto(p, "down")
  /\ lock' = Null
  /\ mem' = [mem EXCEPT ![p] = <<>>] /\ pending' = [pending EXCEPT ![p] = Null]
  /\ config' = [config EXCEPT ![p] = Null]
  /\ at' = [at EXCEPT ![p] = 0] /\ todo' = [todo EXCEPT ![p] = {}]

\* The process dies, or an error of the file system ends it.
Crash(p) ==
  /\ pc[p] # "down"
  /\ IF pending[p] = Null THEN UNCHANGED file ELSE file' \in Interrupted(file, pending[p])
  /\ Ends(p) /\ UNCHANGED world

\* The stop file or the end of the duration, at the top of the loop.
Stop(p) == Ready(p, "idle") /\ Ends(p) /\ UNCHANGED <<world, file>>

----------------------------------------------------------------------------
(* Registration and start. *)

register(path) ==
  /\ manifest[path] = Null
  /\ manifest' = [manifest EXCEPT ![path] = version]
  /\ UNCHANGED <<now, result, version, file, lock, pc, config, mem, pending, at, todo>>

\* The code of the experiment is edited: implementation_hash changes.
Deploy(v) ==
  /\ version' = v /\ v # version
  /\ UNCHANGED <<now, result, manifest, file, lock, pc, config, mem, pending, at, todo>>

load_manifest(path) == manifest[path] # Null /\ manifest[path] = version

Enter(p, path) ==
  /\ pc[p] = "down" /\ load_manifest(path)
  /\ lock = Null /\ lock' = p
  /\ Goto(p, "recovering") /\ config' = [config EXCEPT ![p] = path]
  /\ UNCHANGED <<world, file, mem, pending, at, todo>>

\* The tail is copied to a file of its own, then cut off.
Quarantine(p) ==
  /\ pc[p] = "recovering" /\ file.tail # NoTail
  /\ file' = Truncated(file)
  /\ UNCHANGED <<world, lock, pc, local, mem, pending>>

\* Mutant: the last line is taken for a torn one.
RecoverDrops(p) ==
  /\ pc[p] = "recovering" /\ file.tail = NoTail /\ Recovers(file.lines, config[p])
  /\ mem' = [mem EXCEPT ![p] = SubSeq(file.lines, 1, Len(file.lines) - 1)]
  /\ Goto(p, "idle")
  /\ UNCHANGED <<world, file, lock, local, pending>>

Recover(p) ==
  /\ pc[p] = "recovering" /\ file.tail = NoTail /\ Recovers(file.lines, config[p])
  /\ mem' = [mem EXCEPT ![p] = file.lines]
  /\ Goto(p, "idle")
  /\ UNCHANGED <<world, file, lock, local, pending>>

RecoverRefuses(p) ==
  /\ pc[p] = "recovering" /\ file.tail = NoTail /\ ~Recovers(file.lines, config[p])
  /\ Ends(p) /\ UNCHANGED <<world, file>>

----------------------------------------------------------------------------
(* observe_once. *)

Claim(p) ==
  /\ Ready(p, "idle") /\ Current(now) \in Markets
  /\ ~Attempted(mem[p], Current(now)) /\ Phase(now) > 0
  /\ Begin(p, Event("OPPORTUNITY", Current(now)))
  /\ Goto(p, IF Phase(now) = 1 THEN "claimed" ELSE "missed")
  /\ at' = [at EXCEPT ![p] = Current(now)]
  /\ UNCHANGED <<world, config, todo>>

Missed(p) ==
  /\ Ready(p, "missed") /\ Begin(p, Event("REJECTION", at[p]))
  /\ Goto(p, "idle") /\ UNCHANGED <<world, local>>

\* The inputs arrived inside the window and the model gave a probability.
Predict(p) ==
  /\ Ready(p, "claimed") /\ at[p] = Current(now) /\ Phase(now) = 1
  /\ Begin(p, Event("PREDICTION", at[p]))
  /\ \E next \in {"abstaining", "chosen"} : Goto(p, next)
  /\ UNCHANGED <<world, local>>

NoFill(p) == Begin(p, Event("NO_FILL", at[p])) /\ Goto(p, "idle") /\ UNCHANGED <<world, local>>

Abstain(p) == Ready(p, "abstaining") /\ NoFill(p)

\* After the latency both books are read again and the order is checked again.
recheck_fill(p) ==
  /\ at[p] = Current(now) /\ Phase(now) < 3
  /\ balances(mem[p]).cash >= Stake

Fill(p) ==
  /\ Ready(p, "chosen")
  /\ \E order \in Orders, side \in {"UP", "DOWN"} :
       /\ recheck_fill(p)
       /\ Begin(p, [Event("PAPER_FILL", at[p]) EXCEPT
                     !.qty = order.qty, !.cost = order.cost, !.side = side])
  /\ Goto(p, "idle") /\ UNCHANGED <<world, local>>

\* A price that moved, an edge that is gone, a book without depth, too little time.
FillRefused(p) == Ready(p, "chosen") /\ NoFill(p)

\* A request fails, or an input is refused, before or after the prediction.
Fails(p) ==
  /\ Ready(p, "claimed") \/ Ready(p, "chosen")
  /\ Begin(p, Event(IF "PREDICTION" \in Kinds(mem[p], at[p]) THEN "NO_FILL" ELSE "REJECTION", at[p]))
  /\ Goto(p, "idle") /\ UNCHANGED <<world, local>>

----------------------------------------------------------------------------
(* settle_pending: the predictions in the order of the journal. *)

\* Mutant: a market with an outcome needs nothing more.
ClosedByOutcome(events, m) == "OUTCOME" \in Kinds(events, m)

Closed(events, m) ==
  /\ "OUTCOME" \in Kinds(events, m)
  /\ "PAPER_FILL" \in Kinds(events, m) => "SETTLEMENT" \in Kinds(events, m)

Settle(p) ==
  /\ Ready(p, "idle")
  /\ Goto(p, "settling")
  /\ todo' = [todo EXCEPT ![p] = {m \in Having(mem[p], "PREDICTION") : ~Closed(mem[p], m)}]
  /\ UNCHANGED <<world, file, lock, mem, pending, config, at>>

\* The next prediction of the pass whose market is over.
Visits(p, m) == Ready(p, "settling") /\ todo[p] # {} /\ m = Min(todo[p])
Leave(p, m) == todo' = [todo EXCEPT ![p] = @ \ {m}]

\* Not over yet, or not officially resolved.
Skip(p, m) ==
  /\ Visits(p, m) /\ (~Ended(now, m) \/ result[m] = Null) /\ Leave(p, m)
  /\ UNCHANGED <<world, file, lock, pc, mem, pending, config, at>>

RecordOutcome(p, m) ==
  /\ Visits(p, m) /\ Ended(now, m) /\ result[m] # Null /\ "OUTCOME" \notin Kinds(mem[p], m)
  /\ Begin(p, [Event("OUTCOME", m) EXCEPT !.payout = result[m]])
  /\ UNCHANGED <<world, pc, local>>

\* With the answer that gave the outcome, or with one of a later pass.
RecordSettlement(p, m) ==
  /\ Visits(p, m) /\ Ended(now, m) /\ result[m] # Null /\ "OUTCOME" \in Kinds(mem[p], m)
  /\ IF "PAPER_FILL" \in Kinds(mem[p], m)
       THEN Begin(p, [Event("SETTLEMENT", m) EXCEPT !.payout =
                       IF TheFill(mem[p], m).side = "UP" THEN result[m] ELSE 2 - result[m]])
       ELSE UNCHANGED <<file, lock, mem, pending>>
  /\ Leave(p, m) /\ UNCHANGED <<world, pc, config, at>>

SettleEnds(p) ==
  /\ Ready(p, "settling") /\ todo[p] = {} /\ Goto(p, "idle")
  /\ UNCHANGED <<world, file, lock, mem, pending, local>>

\* A request of the pass fails: the pass ends there and an ERROR is recorded.
SettleFails(p, m) ==
  /\ Visits(p, m) /\ Ended(now, m)
  /\ Cardinality({i \in DOMAIN mem[p] : mem[p][i].type = "ERROR"}) < MaxErrors
  /\ Begin(p, Blank)
  /\ Goto(p, "idle") /\ todo' = [todo EXCEPT ![p] = {}]
  /\ UNCHANGED <<world, config, at>>

----------------------------------------------------------------------------
Tick ==
  /\ now < MaxTime /\ now' = now + 1
  /\ UNCHANGED <<result, manifest, version, file, lock, pc, config, mem, pending, at, todo>>

\* The official resolution: two, one or no half shares to Up, and final.
Resolve(m, r) ==
  /\ Ended(now, m) /\ result[m] = Null /\ result' = [result EXCEPT ![m] = r]
  /\ UNCHANGED <<now, manifest, version, file, lock, pc, config, mem, pending, at, todo>>

Observing(p) ==
  Claim(p) \/ Missed(p) \/ Predict(p) \/ Abstain(p) \/ Fill(p) \/ FillRefused(p) \/ Fails(p)
Settling(p) ==
  \/ Settle(p) \/ SettleEnds(p)
  \/ \E m \in Markets : Skip(p, m) \/ RecordOutcome(p, m) \/ RecordSettlement(p, m) \/ SettleFails(p, m)
Opening(p) == (\E path \in Paths : Enter(p, path)) \/ Quarantine(p) \/ Recover(p) \/ RecoverRefuses(p)
World == Tick \/ \E m \in Markets, r \in 0 .. 2 : Resolve(m, r)
Operator == (\E path \in Paths : register(path)) \/ \E v \in Versions : Deploy(v)

ChallengerNext ==
  \/ World \/ Operator
  \/ \E p \in Procs : Opening(p) \/ Observing(p) \/ Settling(p) \/ Appended(p) \/ Stop(p) \/ Crash(p)

ChallengerSpec == ChallengerInit /\ [][ChallengerNext]_challenger_vars

\* The requests of a running program are answered in the end; the operator owes nothing.
Answered(p) == Missed(p) \/ Predict(p) \/ Abstain(p) \/ FillRefused(p) \/ Fails(p)
Visited(p, m) == Skip(p, m) \/ RecordOutcome(p, m) \/ RecordSettlement(p, m)
ChallengerFairness(p) ==
  /\ WF_challenger_vars(Appended(p)) /\ WF_challenger_vars(Quarantine(p) \/ Recover(p))
  /\ WF_challenger_vars(Answered(p))
  /\ SF_challenger_vars(Settle(p)) /\ WF_challenger_vars(SettleEnds(p))
  /\ \A m \in Markets : WF_challenger_vars(Visited(p, m))

FairChallengerSpec == ChallengerSpec /\ \A p \in Procs : ChallengerFairness(p)

----------------------------------------------------------------------------
(* Properties. *)

\* Every value stays in its set; the lock belongs to the one process that is up.
TypeOK ==
  /\ now \in 0 .. MaxTime /\ result \in [Markets -> {Null} \cup 0 .. 2]
  /\ manifest \in [Paths -> {Null} \cup Versions] /\ version \in Versions
  /\ lock \in Procs \cup {Null} /\ \A p \in Procs : pc[p] # "down" <=> lock = p
  /\ at \in [Procs -> {0} \cup Markets] /\ todo \in [Procs -> SUBSET Markets]

\* Whatever was cut off by whatever crash, the whole lines of the journal pass the
\* recovery (_recover): a restarted experiment can always go on.
Reopens == file.lines = <<>> \/ Recovers(file.lines, file.lines[1].config)

\* What a running experiment computes with is what the disk holds, also when the
\* events before it were written by a process that crashed.
MemoryIsDurable == \A p \in Procs : pc[p] \notin {"down", "recovering"} => mem[p] = file.lines

\* Over every crash and restart, the fills are paid from cash that was there, and
\* no settlement is counted twice (balances, _validate).
CashCovered == balances(file.lines).cash >= 0

\* One journal never mixes two registered experiments (config_sha256).
OneConfig == \A i, j \in DOMAIN file.lines : file.lines[i].config = file.lines[j].config

\* A restarted experiment can always go on from its journal, of one experiment, and computes
\* with what its disk holds (_recover, ExperimentJournal).
Recoverable == TypeOK /\ Reopens /\ MemoryIsDurable /\ OneConfig

\* "A crash after an OPPORTUNITY records a missed opportunity, never a retry": an
\* attempt that is in the file and that no process is in is never taken up again, and
\* its market never gets a prediction or a fill (class ExperimentJournal).
NotResumed ==
  \A m \in Markets : Attempted(file.lines, m) /\ (\A p \in Procs : at[p] # m) =>
    /\ \A p \in Procs : at'[p] # m
    /\ \A kind \in {"PREDICTION", "PAPER_FILL"} :
         kind \in Kinds(file'.lines, m) => kind \in Kinds(file.lines, m)
\* Every step is one that resumes no attempt (ExperimentJournal).
NeverRetried == [][NotResumed]_challenger_vars

\* The file is an append-only log of whole events: a torn tail is never part of it
\* and what is in it is never changed (ExperimentJournal implements AppendLog).
WholeEvent(e) == e # Garbage
Log == INSTANCE AppendLog WITH log <- file.lines, IsRecord <- WholeEvent
\* The detailed specification of the journal implements the abstract log.
ImplementsLog == Log!Spec

\* While the experiment is kept running, no fill of an officially resolved market stays
\* unsettled, whatever crashes there were between the outcome and the payment: again and
\* again all of them are settled, and a settlement is never undone (ImplementsLog).
AllSettled ==
  \A m \in Markets :
    "PAPER_FILL" \in Kinds(file.lines, m) /\ result[m] # Null => "SETTLEMENT" \in Kinds(file.lines, m)
\* All are settled again and again, once a process is kept running (settle).
FillsSettled == <>[](\E p \in Procs : pc[p] # "down") => []<>AllSettled
=============================================================================
