# EdgeHunter in TLA+

EdgeHunter is a paper-trading daemon for prediction markets: it reads public order
books, lets frozen research models propose simulated orders, and keeps every
consequence in a durable SQLite journal that a risk engine consults before each
order.  This directory models the parts of it whose correctness depends on the order
of things: transactions of several processes, crashes between them, stale reads,
expiring leases, messages that are repeated or refused.

Paths below are relative to `src/` of the repository; the Python package is
`src/edgehunter`.

## The system

| Component | State | Operations | Talks to |
|---|---|---|---|
| Exact arithmetic, `domain/models.py` | none | rounding of debits and credits, fee formulas, cost cap | used by journal and risk engine |
| Journal, `storage/journal.py` | one SQLite file: ledger, approvals, intents, fills, positions, settled assets, control, commands, outbox, executor lease, paper liquidity | deposit, cost, approve, reserve, transition, cancel, fill, settle, halt, leases, commands; each one `BEGIN IMMEDIATE` transaction | everything |
| Risk engine, `risk/engine.py` | none of its own | `prepare`: validates inside the reserving transaction; halts afterwards on a loss breach | journal |
| Paper executor, `execution/paper.py` | local variables of a call | `execute`: dispatch, acknowledge, open, walk the book; `cancel` | journal, one transaction per step |
| Candidate, `ops/paper_candidate.py` | the frozen model | `evaluate`: abstain, or approve, prepare, execute, cancel | risk engine, executor |
| Daemon, `ops/daemon.py`, `ops/lock.py` | instance lock, status, pinned actor | startup, control loop, market loop, lifecycle loop | journal, panel, venue, notifications |
| Operator commands, `ops/cli.py` | none | pause, stop, cancel-open, reports | journal, instance lock |
| Panel, `pocketbase/pb_hooks`, `storage/pocketbase.py`, `ops/pocketbase.py` | command records, projections | create, decide, advance, upsert | daemon, the human |
| Panel on disk, `ops/pocketbase.py`, `scripts/pocketbase_*.py` | credentials, `data.db`, snapshots, the marker of a restored copy | provision, start, backup, restore | daemon, the operator |
| Notifications, `notifications/delivery.py` | its own SQLite file | enqueue, claim, send, delivery events | daemon, mail provider |
| Public client, `ingestion/http.py` | semaphore, time of the last request | `get` with retries | every loop that reads a source |
| Provider budget, `intelligence/providers.py`, `jev_forecast.py`, `jev_commander.py` | a SQLite table; circuits and caches in memory | reserve, call, finish | JEV commander, classifier, forecasts |
| Frozen challenger, `research/btc_challenger.py`, `scripts/run_btc_challenger.py` | manifest, hash-chained event file, lock | register, observe, settle | venue, file |
| JEV runner, `research/btc_jev_runner.py`, `scripts/run_btc_jev.py` | event file, lock | observe, decide, fill, score, settle | venue, commander, file |
| Lag runner, `scripts/run_btc_paper.py` | event file | settle, observe | venue, file |
| History download, `research/btc_history_download.py` | catalog, prices, candles, checkpoint of a shard | download, resume, merge | venue, files |
| Checkpoint, `research/evaluation_checkpoint.py` | a directory per experiment | candidates, holdout, final result | the two evaluations |
| Research numerics | data sets | splits, replays, backtests, Monte Carlo | - |
| Strategies, treasury, archive, reports, configuration, deployment | none, or files written once | computations and I/O | - |

What is hard: the journal is shared by processes that know nothing of each other (the
daemon, the operator's commands, tests and demos); a call of the executor is a chain of
transactions that may stop after any of them; timestamps are the callers', not the
journal's; the panel, the venue and the mail are other systems that may fail between
two steps.  `PROJECT.json` lists each such hazard with its line.

What makes each part correct:

- *Money and journal*: every debit and credit is explained by a table row, rounding
  never charges an order more than what was reserved for it, the last sale of a position
  leaves a cost basis of zero, and the ledger, the intents and the positions agree after
  every transaction, whoever makes it.
- *Risk engine*: concurrent orders together stay inside the envelope, in total and per
  cluster; together they never sell more than is owned; once a stop is persisted the
  exposure does not grow; the drawdown is measured from a mark that is never too low.
- *Executor*: it fills under a lease only, what it remembers of its order is right as
  long as it holds the lease, an order that was perhaps sent is never sent again, and a
  level of a book is never consumed beyond its depth.
- *Control plane*: a command takes force only as the pinned human decided it, the panel
  never shows a stop as applied that is not persisted, an approved stop takes force at
  last, events of the outbox reach the panel in order and once.
- *Trading loops*: one attempt per market, a stop that is honoured, no interrupted order
  that stays open once the operator acts, no position of a resolved market that is never
  settled because an order of another one was interrupted.
- *Event files*: what a process acts on is in the file, a file that was cut off is read
  again, a market is bet on once and its fill is settled.
- *Notifications, budget, client*: no message that may have been accepted is sent again, no
  more is owed to the provider than the cap, requests keep their pace and end.
- *Panel on disk and projections*: no identity is replaced, no part of a database comes up,
  a restored copy halts; what is shown never goes back.
- *Research*: the holdout is measured once and for the best of all candidates, no part of a
  split knows the label of a later one, no row knows its future, a reported path is one an
  account could follow.

## Modules of the financial core

*Money* - the integer form of the decimal arithmetic: amounts in the unit that
`money()` rounds up to and `proceeds()` rounds down to, prices in ticks of `1/One`,
fee rates in parts of `FeeScale`.  *Totals* - the sum over a table, as the number of units
its rows hold, so that its laws follow from those of finite cardinalities and need no
recursion.  *TotalProofs* proves them: a total changes by what one entry changes, is
monotone, and splits at an index.

*Journal* - every mutation of `storage/journal.py` is one action with the guards, early
returns and writes of its transaction.  A raised exception rolls back, so it is an
action that is not taken, except the two that commit something: a rejected dispatch
commits a halt (`TransitionHalts`), and a call that finds its work done stutters.
Tables are functions from their keys; an intent is named by the approval it consumes,
which the code makes unique.  The ledger is kept as its balances plus, for each kind
of transaction, the ids posted.

*RiskEngine* - `validate` and `prepare`, and the specification `Spec` of the whole
financial core: any caller, any order of transactions, any timestamps.  A crash anywhere
is an interleaving in which the rest of a caller's steps do not come, so here holds
across crashes.  *RiskEngineProofs* proves its types and all of its properties: the validity
of the books, what an order may cost, the envelope, the stops, and what no later transaction
may take back.

*PaperExecutor* - `execution/paper.py`.  `calls[o]` is the call that process `o` has in
progress: its program counter and local variables (the intent as it was read once, the
quantity left, the place in the book, the token of the lease).  One action per
transaction or per read the code makes:

| Code | Action |
|---|---|
| `execute` takes a lease of its own, or is given a token | `ExecuteAlone`, `ExecuteUnderLease` |
| the intent is read, its time, state and expiry checked | `Read`, `ReadExpired` |
| control state and control lease read | `Check` |
| SUBMITTING, ACKNOWLEDGED, OPEN, each a transaction | `Dispatch` |
| the next level, `paper_liquidity` read | `Walk` |
| `apply_fill` of what was there to take | `Fill` |
| `cancel` | `Cancel`, `CancelRequest`, `CancelConfirm` |
| any exception | `Raise` |
| `finally: release_executor` | `Return` |
| the process dies | `Crash` |

`OthersStep` is every other transaction of the journal.  The abstract specification is
`RiskEngine!Spec`: `ImplementsCore` states that the executor only makes steps of the
core, with the identity as the mapping of the journal's variables.
*PaperExecutorProofs* proves it.

*ControlPlane* - the control loop of `ops/daemon.py`, the hooks of
`pocketbase/pb_hooks/control.pb.js` and the commands, stops and outbox of the journal.
The daemon is one task, so its state is a program counter and the local variables of a
cycle; any answer it awaits is a step of its own, between which the panel, the human, the
clock and other transactions move.  A request is an atomic step of the panel, because a
hook runs in a transaction of the panel's database.

| Code | Action |
|---|---|
| start: the actor pinned in `control_identity.json`, one proposal of each kind | `Start`, `Propose` |
| `control_identity` | `IdentifyAnswered` |
| comparison with the pin, `renew_control_lease` or halt | `Renew` |
| `list("commands", ...)` | `ListAnswered` |
| `consume_control_command` of a record, its exception | `ConsumeStep`, `ConsumeRaises` |
| the update to APPLIED | `ApplyAnswered` |
| health upsert, then `outbox_pending` | `HealthAnswered` |
| lookup of an event, `acknowledge_outbox` if it is there | `LookupAnswered` |
| create of an event, and `acknowledge_outbox`; a refusal | `CreateAnswered` |
| an exception or a timeout of a request | `GiveUp` |
| the hooks: create, human decision, daemon's status | `Create`, `Decide`, `Advance` |
| a request that was given up arrives after all | `Arrive` |
| the human's account is another; the operator pauses; time passes | `ChangeActor`, `OtherTransaction`, `Tick` |

The delivery of a row is kept as its index, the contents of events as their topic and
command.  *ControlPlaneProofs* proves its safety properties of commands and of the delivery.

*MCRiskEngine*, *MCPaperExecutor*, *MCControlPlane* - plans, books, limits and symmetry of
the small instances.  The first two hold several instances in one run: `MoneyInstances`,
`StopInstances` and `SmallInstance` are constraints that follow a behaviour as long as it
stays within one of them.  An operator that a comment calls a mutant is the form a plausible
bug would give to the definition that follows it; nothing but the mutation list of
`PROJECT.json` refers to it.

## Modules around the core

*PaperDaemon* - what starts, stops and interrupts the calls the executor is made of.  The
daemon is a program counter (`off`, `starting`, `wait`, `resolve`, `scan`, `order`) and the
set of markets the cycle still has to do; its coroutines take turns at an await, so the
lifecycle loop may step while the market loop waits, and not inside an evaluation.

| Code | Action |
|---|---|
| `InstanceLock`, then the journal; `acquire_executor` by the lifecycle loop | `LaunchDaemon`, `Started`, `Lifecycle`, `LifecycleFails` |
| a position is looked up, `settle`; an exception ends the cycle | `BeginCycle`, `Resolve`, `SourceFails` |
| `evaluate`: attempted, abstain, approve and reserve, dispatch, acknowledge, fill, cancel the rest | `Abstain`, `Prepare`, `Submit`, `OrderRefused`, `Acknowledge`, `ApplyFill`, `CancelRest`, `Evaluated` |
| STOP, low disk, end of the loops | `Lifecycle`, `LowDisk`, `Finish` |
| `start`, `stop`, `pause`, `cancel-open` | `WithdrawStop`, `RequestStop`, `Pause`, `CancelOpen`, `CancelNext`, `CancelEnds` |
| a process dies; the lease of a dead one ends | `DaemonCrash`, `CancelDies`, `ExecutorLeaseExpires` |

The money of an order is Journal's: here an order is its state and what it filled.

*Outbox* - one call of `deliver` is `Select`, then `Claim` and an answer of the transport
for each row, then `Return`; the answer is any the transport can give (accepted, refused,
a timeout of a request that was or was not accepted).  `Restart` is the process that died
in between.  `accepted` remembers the attempts the provider took, which no code can see;
`Redelivered` says whether the provider may repeat an event.

*Projection* - `upsert_projection` as four requests (`list`, `update` or `create`, and the
second `list` after a 400), each of which may be late, lost or left behind by its writer, over
the row and the hook that refuses an older revision (`control.pb.js:85-95`).

*PocketBaseOps* - the files of the panel: provision and start are one action per write
(`Create` is the empty file of the exclusive creation, `Write` its text, `Migrate` the seed),
backup and restore likewise, and `Crash` stops any of them.  A restore is given any credentials of
the right form (`RestoreCredentials` is the empty file, `RestoreFill` whose they are), which the
code compares with nothing; `brought` marks them.  `PromoteUnfinished` says whether
the operator may put a copy whose restore was cut short in the place of the active
directory.

*PublicHTTP* - `get` of several tasks: the slot, the lock of the rate with the sleep inside
it, the request, the back-off that keeps the slot, three attempts.  The queues are those of
asyncio, first come first served.

*ProviderBudget* - `reserve` and `finish` are transactions, the call between them may fail,
be billed late or be lost with its process; the classifier has two slots, a cache and a
circuit that are looked at before the slot is waited for.

*NoValue* is the None these services share; *ServicesProofs* has the theorems of PaperDaemon,
Outbox, Projection, PocketBaseOps and ProviderBudget.

*LineFile* - a file of JSON lines: what an interrupted append may leave, and what the next
append makes of it.  *EventLog* - the questions the bitcoin experiments ask of their events.
*MarketClock* - the clock and the official results that all of them look at and none changes.
*AppendLog* - the abstract specification: a sequence of whole records that only grows.

*Challenger* - `ExperimentJournal` (lock, quarantine and truncation of a torn tail, the
checks of the recovery and of every event), `register`, `observe_once` up to the fill,
`settle_pending` and the loop of the script, by two processes that may crash in any write.
`ImplementsLog` is the refinement: `AppendLog!Spec` with the lines of the file as its log.
*ChallengerProofs* proves it, and that the recovery never finds a journal it must refuse.

*JevRunner* - the same for `JevJournal`, whose recovery leaves the tail alone, and
with an append that may raise after the line was written (`fsync`), after which the program
goes on with a memory that lacks the event (`AppendRaises`).  *LagTrader* - the runner that
keeps nothing in memory and reads its file again in every cycle: a pending line is written
(`LagAppended`) or cut off (`LagCrash`), and a line that does not parse ends the program
(`LoadRaises`) or the cycle (`CycleRaises`).  *Traders* - the two beside each other on one
clock, each with its own file and lock.  *FilesProofs* has the theorems of these and of the download.

*DecisionWindow* - the clock of one market for both runners: every request takes any time,
stamps are off by any allowed amount and a little more; the model follows which candles
become features and what a fill rests on.  *PaperBet* - the money of both: side, price,
fixed or Kelly stake, depth, recheck.  Which runner, and with which policy, is a variable
chosen in the first state (`clock`, `terms`).  Prices, probabilities and money are integers in the
units its header names; the six decimals of a JEV quantity are cut to tenths of a share, and
its total cost is rounded down as the code does (`jev_commander.py:352`).

*HistoryDownload* - catalog, prices and candles of each shard over three line files and a
checkpoint, with workers, failures, crashes and torn lines, and `merge_shards`.
*PriceHistory* - from trades in pages (or the batch endpoint) to the row of a data set.

*Holdout* - `DevelopmentCheckpoint` and the loop of its two users, a file operation a step;
`experiments` are those started on the directory, `Alone` says that it is one.
*Splits*, *Replay*, *Backtest* - the three ways a history is cut; the two simulations that
hold a stake until its settlement; the backtests that settle at once, and the Monte Carlo of
ruin over their days.  Replay keeps every trade in `deals`; `active` and `settled` are the
places of those that are open and of those that were released, in the order of their release, so that
what was known when can be asked.  A round of a loop of the code is a step: `Observe` looks
at a row, `Release` takes what has matured, one trade at a time, and only when nothing is
left to release comes `Buy` or `Ignore`.  The rows are chosen from a small set, so a run
explores every short history.  The arguments of a simulation are an element of `Policies` or
`Setups`, chosen in the first state.  *Simulations* has both beside each other.

*NoValue* is the None of these modules too.  *ResearchProofs* has the theorems of
DecisionWindow, PaperBet, PriceHistory, Splits, Holdout and Simulations.

*MCServices*, *MCExperiments*, *MCFiles*, *MCResearch* - their instances, several in one run.
The components of a run share no state, so what one does says nothing of another: a
behaviour picks its `service` or `study` in the first state, takes the steps of that one, and
the variables of the others stay at their initial values.  Every behaviour of each component
alone is thus in the run, and no product of their state spaces.  A component with theorems is
extended, and its constants are in the .cfg; one of which a run has several instances is
instantiated in the MC module.

## Runs

| Run | Instances | Question |
|---|---|---|
| `money` | 2 orders, 3 fills, prices of 1/2, a fee that rounds; 3 orders that reduce one position; 3 orders in 2 clusters and one envelope | do the books agree and is every unit explained, through rounding, partial fills, late fills, cancellation, settlement; can open orders oversell a position or exceed a limit |
| `stops` | 2 orders, 1 command, 2 times; 2 processes, 3 epochs, a book level | can a stop be undone, risk grow or a forbidden order be sent after it, can something final (a consumed command or approval included) be taken back, can a superseded token regain force |
| `orders` | 1 order of two shares that two processes take over from each other; 2 orders, 1 level, latency | can a repeated or interrupted call send twice, or fill on a stale reading; is a level's depth taken once; is every step a step of the core |
| `commands` | 2 commands, 2 actors | can the panel show what is not in force, can a command be consumed on a decision that does not stand, does an approved stop take force at last |
| `delivery` | 1 command, 2 other events, 1 late request | are events delivered in order, and at last |
| `daemon` | 2 markets, 2 launches, 1 fault | is a market attempted twice, does a stop end the daemon, is every interrupted order closed and every position of a resolved market settled at last |
| `services` | outbox of 2 messages with both transports; 2 writers of a projection, 3 calls; 2 identities of a panel; 3 tasks on 2 slots; 4 requests of two clients | is an accepted message sent again, does a projection go back, does part of a database come up, does a restored copy trade, is more owed than the cap, does every call end |
| `experiments` | challenger of one process over 2 markets; of 2 processes, manifests and versions over one; JEV over 2 markets; crashes in any write | does the journal open again, is it an append-only log of one experiment, is an attempt made once, settled and scored at last |
| `files` | JEV with failed writes; the lag runner; downloads with torn lines, with a restart, and of 2 shards | is a market decided and filled once, and settled once where no append of JEV raised, is what a checkpoint or a merge calls done there |
| `research` | the windows and the bets of both runners, replays, backtest, price history, holdout of one and of two experiments, every cut of 9 epochs and up to 3 events | what a decision knows, what a bet costs, what an evaluation reports, how often the holdout is measured, what a part of a split learns |
| `deadletter` | 1 command, 1 other event | violation: a dead letter for persistent errors |
| `afterexpiry` | 1 command | violation: a result may be projected after expiry |

All passing runs hold.  What each shows in words is in `PROJECT.json`.  `CallsEnd`,
`NothingLeftOpen`, `AttemptsConclude`, `PanelWhole`, `JournalsAgree` and the like are
conjunctions of the properties of the components named in their comments.

**Bounds.**  In `money` a price of one half and a flat fee of one half per unit make
every rounding of the arithmetic happen, and three fills let an order be filled in
parts, and once too often.  `NarrowLimits` admits two orders of
the cheaper cluster, one of the dearer, or one of each, and no three: with three orders
both limits are reached from several sides.  The plan of three shares just fits
its order limit; filled share by share, the rounding of cost and fee takes more than its cap, and
the last fill is refused.  A bound of two times lets a lease or a command be expired or not; `MaxEpoch` one
more than the processes lets a lease change hands and come back.  Two levels of one unit
make a call of two units go on after a fill, so that it may crash between fills.  In
the control plane `StopTtl` = 1 and `MaxTime` = 2: a command is proposed early and may
expire, or late and may not; in `delivery` one late request at a time (`MaxLate`) already arrives
before, between or after its repetition, and any number may follow each other, while in
`commands` none is late (`AppliedAlwaysInForce` is proved for any); with
`Batch` = 1 an event waits for the next cycle, with 2 it follows in the same one.
`MaxEntries` bounds the events of other transactions; a halt beyond it appends none.
Starts beyond the last of `Commands` propose none, so the runs follow the first start
(two commands) or half of it (one), and any number of restarts.  In `orders` leases of the
control plane end at 3 or 5 or are none, since those that end together are alike.  Symmetry is only used
for sets of ids no definition orders or names (`money`, `stops`, `orders`, `research`), and
in no run of a liveness property.

Around the core: two markets let one wait for the other, and one open bet compete with
the next for the cash; two launches are the least in which a lease outlives its owner.  A
write may be cut off once or twice, which gives a torn line, a line behind it and a recovery
that is cut off itself.  Outbox's limit of one and three attempts let the back-off of a
critical message open the way for another.  The ticks of DecisionWindow round every limit of
the policy up, and the drift of a stamp goes beyond what is allowed by one.  `PaperBet`'s
depths are one below and one above a full stake, and its cash allows two bets and a part.
`MaxCalls`, `MaxRuns`, `MaxCrashes`, `MaxFaults`, `MaxErrors`, `MaxNotes` and `MaxTime` bound
how often something may happen; `Cap` of an odd size leaves a rest no call fits in.

**Deadlock** is checked in `money`, `stops`, `orders` and `daemon`.  The other runs do not
check it: a process may be stopped, a market, a history or a study ends, and the clock is
bounded.

**Fairness** is only what a process does by itself, and in two models what the runbook asks of the
operator.  `FairControlSpec`:
While the process runs, its event loop runs the task, so some step of it comes
(`WF` on all of them together, a request that is given up among them).  A request that is
repeated again and again is answered at last (`SF` on each answer), as a network that is
not cut for good provides; without it no projection could ever be promised.  Nothing is
assumed of starts, decisions, crashes, late arrivals, a change of the actor or the
clock: each liveness property of the control plane excuses a daemon that is stopped (`~On`), an identity that
is not the pinned one, and an expired command, since the code does too.

The other fair specifications (`FairSpec` of PaperDaemon and MCExperiments, `Spec` of
MCServices):

- Challenger, JevRunner: `WF` of each step of a process that runs, `SF` of the settlement of
  each market, as a request that is repeated every few seconds succeeds at last.  Nothing
  about crashes or starts: the properties speak of a runner that in the end stays up, which
  is what its supervisor provides.
- PaperDaemon: `WF` of the coroutines and of the lifecycle loop; `SF` of `LaunchDaemon` (the
  service manager starts a daemon that ended; a lock that is held now and then does not keep
  it away for ever) and of `BeginCycle` (not every launch is stopped before its first
  cycle); the operator, who sees an interrupted order, stops the daemon and runs
  `cancel-open` (`docs/OPERATIONS.md`), `SF` because the restarted daemon holds the lock in
  between.  An order caught in SUBMITTING is left out of `InterruptedClosed`: no code and no
  documented command takes it further.
- Outbox: `WF` of the steps of `deliver`, which the control loop calls in every cycle, and only
  for the sink, whose transport writes a file.
- PublicHTTP: `WF` of time and of each task's step; that a request itself ends is the
  client's timeout.
- ProviderBudget: `WF` of each request's step; the HTTP client has a timeout.

## Where the code and its texts differ

- `docs/RUNBOOK_EDGEHUNTER.source.md:357` promises a dead letter for persistent errors of
  the sync.  The control loop raises at the first event that fails
  (`ops/daemon.py:219-221`), and a proposal that expired before it was projected is refused
  for ever (`control.pb.js:19`): no later event is ever delivered.  Run `deadletter`;
  `EventsDelivered` is the promise the code does keep.
- `control.pb.js:69` says that a result may be projected after expiry.  The daemon reports
  by moving a record from WAITING to APPLIED (`ops/daemon.py:197-199`), which lines 70-71
  refuse after expiry: a command that was consumed in time and whose report is delayed past
  its expiry stays APPROVED/WAITING.  Run `afterexpiry`; `ResultsReported` is what holds.

Eight more differences showed up while modelling.  Each is a behaviour the models have and
the passing runs either exclude by a named constant or do not ask about:

- `btc_jev_runner.py:75` calls its journal process-safe and append-only.  `_recover` (`:98`)
  leaves a torn tail in the file and the next append is glued to it; the journal then never
  opens again, so `JevRunner!ReadsBack` is no invariant.  The challenger's recovery cuts the
  tail off and passes the same question (`Recoverable`).
- An append of the JEV runner whose `fsync` raises leaves its line on disk and not in memory
  (`btc_jev_runner.py:117-121`).  The program goes on: the cash of such a fill may be spent
  again, and such a settlement is written a second time by the next pass (`:334-344`), after
  which a restart counts both payouts.  `JevCashCovered` and `SettledOnce` speak of behaviours
  in which no append has raised; `DecidedOnce` of all.
- `scripts/download_btc_history.py:1` calls the download resume-safe.  A torn line swallows
  the next one, behind a checkpoint that calls both done: `CatalogCovered` and
  `CompleteIsTrue` speak of behaviours in which no line was torn.
- `evaluation_checkpoint.py:51` says that one directory belongs to one exact experiment.  The
  manifest is looked for, then written, so two starts may both find none
  (`Holdout!OneExperiment`).  With one identity everything holds, and the holdout is measured
  once in any case.
- `evaluation_checkpoint.py:118` says that development is closed after the holdout begins.
  `save_candidate` looks for the holdout and then writes (`:117-119`): a run that looked before
  another run began it writes behind it.  What it writes is there already, as the
  run that began had every candidate on file and what an experiment measures is a function of
  its identity, so `MeasuredOnce` asks that the candidates do not differ afterwards, not that
  none is written.
- `delivery.py:95` says of a send that may have been accepted not to retry automatically.  A
  repeated failure event of an earlier attempt (`:156` matches its `provider_id`, which is never
  cleared) makes an UNKNOWN row FAILED, and it is sent again.  Nothing in the repository
  receives delivery events yet; `AcceptedOnce` holds with `Redelivered` = FALSE.
- `ops/pocketbase.py:250-266` restores any credentials of the right form beside a database, and
  compares them with nothing.  A copy may mix two identities; no daemon comes up on it
  (`PanelWhole`), and `IdentityKept` is of the credentials the code drew itself.
- `docs/OPERATIONS.md:77` and `docs/RUNBOOK_EDGEHUNTER.source.md:584` say that a restored
  backup carries the marker that halts the daemon.  The marker is written last
  (`ops/pocketbase.py:267`): a restore that was cut short leaves a whole database with its
  credentials and without it.  `RestoredHalts` holds with `PromoteUnfinished` = FALSE.

## Proofs

The theorems hold for every value of the constants that satisfies the assumptions named
below.  TLC evaluates each of them on the instances of the runs.

| Module | Theorem | States | Invariant behind it |
|---|---|---|---|
| RiskEngineProofs | `TypeCorrect` | `TypeOK` | itself |
| | `BooksAlwaysValid` | `LedgerValid` | `BooksInv` |
| | `HighWaterCorrect` | `HighWaterAboveResult` | itself, with the types |
| | `StopsHold` | `NoNewRiskAfterStop` | `BooksInv`; the guard of a dispatch |
| | `NothingIsTakenBack` | `NothingTakenBack` | `Begun` |
| | `TokensAreFinal` | `TokenNeverReissued` | the types |
| | `OrdersAreCovered` | `ReservationCoversFills` | `CoveredInv` |
| | `SettlementIsFinal` | `SettledFinal` | `SettledInv` |
| | `OwnedIsEnough` | `NeverOversold` | itself, with `CoveredInv` |
| | `MoneyIsExplained` | `MoneyExplained` | `MoneyInv` |
| | `EnvelopeHolds` | `ExposureBounded` | `EnvelopeInv` |
| PaperExecutorProofs | `ExecutorImplementsCore` | `ImplementsCore` | `CallInv` |
| | `ExecutorKeepsBooks` | `LedgerValid` | the refinement |
| | `RemainingAlwaysFresh` | `RemainingFresh` | `Fresh` of every process |
| | `UncertainStays` | `UncertainNotResumed` | `Sent` of every process |
| | `DepthIsExplained` | `DepthExplained` | `DepthInv` |
| ControlPlaneProofs | `AppliedAlwaysInForce`, `ConsumptionsStand` | `AppliedInForce`, `ConsumedAsDecided` | `ControlInv` |
| | `DeliveriesInOrder` | `DeliveredInOrder` | `OrderInv` |
| ServicesProofs | `AttemptsAreFinal` | `AttemptsFinal` | `DaemonInv` |
| | `AcceptedOnceHolds` (Brevo, events not repeated) | `AcceptedOnce` | `OutboxInv` |
| | `ProjectionsAdvance`, from `ReturnedShown` and `RowAdvances` | `ProjectionAdvances` | `RowInv` |
| | `PanelStaysWhole` (finished copies are promoted), with `IdentitiesKept` | `PanelWhole` | `IdInv`, `WholeInv` |
| | `RestoredStaysHalted` (finished copies are promoted) | `RestoredHalts` | `IdInv`, `HaltInv` |
| | `BillsStayWithinCap` | `SpentWithinCap` | `BudgetInv` |
| ChallengerProofs | `AlwaysRecoverable` | `Recoverable` | `ChallengerInv` |
| | `ExperimentImplementsLog` | `ImplementsLog` | `ChallengerInv` |
| | `AttemptsNeverResumed` | `NeverRetried` | `ChallengerInv` |
| | `CashAlwaysCovered` | `CashCovered` | `Sound` of the lines |
| FilesProofs | `JournalsStayTrue` | `JournalsAgree` | `JevInv`, `SettleInv`, `LagInv` |
| | `BetsStayOne` | `OneBetPerMarket` | `LagInv` |
| | `DecisionsStayOne` | `DecidedOnce` | `JevInv` |
| | `FillsAreCovered` (no write raised) | `JevCashCovered` | `CashInv` |
| | `DownloadsAreSound` | `DownloadSound` | `DownloadInv` |
| ResearchProofs | `InputsAlwaysFresh` | `InputsFresh` | `WindowInv` |
| | `BetsAlwaysCovered` | `BetsCovered` | `BetInv` |
| | `NeverLooksAhead` | `NoLookAhead` | `HistoryInv` |
| | `PartsStayApart` | `PartsApart` | `SplitInv` |
| | `HoldoutMeasuredOnce` | `MeasuredOnce` | `HoldoutInv` |
| | `AccountsAlwaysTrue` | `AccountsTrue` | `ReplayInv`, `TestInv` |

*Assumptions.*  They are what the code guarantees of its inputs, or what gives a bound a
meaning.  `PlansAssumption` is what the constructor of a plan checks; `LimitsAssumption` the
configuration's; `FiniteAssumption`: tables are finite; `AbsentAssumption` and its like: the
value for None is none of the values; `ProviderAssumption`, `ChallengerAssumption`,
`WindowAssumption`, `BetAssumption`, `HistoryAssumption`, `SplitAssumption`,
`HoldoutAssumption`, `MarketsAssumption`, `JevAssumption`, `LagAssumption`: the kind of each
constant.  `PolicyAssumption` and `SetupAssumption` are what `evaluate`, `StakePolicy`,
`evaluate_spec` and `monte_carlo_risk_of_ruin` check of their arguments, and that a price lies
between zero and one and a settlement after its decision.  `JobsAssumption` is what the arguments of a download allow (`DownloadConfig`), and of
the venue that the query of a shard lists the events of its own part of the window, in any
pages and order, with others among them, and the same whenever it is asked.  `DaemonAssumption` asks for two identities of a process,
so that there is a new one.  Three theorems have a hypothesis more, in their statements:
the transport is the one that is not idempotent and the provider repeats no event, or
only finished restores are promoted.  The section above says what happens otherwise.

*Totals.*  Sums over tables appear in the books, the envelope, the depth and the budget.  Total is
the number of units in a table (Totals), and TotalProofs derives what a sum does when one
entry changes, or when every entry is less, from the cardinalities of finite sets.  The sums
of the simulations have an order (`Sums`, a recursive function): that such a function exists and
takes its step at every place is proved once (`PathExists`, `PathTyped`), by a set of numbers
that has 0 and every successor (`UpTo`), whose least missing number cannot be.  Least and greatest elements of a finite set come from the
library's theorem that a well-founded relation has minimal elements.

*The books.*  `LedgerValid` is what `ledger_valid()` checks: sums of tables against
accounts.  It is not inductive: a state in which a reservation of a finished intent is not zero, or its
release is already posted, can satisfy it and lose it in one step.  `BooksInv` adds
`Reservations` (only an active buy reserves, only a finished one was released) and
`Positions` (shares agree, an empty position has no basis).

*Orders.*  `CoveredInv` follows one order: its filled quantity is that of its rows, it is FILLED
exactly when that is the quantity of its plan, a finished order that failed before the venue
has no fill, and as long as an order is active, reservation and cost together are the cap the
approval allowed.  `OwnedIsEnough` needs its first part, since what an open sale still has to
sell is the plan less what was filled.  `EnvelopeInv` adds that cost without a cluster is zero,
or the first fill could bring it into one; then each step either leaves a cluster's exposure,
lowers it, or is the reservation whose guard compared it with the limit in its own
transaction.  `MoneyInv` adds to the explained accounts that what is in hand is what was paid
in, less what was lost: double entry, without the entries.

*The executor.*  `CallInv` types what a call remembers: that its arguments are ones the
core's action ranges over.  `Fresh` says that as long as the lease is the call's, the
remaining quantity is the order's; it is kept because another process can only fill with
the lease, which it can only take by a new epoch.  `Sent` says that a call that is past
its dispatch left the order sent, so that nothing can be dispatched from an old reading.
`DepthInv` ties what was consumed of a level to the fills that name it; a row is written once,
since its id is of the order and the level.

*The control plane.*  A command is in two systems that never commit together.
`Snapshots` says that a record that was listed still stands as it was listed (a decision is
never changed), `Reporting` that a report on its way, in flight or late, is of a consumed
command.  With `Reported` and `InForce` they make `AppliedInForce` follow, with
`Pinned` (a start never changes a pin that was used) `ConsumedAsDecided`.
`DaemonStep`, `PanelStep` and `ControlStep` name what most steps have in common, and
`QuietPreserves` treats these steps at once.  `OrderInv`: what left the outbox is a prefix of it,
the batch of the daemon the interval that follows, and what the panel shows stays shown.

*The daemon.*  `AttemptsCounted` says of each program counter what it may find: both programs
that finish orders, the market loop and `cancel-open`, only work on orders that began, an open order
has fills to come, and a settled market has no open order.  `LockHeld` keeps the two programs apart.

*The outbox.*  `AcceptedOnce` speaks of attempts no code can see.  `OutboxCounted` ties them to the
row: no accepted attempt is later than the attempts it counts.  `OutboxClear` says that a row that
may be sent (QUEUED or FAILED) has no accepted attempt that was not reported failed; it is what
a repeated event breaks.

*Projections.*  What a writer saw is never newer than the row, and an answer on its way says of the
row what was true of it when it was given and stays true, since the hook keeps revisions
monotone.  `NeverBackwards` follows from the hook alone, `ReturnedIsShown` needs the writers.

*The panel on disk.*  `IdentityKept` is not inductive: a copy that a restore is still filling has
a database without credentials, and a start that is about to write them has found no
database.  `Seen` says so of each program counter.  `HaltInv` follows the marker from a
finished restore through the promotion to the first look of the daemon, and `halted` from
there; `WholeInv` follows the identities that were drawn, and says what a start or a tool that
is past its checks has found whole.

*The budget.*  `RowsKept`: a request that is posted has its row, and a request without a row has no
bill.  As a row is counted at its full price until its bill is known, the sum under the
write lock bounds every bill, whatever stops in between.

*The experiment.*  `ChallengerInv` says that a running process has read a whole readable
journal and stands at its end, and that an event in the middle of its write was valid there;
so a crash leaves the journal of before, that of after, or a torn tail behind the journal of
before, and the recovery finds one it accepts.  The lines only grow, which is the refinement;
all of them name one configuration; and an attempt is never taken up, since a market with a
prediction is refused.  `Sound` adds that there is one event of each kind of a market,
so the cash, a sum over markets, loses a stake once and gains a payout at most once.

*The traders.*  Neither keeps its file whole: a line may be torn, swallow the next one, or stand
in the file after its write raised.  What is proved is of the lines that parse.  A write adds
at most one place of one kind and market (`Places`), so `JevInv` needs that an event on its
way has no place of its kind yet: a running process remembers every decision that its file
holds, but the one whose write raised, and of that market it remembers the observation that
keeps it from a second decision.  `SettleInv` says the same of outcomes and settlements, which a
pass that has lost one in memory would repeat: as long as no write raised, what the file has of
them is remembered, and what is on its way is not in the file yet.  `CashInv` keeps the sum: as long as no write raised, memory
and file have the same fills, and a fill is at most the cash it was compared with.  The lag
runner has no memory: `LagInv` says that what a cycle is about to write, was not in the file
when the cycle read it, and that only the one process with the file open adds lines.

*The download.*  `DownloadInv` has two halves.  `ShardKept` holds over torn lines: an event of a
shard is on file once, what a process still has to write is apart from what is on file and
planned once, a price record is never worse than one before it, and no slug is in the queue
of the workers twice.  `ShardTrue` holds as long as no line was torn: a catalog row names a
page all of whose events are on file or planned before it, a price row a record that is
there.  A line that is written leaves the plan and enters the file, and the union stays; a
process that is killed drops its plan, and the rows of the file still have what they promise,
since a page's events are written before its row.  `EventsFirst` says this of a plan, `DoneIsLast`
that nothing follows the row that completes the catalog.  The merge needs that the shards
cover the window: the cuts are monotone (`QuotientGrows`), the first is its start and the last
its end, so a slot lies behind a last cut that it reaches.

*The research.*  `WindowInv`: whatever was asked was asked after the horizon was reached, and the
closes of a challenger's decision are those of the registered horizon.  `BetInv`: what is
decided was affordable and worth it at the decision, and stays so until the second look,
because nothing is settled in between; the cost of a share lies below a dollar, which
Kelly's division needs.  `HistoryInv`: what was read is never older than what was not, so the
newest known price is among what was read as soon as one old enough is.  `SplitInv` says of
which cut the parts are.  That the slices of a history stand in order is an argument over the
ranks of its elements; that the embargo drops nothing else needs the least and greatest
elements of the parts.  `HoldoutInv`: in a directory of one experiment, a run has gated
each candidate it passed, so a run that opens the holdout has all of them, and the
exclusive creation lets one in.

*The simulations.*  `ReplayInv` says where each trade is: open, or released once, and nothing
open settled before what was released.  The cash is the capital with the sums of all stakes
and of the released payouts; the reserve is also the total over the open trades, so it is not
negative, and zero when none is open.  A stake is at most the cash it was divided from,
rounded down.  `HighWater` is what a peak and a largest fall are of the values of a curve so
far, and `HighWaterNext` that the two updates of the code keep it: `evaluate` takes them one
release at a time, and `summarize_trades` one trade at a time, which is `PathIs`.  `TestInv` says that the
capital is the end of that curve, that every stake was covered by the value before it, and that
it has stood still since the ruin; the run of the Monte Carlo is the sum of what it drew.

*Only model-checked.*  Liveness (`EventsDelivered`, `StopsTakeForce`, `ResultsReported`,
`StopHonoured`, `NothingLeftOpen`, `AttemptsConclude`, `CallsEnd`) and `ENABLED` are out of
the reach of the proof system.

## Not modelled

- Reports, backup files and schema versions of the journal; accounting and treasury reports,
  which only read; `acknowledge` of a notification, which nothing reads.
- The panel's audit records, `approval_requests` and `config_requests`, sessions, and the
  process of the server itself: the daemon reads none of the first three back.
- Strategies, fitted models, bootstrap statistics and calibrations: functions of a data set
  without state or interleaving, over floating point or long decimals.  What is decided with
  them is an input.
- Parsing of books, feeds, pages, prompts and answers; the archive, whose files are written
  once under their hash; configuration, deployment, PowerShell scripts.
- The page size of the panel's listings: the daemon asks for one page of 200 records
  (`storage/pocketbase.py:60`, `ops/daemon.py:193`), `Listed` is all of them.  A stop behind a full
  page of records that can never be consumed is outside of the model.
- A mail provider that accepts a message and answers with an error: the code takes an error
  status for a refusal and sends again (`notifications/delivery.py:58`, `:139-147`), and
  `Outbox!Refused` assumes it is one.
- The age of the ticker between its reading and the fill (DecisionWindow); the tolerance of 1e-9
  in the comparisons of the simulations (`DrawdownTrue` is of `evaluate`, the other backtests
  have their own path); the flag `complete` of a merge, which is decided by counts (`btc_history_download.py:757`) and which no
  property asks about; the files of a merge are written as one.
- Checks that only reject, on data the model does not distinguish (modes, wallets, venues,
  checksums, the age of a quote), are left to the choice of the plan or the book offered.

The list of components in `PROJECT.json` says for each what is left out.

## Plan

Done: the financial core (Money, Journal, RiskEngine, PaperExecutor, ControlPlane), the trading
loops, the panel on disk and its projections, notifications, client, budget, the event files
with their abstract specification, downloads, checkpoint and the simulations; theorems for every
safety property that the runs check.  Next:

1. PaperDaemon with the steps of PaperExecutor in place of its orders.
2. Treasury recommendations and the calibrations as operators against a reference.
