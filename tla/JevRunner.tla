------------------------------ MODULE JevRunner ------------------------------
(***************************************************************************)
(* The JEV paper trader: JevJournal, observe_and_trade, settle_jev_fills   *)
(* and the loop of scripts/run_btc_jev.py.  A pending event is one whose   *)
(* write has begun; a write may be cut by a crash or end in an OSError,    *)
(* after which the program goes on.  The commander's decision is a choice  *)
(* here (its arithmetic is in PaperBet, its calls are in ProviderBudget). *)
(***************************************************************************)
EXTENDS Sequences, MarketClock, Totals

CONSTANTS Capital, MaxStake,
          Broken,            \* markets whose page can never be read
          MaxWriteErrors     \* bound of the OSErrors

JevKind == {"OPPORTUNITY", "REJECTION", "JEV_DECISION", "NO_FILL", "PAPER_FILL", "ERROR",
            "OUTCOME", "SETTLEMENT"}
JevEvents == [type : JevKind, market : Markets, cost : Nat, payout : Nat]

ASSUME JevAssumption ==
  {Capital, MaxStake, MaxWriteErrors} \subseteq Nat /\ {Null, Garbage} \cap JevEvents = {}

VARIABLES file, pc, mem, pending, at, order, todo, errors

jev_state == <<file, pc, mem, pending, at, order, todo, errors>>
jev_vars == <<world, jev_state>>
attempt == <<at, order>>

Event(kind, m) == [type |-> kind, market |-> m, cost |-> 0, payout |-> 0]

\* Cash is what the fills cost and what the settlements paid, event by event.
balances(events) ==
  Capital + Total([i \in DOMAIN events |-> events[i].payout])
          - Total([i \in DOMAIN events |-> events[i].cost])

JevInit ==
  /\ WorldInit
  /\ file = EmptyFile /\ pc = "down" /\ mem = <<>> /\ pending = Null
  /\ at = 0 /\ order = 0 /\ todo = {} /\ errors = 0

Ready(label) == pc = label /\ pending = Null
Writes(e) == pending = Null /\ pending' = e /\ UNCHANGED <<file, mem, errors>>

Appended ==
  /\ pending # Null
  /\ file' = Written(file, pending) /\ mem' = Append(mem, pending) /\ pending' = Null
  /\ UNCHANGED <<pc, attempt, todo, errors>>

\* The write or the fsync raises: inside the attempt an ERROR is recorded next, in
\* the settlement the next market is visited, elsewhere the loop prints and goes on.
AppendRaises ==
  /\ pending # Null /\ errors < MaxWriteErrors
  /\ file' \in Interrupted(file, pending)
  /\ pending' = Null /\ errors' = errors + 1
  /\ pc' = CASE pc = "settling" -> "settling"
             [] pending.type \in {"JEV_DECISION", "PAPER_FILL", "NO_FILL"} -> "raised"
             [] OTHER -> "idle"
  /\ todo' = todo \ {pending.market}
  /\ UNCHANGED <<mem, attempt>>

Crash ==
  /\ pc # "down"
  /\ IF pending = Null THEN UNCHANGED file ELSE file' \in Interrupted(file, pending)
  /\ pc' = "down" /\ mem' = <<>> /\ pending' = Null /\ at' = 0 /\ order' = 0 /\ todo' = {}
  /\ UNCHANGED errors

\* The stop file, a signal or the end of the duration.
Stop ==
  /\ Ready("idle")
  /\ pc' = "down" /\ mem' = <<>> /\ at' = 0 /\ order' = 0
  /\ UNCHANGED <<file, pending, todo, errors>>

\* __enter__: every whole line must parse; a tail is passed over, and left there.
Parses(lines) == \A i \in DOMAIN lines : lines[i] # Garbage

Enter ==
  /\ pc = "down" /\ Parses(file.lines)
  /\ pc' = "idle" /\ mem' = file.lines
  /\ UNCHANGED <<file, pending, attempt, todo, errors>>

----------------------------------------------------------------------------
(* observe_and_trade. *)

\* Mutant: only a market with a fill counts as attempted.
ClaimUnfilled ==
  /\ Ready("idle") /\ Current(now) \in Markets
  /\ "PAPER_FILL" \notin Kinds(mem, Current(now)) /\ Phase(now) > 0
  /\ Writes(Event("OPPORTUNITY", Current(now)))
  /\ pc' = IF Phase(now) = 1 THEN "claimed" ELSE "missed"
  /\ at' = Current(now) /\ UNCHANGED <<order, todo>>

Claim ==
  /\ Ready("idle") /\ Current(now) \in Markets
  /\ ~Attempted(mem, Current(now)) /\ Phase(now) > 0
  /\ Writes(Event("OPPORTUNITY", Current(now)))
  /\ pc' = IF Phase(now) = 1 THEN "claimed" ELSE "missed"
  /\ at' = Current(now) /\ UNCHANGED <<order, todo>>

Missed == Ready("missed") /\ Writes(Event("REJECTION", at)) /\ pc' = "idle" /\ UNCHANGED <<attempt, todo>>

\* The inputs were fetched and are valid, still inside the window.
Inputs ==
  /\ Ready("claimed") /\ at = Current(now) /\ Phase(now) = 1
  /\ pc' = "deciding" /\ UNCHANGED <<file, mem, pending, attempt, todo, errors>>

\* The commander answers, in its own time; ENTER never commands more than the cash.
Decided ==
  /\ Ready("deciding")
  /\ order' \in 0 .. MaxStake /\ (order' > 0 => order' <= balances(mem))
  /\ Writes(Event("JEV_DECISION", at))
  /\ pc' = IF order' = 0 THEN "passing" ELSE "entering"
  /\ UNCHANGED <<at, todo>>

Pass == Ready("passing") /\ Writes(Event("NO_FILL", at)) /\ pc' = "idle" /\ UNCHANGED <<attempt, todo>>

\* The book of the chosen side is read again before the fill is simulated.
PaperFill ==
  /\ Ready("entering") /\ at = Current(now) /\ Phase(now) < 3
  /\ Writes([Event("PAPER_FILL", at) EXCEPT !.cost = order])
  /\ pc' = "idle" /\ UNCHANGED <<attempt, todo>>

\* Any exception inside the attempt.
Raises ==
  /\ \E label \in {"claimed", "deciding", "entering", "raised"} : Ready(label)
  /\ Writes(Event("ERROR", at))
  /\ pc' = "idle" /\ UNCHANGED <<attempt, todo>>

----------------------------------------------------------------------------
(* settle_jev_fills: every forecast, with or without a fill. *)

Needs(events, m) ==
  \/ "OUTCOME" \notin Kinds(events, m)
  \/ {"PAPER_FILL", "SETTLEMENT"} \cap Kinds(events, m) = {"PAPER_FILL"}

Settle ==
  /\ Ready("idle")
  /\ pc' = "settling" /\ at' = 0
  /\ todo' = {m \in Having(mem, "JEV_DECISION") : Needs(mem, m)}
  /\ UNCHANGED <<file, mem, pending, order, errors>>

Visits(m) == Ready("settling") /\ m \in todo /\ \A n \in todo : m <= n

\* Not over, not resolved, or an exception that is swallowed: the next one.
PassOver(m) ==
  /\ Visits(m) /\ at # m
  /\ todo' = todo \ {m} /\ UNCHANGED <<file, pc, mem, pending, attempt, errors>>

Answered(m) == Visits(m) /\ Ended(now, m) /\ result[m] # Null /\ m \notin Broken

RecordOutcome(m) ==
  /\ Answered(m) /\ "OUTCOME" \notin Kinds(mem, m)
  /\ Writes(Event("OUTCOME", m))
  /\ at' = m /\ UNCHANGED <<pc, order, todo>>

RecordSettlement(m) ==
  /\ Answered(m) /\ "OUTCOME" \in Kinds(mem, m)
  /\ IF {"PAPER_FILL", "SETTLEMENT"} \cap Kinds(mem, m) = {"PAPER_FILL"}
       THEN Writes([Event("SETTLEMENT", m) EXCEPT !.payout = result[m] * TheFill(mem, m).cost])
       ELSE UNCHANGED <<file, mem, pending, errors>>
  /\ todo' = todo \ {m} /\ UNCHANGED <<pc, attempt>>

SettleEnds ==
  /\ Ready("settling") /\ todo = {} /\ pc' = "idle"
  /\ UNCHANGED <<file, mem, pending, attempt, todo, errors>>

----------------------------------------------------------------------------
Attempting == Claim \/ Missed \/ Inputs \/ Decided \/ Pass \/ PaperFill \/ Raises
Settling ==
  \/ Settle \/ SettleEnds
  \/ \E m \in Markets : PassOver(m) \/ RecordOutcome(m) \/ RecordSettlement(m)

JevStep == Enter \/ Attempting \/ Settling \/ Appended \/ AppendRaises \/ Stop \/ Crash

JevNext == (World /\ UNCHANGED jev_state) \/ (JevStep /\ UNCHANGED world)

JevSpec == JevInit /\ [][JevNext]_jev_vars

\* Requests are answered in the end, but for the broken markets, and the loop runs on.
Answers == Missed \/ Inputs \/ Decided \/ Pass \/ Raises
JevFairSpec ==
  /\ JevSpec
  /\ WF_jev_state(Appended) /\ WF_jev_state(Answers)
  /\ SF_jev_state(Settle) /\ WF_jev_state(SettleEnds)
  /\ \A m \in Markets :
       WF_jev_state(PassOver(m)) /\ SF_jev_state(RecordOutcome(m)) /\ SF_jev_state(RecordSettlement(m))

----------------------------------------------------------------------------
(* Properties. *)

\* Every value stays in its set, and what is written is an event of a market.
JevTypeOK ==
  /\ now \in 0 .. MaxTime /\ result \in [Markets -> {Null} \cup 0 .. 2]
  /\ pc \in {"down", "idle", "missed", "claimed", "deciding", "passing", "entering", "raised", "settling"}
  /\ at \in {0} \cup Markets /\ order \in 0 .. MaxStake /\ todo \subseteq Markets
  /\ mem \in Seq(JevEvents) /\ pending \in JevEvents \cup {Null}
  /\ file.lines \in Seq(JevEvents \cup {Garbage}) /\ file.tail \in JevEvents \cup {NoTail, Garbage}
  /\ errors \in 0 .. MaxWriteErrors

\* The paper account is never overdrawn: over crashes and torn lines, the fills the program
\* counts are covered by its capital and what was paid (balances).  An append that raises
\* behind its line breaks this: the program goes on without the fill, spends its cash again,
\* and finds both fills after a restart.
JevCashCovered == errors = 0 => balances(mem) >= 0

\* A market is decided once and filled once, over crashes, restarts and failed writes:
\* an attempt that is in the journal is never made again (attempted).
DecidedOnce ==
  \A m \in Markets : \A kind \in {"JEV_DECISION", "PAPER_FILL"} :
    Cardinality(Places(file.lines, {kind}, m)) <= 1

\* A market is scored once and settled once in the journal, over crashes, restarts and torn
\* lines (settle_jev_fills).  An append that raises behind its line breaks this: the event is
\* in the file and not in the memory, the next pass appends it again, and after a restart
\* balances counts both payouts.
SettledOnce ==
  errors = 0 =>
    \A m \in Markets : \A kind \in {"OUTCOME", "SETTLEMENT"} :
      Cardinality(Places(file.lines, {kind}, m)) <= 1

\* A restart reads the journal back: JevJournal calls itself a process-safe
\* append-only journal, so its own appends never make it unreadable.
ReadsBack == Parses(file.lines)

\* Every forecast is scored, abstentions included, once its market is resolved, also when
\* the page of another market can never be read: while the program is kept running, none
\* stays unscored (settle_jev_fills).
AllScored ==
  \A m \in Markets \ Broken :
    "JEV_DECISION" \in Kinds(mem, m) /\ result[m] # Null =>
      "OUTCOME" \in Kinds(mem, m) /\ ("PAPER_FILL" \in Kinds(mem, m) => "SETTLEMENT" \in Kinds(mem, m))
\* All are scored again and again, once the program is kept running.
ForecastsScored == <>[](pc # "down") => []<>AllScored
=============================================================================
