------------------------------ MODULE LagTrader ------------------------------
(***************************************************************************)
(* The external lag experiment of scripts/run_btc_paper.py: every cycle    *)
(* reads the whole file again, settles, then observes one market; no event *)
(* is kept in memory from one cycle to the next.                           *)
(***************************************************************************)
EXTENDS Sequences, MarketClock

CONSTANT MaxNotes    \* bound of the OBSERVATION and ERROR lines

Notes == {"OBSERVATION", "ERROR"}
LagEvents ==
  [type : Notes \cup {"SIGNAL", "PAPER_FILL", "NO_FILL", "SETTLEMENT"},
   market : {0} \cup Markets, payout : 0 .. 2]

ASSUME LagAssumption == {Null, Garbage, NoTail} \cap LagEvents = {} /\ NoTail # Garbage

VARIABLES lag_file, lag_pc, lag_pending, lag_at, lag_todo

lag_state == <<lag_file, lag_pc, lag_pending, lag_at, lag_todo>>
lag_vars == <<world, lag_state>>

LagEvent(kind, m) == [type |-> kind, market |-> m, payout |-> 0]

\* load_events: every line is parsed, a last one without newline as well.
load_events == AllLines(lag_file)
Loads == \A i \in DOMAIN load_events : load_events[i] # Garbage

LagInit ==
  /\ WorldInit
  /\ lag_file = EmptyFile /\ lag_pc = "down" /\ lag_pending = Null /\ lag_at = 0 /\ lag_todo = {}

LagReady(label) == lag_pc = label /\ lag_pending = Null

append_event(e) ==
  /\ e.type \in Notes => Cardinality({i \in DOMAIN lag_file.lines :
       lag_file.lines[i] # Garbage /\ lag_file.lines[i].type \in Notes}) < MaxNotes
  /\ lag_pending' = e /\ UNCHANGED lag_file

LagAppended ==
  /\ lag_pending # Null /\ lag_file' = Written(lag_file, lag_pending) /\ lag_pending' = Null
  /\ UNCHANGED <<lag_pc, lag_at, lag_todo>>

\* The process dies, or an exception the cycle does not catch ends it.
LagCrash ==
  /\ lag_pc # "down"
  /\ IF lag_pending = Null THEN UNCHANGED lag_file ELSE lag_file' \in Interrupted(lag_file, lag_pending)
  /\ lag_pc' = "down" /\ lag_pending' = Null /\ lag_at' = 0 /\ lag_todo' = {}

\* run, under the instance lock.
Start == lag_pc = "down" /\ lag_pc' = "top" /\ UNCHANGED <<lag_file, lag_pending, lag_at, lag_todo>>

Load ==
  /\ LagReady("top") /\ Loads
  /\ lag_pc' = "settling"
  /\ lag_todo' = Having(load_events, "PAPER_FILL") \ Having(load_events, "SETTLEMENT")
  /\ UNCHANGED <<lag_file, lag_pending, lag_at>>

\* load_events is called outside of the try: a line that does not parse ends the program.
LoadRaises ==
  /\ LagReady("top") \/ LagReady("reporting")
  /\ ~Loads /\ lag_pc' = "down" /\ UNCHANGED <<lag_file, lag_pending, lag_at, lag_todo>>

----------------------------------------------------------------------------
NextToSettle(m) == LagReady("settling") /\ m \in lag_todo /\ \A n \in lag_todo : m <= n
LagLeave(m) == lag_todo' = lag_todo \ {m} /\ UNCHANGED <<lag_pc, lag_at>>

Skip(m) ==
  /\ NextToSettle(m) /\ (~Ended(now, m) \/ result[m] = Null)
  /\ LagLeave(m) /\ UNCHANGED <<lag_file, lag_pending>>

settle_pending(m) ==
  /\ NextToSettle(m) /\ Ended(now, m) /\ result[m] # Null
  /\ append_event([LagEvent("SETTLEMENT", m) EXCEPT !.payout = result[m]])
  /\ LagLeave(m)

\* The cycle reads the file again between settling and observing.
Reload ==
  /\ LagReady("settling") /\ lag_todo = {} /\ Loads
  /\ lag_pc' = "observing" /\ UNCHANGED <<lag_file, lag_pending, lag_at, lag_todo>>

Signalled(events, m) == m \in Having(events, "SIGNAL")

\* One observation; its clock is read before the requests and not again, so the market it
\* names is not over by that clock and the return that asks so is never taken.
observe_once ==
  /\ LagReady("observing") /\ Current(now) \in Markets
  /\ append_event(LagEvent("OBSERVATION", Current(now)))
  /\ \/ lag_pc' = "reporting"
     \/ lag_pc' = "candidate" /\ ~Signalled(load_events, Current(now)) /\ Phase(now) < 3
  /\ lag_at' = Current(now) /\ UNCHANGED lag_todo

Signal ==
  /\ LagReady("candidate") /\ append_event(LagEvent("SIGNAL", lag_at))
  /\ lag_pc' = "signalled" /\ UNCHANGED <<lag_at, lag_todo>>

\* After the latency: the ask is still within the limit and deep enough, or not.
FillOrNot ==
  /\ LagReady("signalled")
  /\ \E kind \in {"PAPER_FILL", "NO_FILL"} : append_event(LagEvent(kind, lag_at))
  /\ lag_pc' = "reporting" /\ UNCHANGED <<lag_at, lag_todo>>

\* A request fails anywhere in the cycle, or the second reading does not parse: one
\* ERROR line, and the cycle is over.
CycleRaises ==
  /\ LagReady("observing") \/ LagReady("signalled") \/ (LagReady("settling") /\ (lag_todo # {} \/ ~Loads))
  /\ append_event(LagEvent("ERROR", 0))
  /\ lag_pc' = "reporting" /\ lag_todo' = {} /\ UNCHANGED lag_at

Report ==
  /\ LagReady("reporting") /\ Loads
  /\ lag_pc' = "top" /\ UNCHANGED <<lag_file, lag_pending, lag_at, lag_todo>>

Cycle ==
  \/ Load \/ LoadRaises \/ Reload \/ observe_once \/ Signal \/ FillOrNot \/ CycleRaises \/ Report
  \/ \E m \in Markets : Skip(m) \/ settle_pending(m)

LagStep == Start \/ Cycle \/ LagAppended \/ LagCrash

LagNext == (World /\ UNCHANGED lag_state) \/ (LagStep /\ UNCHANGED world)

LagSpec == LagInit /\ [][LagNext]_lag_vars

----------------------------------------------------------------------------
(* Properties. *)

\* Every value stays in its set, and what is written is an event of this experiment.
LagTypeOK ==
  /\ now \in 0 .. MaxTime /\ result \in [Markets -> {Null} \cup 0 .. 2]
  /\ lag_pc \in {"down", "top", "settling", "observing", "candidate", "signalled", "reporting"}
  /\ lag_pending \in LagEvents \cup {Null} /\ lag_at \in {0} \cup Markets
  /\ lag_todo \subseteq {0} \cup Markets
  /\ lag_file.lines \in Seq(LagEvents \cup {Garbage}) /\ lag_file.tail \in LagEvents \cup {NoTail, Garbage}

HowMany(kinds, m) == Cardinality(Places(lag_file.lines, kinds, m))

\* One bet per market: over crashes, restarts and failed requests a market has one
\* signal, one answer to it and one settlement (attempted, settle_pending).
OneBetPerMarket ==
  \A m \in Markets :
    /\ HowMany({"SIGNAL"}, m) <= 1 /\ HowMany({"SETTLEMENT"}, m) <= 1
    /\ HowMany({"PAPER_FILL", "NO_FILL"}, m) <= HowMany({"SIGNAL"}, m)

=============================================================================
