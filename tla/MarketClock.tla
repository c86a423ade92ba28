----------------------------- MODULE MarketClock -----------------------------
(***************************************************************************)
(* The clock and the official results, which the programs of the bitcoin   *)
(* experiments share and none of them changes.                             *)
(***************************************************************************)
EXTENDS Integers, FiniteSets, EventLog

CONSTANT MaxTime    \* bound of the clock

ASSUME MarketsAssumption ==
  IsFiniteSet(Markets) /\ Markets \subseteq Nat \ {0} /\ MaxTime \in Nat /\ Null \notin 0 .. 2

VARIABLES now, result

world == <<now, result>>

WorldInit == now = 0 /\ result = [m \in Markets |-> Null]

Tick == now < MaxTime /\ now' = now + 1 /\ UNCHANGED result

\* The official resolution, final: what a half share of the bought side is paid.
Resolve(m, r) ==
  /\ Ended(now, m) /\ result[m] = Null
  /\ result' = [result EXCEPT ![m] = r] /\ UNCHANGED now

World == Tick \/ \E m \in Markets, r \in 0 .. 2 : Resolve(m, r)
=============================================================================
