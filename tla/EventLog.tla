------------------------------ MODULE EventLog ------------------------------
(* Questions both bitcoin experiments ask of the events of their journal. *)
EXTENDS LineFile, Integers, SequencesExt

CONSTANT Markets    \* the five minute markets, numbered from 1 in the order of time

Kinds(events, m) == {e.type : e \in {x \in ToSet(events) : x.market = m}}
Having(events, kind) == {e.market : e \in {x \in ToSet(events) : x.type = kind}}
TheFill(events, m) == CHOOSE e \in ToSet(events) : e.market = m /\ e.type = "PAPER_FILL"

\* The lines of some kinds in the file of a market.
Places(lines, kinds, m) ==
  {i \in DOMAIN lines : lines[i] # Garbage /\ lines[i].type \in kinds /\ lines[i].market = m}

Attempted(events, m) == "OPPORTUNITY" \in Kinds(events, m)

\* Four phases for every market: early, decision window, window missed, closing.
Phase(now) == now % 4
Current(now) == now \div 4 + 1
Ended(now, m) == now >= 4 * m
=============================================================================
