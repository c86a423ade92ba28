---------------------------- MODULE MCExperiments ----------------------------
(***************************************************************************)
(* The two bitcoin experiments whose runners keep their events in memory,  *)
(* for TLC.  They share no state, so what one does says nothing of the     *)
(* other: each behaviour is of one of them, its study, and the rest stays  *)
(* as it begins.  The challenger is studied twice: one process on one      *)
(* manifest over two markets, kept running, and two processes over two     *)
(* manifests and a deployment of other code, on one market.                *)
(***************************************************************************)
EXTENDS Challenger

CONSTANTS p, q, a, v    \* two processes; the one manifest and version of the first study

VARIABLES study,
          jev_now, jev_result, jev_file, jev_pc, jev_mem, jev_pending, jev_at, order, jev_todo, errors

jev_state == <<jev_file, jev_pc, jev_mem, jev_pending, jev_at, order, jev_todo, errors>>
jev_vars == <<jev_now, jev_result, jev_state>>

\* Three of capital, one order: three half shares for two.
OneOrder == {[qty |-> 3, cost |-> 2]}

\* The page of market 1 can never be read.
Jev == INSTANCE JevRunner WITH
  Broken <- {1}, Capital <- 1, MaxStake <- 1, MaxTime <- 8, MaxWriteErrors <- 0,
  now <- jev_now, result <- jev_result, file <- jev_file, pc <- jev_pc, mem <- jev_mem,
  pending <- jev_pending, at <- jev_at, todo <- jev_todo

Init ==
  /\ study \in {"challenger", "rivals", "jev"}
  /\ ChallengerInit /\ Jev!JevInit /\ version = v

Only(s) == study = s /\ UNCHANGED study

\* The bounds of the studies of the challenger: one process and manifest, no pass that fails;
\* two of them, the first manifest registered first, until the first market is resolved.
Alone ==
  /\ manifest' \in [Paths -> {Null} \cup {v}] /\ \A x \in Paths \ {a} : manifest'[x] = Null
  /\ version' = v /\ pc'[q] = "down"
  /\ (pending'[p] # Null => pending'[p].type # "ERROR")
Rivals == now' <= 4 /\ \A x \in Paths : manifest'[x] # Null => manifest'[a] # Null

Next ==
  \/ Only("challenger") /\ ChallengerNext /\ Alone /\ UNCHANGED jev_vars
  \/ Only("rivals") /\ ChallengerNext /\ Rivals /\ UNCHANGED jev_vars
  \/ Only("jev") /\ Jev!JevNext /\ UNCHANGED challenger_vars

\* The fairness of both, on the steps of their own studies.
FairSpec ==
  /\ Init /\ [][Next]_<<study, challenger_vars, jev_vars>>
  /\ WF_challenger_vars(Only("challenger") /\ Appended(p))
  /\ WF_challenger_vars(Only("challenger") /\ (Quarantine(p) \/ Recover(p)))
  /\ WF_challenger_vars(Only("challenger") /\ Answered(p))
  /\ SF_challenger_vars(Only("challenger") /\ Settle(p))
  /\ WF_challenger_vars(Only("challenger") /\ SettleEnds(p))
  /\ \A m \in {1, 2} : WF_challenger_vars(Only("challenger") /\ Visited(p, m))
  /\ WF_jev_state(Only("jev") /\ Jev!Appended) /\ WF_jev_state(Only("jev") /\ Jev!Answers)
  /\ SF_jev_state(Only("jev") /\ Jev!Settle) /\ WF_jev_state(Only("jev") /\ Jev!SettleEnds)
  /\ \A m \in {1, 2} : /\ WF_jev_state(Only("jev") /\ Jev!PassOver(m))
                       /\ SF_jev_state(Only("jev") /\ Jev!RecordOutcome(m))
                       /\ SF_jev_state(Only("jev") /\ Jev!RecordSettlement(m))

----------------------------------------------------------------------------
(* The properties of the components. *)

\* Over crashes and restarts an attempt is made once and paid from cash that was there, and
\* comes to its end: no fill of a resolved market stays unsettled, no forecast of one
\* whose page can be read unscored (Challenger, JevRunner).
AttemptsConclude ==
  /\ [](CashCovered /\ Jev!JevTypeOK /\ Jev!JevCashCovered)
  /\ NeverRetried
  /\ study = "challenger" => FillsSettled
  /\ study = "jev" => Jev!ForecastsScored
=============================================================================
