----------------------------- MODULE MCServices -----------------------------
(***************************************************************************)
(* The services beside the journal, for TLC.  They share no state, so what *)
(* one of them does says nothing of another: each behaviour is of one of   *)
(* them, and the others stay as they begin.  The notification outbox is    *)
(* run with both of its transports.                                        *)
(***************************************************************************)
EXTENDS Outbox, Projection, PocketBaseOps, ProviderBudget

CONSTANT Tasks

VARIABLES service,
          at, attempt, waiting, queue, delay, idle

http_vars == <<at, attempt, waiting, queue, delay, idle>>

\* A commander and a classifier: two requests are about the same text.
ClientOfFour == [r \in 1 .. 4 |-> IF r = 1 THEN "commander" ELSE "classifier"]
TextOfFour == [r \in 1 .. 4 |-> IF r >= 3 THEN 3 ELSE r]

Sink == INSTANCE Outbox WITH Transport <- "sink", Statuses <- {}, MaxAttempts <- 4,
                             MaxCrashes <- 2
HTTP == INSTANCE PublicHTTP WITH Slots <- 2, Attempts <- 3, Interval <- 2

Services == {"outbox", "sink", "projection", "pocketbase", "http", "provider"}

Init ==
  /\ service \in Services
  /\ OutboxInit /\ ProjectionInit /\ PocketBaseInit /\ HTTP!Init /\ ProviderInit

Only(s) == service = s /\ UNCHANGED service

Next ==
  \/ /\ Only("outbox") /\ OutboxNext
     /\ UNCHANGED <<projection_vars, pocketbase_vars, http_vars, provider_vars>>
  \/ /\ Only("sink") /\ Sink!OutboxNext
     /\ UNCHANGED <<projection_vars, pocketbase_vars, http_vars, provider_vars>>
  \/ /\ Only("projection") /\ ProjectionNext
     /\ UNCHANGED <<outbox_vars, pocketbase_vars, http_vars, provider_vars>>
  \/ /\ Only("pocketbase") /\ PocketBaseNext
     /\ UNCHANGED <<outbox_vars, projection_vars, http_vars, provider_vars>>
  \/ /\ Only("http") /\ HTTP!Next
     /\ UNCHANGED <<outbox_vars, projection_vars, pocketbase_vars, provider_vars>>
  \/ /\ Only("provider") /\ ProviderNext
     /\ UNCHANGED <<outbox_vars, projection_vars, pocketbase_vars, http_vars>>

services_vars ==
  <<service, outbox_vars, projection_vars, pocketbase_vars, http_vars, provider_vars>>

\* The fairness of each service, on the steps of its own.
Spec ==
  /\ Init /\ [][Next]_services_vars
  /\ WF_outbox_vars(Only("sink") /\ Sink!Select)
  /\ WF_outbox_vars(Only("sink") /\ Sink!Return)
  /\ WF_outbox_vars(Only("sink") /\ (Sink!Sent \/ Sink!Refused \/ Sink!Uncertain))
  /\ \A m \in Messages : WF_outbox_vars(Only("sink") /\ Sink!Claim(m))
  /\ WF_http_vars(Only("http") /\ HTTP!Tick)
  /\ \A t \in Tasks : WF_http_vars(Only("http") /\ HTTP!Step(t))
  /\ \A r \in Requests : WF_provider_vars(Only("provider") /\ ProviderStep(r))

----------------------------------------------------------------------------
(* The properties that are of one service, or of several. *)

\* Calls keep their states and the pace of their venue, and come to an end: every message
\* is tried, with a transport that only ever writes a file, every get ends, answered or
\* raised, and every request of a provider, however its parallel ones fail (Outbox,
\* PublicHTTP, ProviderBudget).
CallsEnd ==
  /\ [](HTTP!TypeOK /\ ProviderTypeOK /\ (service # "sink" => OutboxTypeOK))
  /\ HTTP!Paced
  /\ service = "sink" => EveryMessageTried
  /\ HTTP!EveryGetEnds
  /\ service = "provider" => EveryCallEnds
=============================================================================
