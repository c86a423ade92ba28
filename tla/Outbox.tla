-------------------------------- MODULE Outbox --------------------------------
(***************************************************************************)
(* The notification outbox (notifications/delivery.py): the rows of its    *)
(* database, deliver with a transport of its two kinds, the delivery events *)
(* of the provider, and the process that may stop at any await.  Time runs *)
(* in rounds, one call of deliver each.  Events are what the provider says *)
(* of a message it accepted; nothing in the repository receives them yet.  *)
(***************************************************************************)
EXTENDS Integers, FiniteSets, FiniteSetsExt, NoValue

CONSTANTS Transport,             \* "sink" (FileSink) or "brevo" (BrevoTransport)
          Messages, Critical,    \* deduplication keys, those of category CRITICAL
          Limit,                 \* messages of one call of deliver
          Statuses,              \* delivery events that may come
          Redelivered,           \* whether an event may come again
          MaxAttempts, MaxCrashes    \* bounds

ASSUME OutboxAssumption ==
  /\ Critical \subseteq Messages /\ Limit >= 1 /\ MaxAttempts \in Nat
  /\ Statuses \subseteq {"DELIVERED", "BOUNCED", "FAILED"}

VARIABLES state, attempts, wait, provider_id,   \* of a row; wait counts the rounds to next_attempt
          accepted,                             \* the attempts the transport accepted, of a message
          reported,                             \* the events that came
          batch, sending,                       \* deliver: the rows still to do, the one being sent
          crashes

message_row == <<state, attempts, wait, provider_id>>
outbox_vars == <<message_row, accepted, reported, batch, sending, crashes>>

Absent == "ABSENT"
Retryable == {"QUEUED", "FAILED"}

OutboxInit ==
  /\ state = [m \in Messages |-> Absent] /\ attempts = [m \in Messages |-> 0]
  /\ wait = [m \in Messages |-> 0] /\ provider_id = [m \in Messages |-> None]
  /\ accepted = [m \in Messages |-> {}] /\ reported = {}
  /\ batch = None /\ sending = None /\ crashes = 0

\* INSERT OR IGNORE: the second message of a key is dropped.
enqueue(m) ==
  /\ state[m] = Absent /\ state' = [state EXCEPT ![m] = "QUEUED"]
  /\ UNCHANGED <<attempts, wait, provider_id, accepted, reported, batch, sending, crashes>>

----------------------------------------------------------------------------
(* deliver *)

\* The sink tells no attempt from another, so its counter may stay at MaxAttempts.
Due == {m \in Messages : /\ state[m] \in Retryable /\ wait[m] = 0
                         /\ (Transport = "brevo" => attempts[m] < MaxAttempts)}

\* At most Limit rows, the critical ones first.
First(due) ==
  {s \in SUBSET due : /\ Cardinality(s) = Min({Limit, Cardinality(due)})
                      /\ (due \cap Critical \subseteq s \/ s \subseteq Critical)}

\* A round has passed since the last call.
Select ==
  /\ batch = None /\ \E s \in First(Due) : batch' = s
  /\ wait' = [m \in Messages |-> Max({0, wait[m] - 1})]
  /\ UNCHANGED <<state, attempts, provider_id, accepted, reported, sending, crashes>>

\* The claim reads the state again.
Claim(m) ==
  /\ batch # None /\ m \in batch /\ sending = None
  /\ batch' = batch \ {m}
  /\ IF state[m] \in Retryable
     THEN /\ state' = [state EXCEPT ![m] = "SENDING"] /\ attempts' = [attempts EXCEPT ![m] = IF @ < MaxAttempts THEN @ + 1 ELSE @]
          /\ sending' = m
     ELSE UNCHANGED <<state, attempts, sending>>
  /\ UNCHANGED <<wait, provider_id, accepted, reported, crashes>>

Return == batch = {} /\ sending = None /\ batch' = None
          /\ UNCHANGED <<message_row, accepted, reported, sending, crashes>>

\* The transport accepts; its answer is still on the way.
Accept ==
  /\ sending # None /\ attempts[sending] \notin accepted[sending]
  /\ (Transport = "sink" => accepted[sending] = {})       \* target.exists()
  /\ accepted' = [accepted EXCEPT ![sending] = @ \cup {attempts[sending]}]
  /\ UNCHANGED <<message_row, reported, batch, sending, crashes>>

WasAccepted(m) == IF Transport = "sink" THEN accepted[m] # {} ELSE attempts[m] \in accepted[m]

\* SENT with the provider's id, or DELIVERED to the sink.
Sent ==
  /\ sending # None /\ WasAccepted(sending)
  /\ state' = [state EXCEPT ![sending] = IF Transport = "sink" THEN "DELIVERED" ELSE "SENT"]
  /\ provider_id' = [provider_id EXCEPT ![sending] = attempts[sending]]
  /\ sending' = None /\ UNCHANGED <<attempts, wait, accepted, reported, batch, crashes>>

\* Rounds of five seconds that 2 ** attempts seconds take.
Backoff(n) == IF n <= 2 THEN 0 ELSE n - 2

Refusal(m, outcome) ==
  /\ state' = [state EXCEPT ![m] = outcome] /\ wait' = [wait EXCEPT ![m] = Backoff(attempts[m])]
  /\ sending' = None /\ UNCHANGED <<attempts, provider_id, accepted, reported, batch, crashes>>

\* An answer that refuses the message, or no connection.  That an error status means the
\* message was not accepted is what the code takes it for (raise_for_status, FAILED), and an
\* assumption on the provider here.
Refused == sending # None /\ ~WasAccepted(sending) /\ Refusal(sending, "FAILED")

\* A timeout, a broken connection or an answer without an id: DeliveryUnknown.
Uncertain ==
  /\ sending # None /\ Transport = "brevo" /\ Refusal(sending, "UNKNOWN")

----------------------------------------------------------------------------

\* Mutant: a message of an interrupted call is queued again.
RestartQueues ==
  /\ crashes < MaxCrashes /\ crashes' = crashes + 1 /\ batch' = None /\ sending' = None
  /\ state' = [m \in Messages |-> IF state[m] = "SENDING" THEN "QUEUED" ELSE state[m]]
  /\ UNCHANGED <<attempts, wait, provider_id, accepted, reported>>

\* The process stops, or its call is cancelled, and the outbox is opened again.
Restart ==
  /\ crashes < MaxCrashes /\ crashes' = crashes + 1 /\ batch' = None /\ sending' = None
  /\ state' = [m \in Messages |-> IF state[m] = "SENDING" THEN "UNKNOWN" ELSE state[m]]
  /\ UNCHANGED <<attempts, wait, provider_id, accepted, reported>>

\* An event of an accepted attempt, in any order with the others and with deliver.
delivery_event(m, n, status) ==
  /\ n \in accepted[m] /\ (Redelivered \/ <<m, n, status>> \notin reported)
  /\ reported' = reported \cup {<<m, n, status>>}
  /\ state' = IF provider_id[m] = n /\ state[m] \in {"SENT", "UNKNOWN"}
              THEN [state EXCEPT ![m] = status] ELSE state
  /\ UNCHANGED <<attempts, wait, provider_id, accepted, batch, sending, crashes>>

OutboxNext ==
  \/ Select \/ Return \/ Accept \/ Sent \/ Refused \/ Uncertain \/ Restart
  \/ \E m \in Messages : \/ enqueue(m) \/ Claim(m)
                         \/ \E n \in 1 .. MaxAttempts, s \in Statuses : delivery_event(m, n, s)

OutboxSpec == OutboxInit /\ [][OutboxNext]_outbox_vars

\* The control loop calls deliver every round, and every send ends.
OutboxFairness == /\ WF_outbox_vars(Select) /\ WF_outbox_vars(Return) /\ WF_outbox_vars(Sent \/ Refused \/ Uncertain)
                  /\ \A m \in Messages : WF_outbox_vars(Claim(m))
FairOutboxSpec == OutboxSpec /\ OutboxFairness

----------------------------------------------------------------------------
(* Properties. *)

OutboxTypeOK ==
  /\ state \in [Messages -> Retryable \cup {Absent, "SENDING", "SENT", "DELIVERED", "UNKNOWN", "BOUNCED"}]
  /\ attempts \in [Messages -> 0 .. MaxAttempts] /\ accepted \in [Messages -> SUBSET (1 .. MaxAttempts)]
  /\ {m \in Messages : state[m] = "SENDING"} = {sending} \ {None}

\* A message that may have been accepted is not sent again, across timeouts, lost answers
\* and restarts, unless the provider reported that very attempt as failed (DeliveryUnknown,
\* "Do not retry automatically").
AcceptedOnce ==
  \A m \in Messages : \A n \in accepted[m] :
    (\E k \in accepted[m] : k > n) => <<m, n, "FAILED">> \in reported

\* A queued message is tried at last, though critical ones are taken first in every call and
\* may fail for ever: their wait grows until a call goes by without them (ORDER BY, LIMIT,
\* next_attempt).
EveryMessageTried == \A m \in Messages : state[m] = "QUEUED" ~> state[m] # "QUEUED"
=============================================================================
