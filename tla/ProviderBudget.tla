---------------------------- MODULE ProviderBudget ----------------------------
(***************************************************************************)
(* Calls to the paid model behind one durable budget: CostBudget, and the  *)
(* three clients that reserve from it, JevAdapter.classify,                *)
(* JevForecastAdapter.forecast and the call of JevCommander.decide.        *)
(* Each client is an object of a process; the budget is a database.        *)
(***************************************************************************)
EXTENDS NoValue, Totals

CONSTANTS Requests, Clients,
          ClientOf,      \* [Requests -> Clients]
          Classifiers,   \* the clients that cache answers and queue for a slot
          TextOf,        \* what a request asks about
          Slots,         \* asyncio.Semaphore(2)
          Cap, Cost, MaxFailures, MaxStops

\* A row of the database: no caller ever learns an actual cost.
Rows == [cost_cap : {Cost}, actual : {None}, status : {"RESERVED", "USAGE_UNKNOWN_RESERVED"}]

ASSUME ProviderAssumption ==
  /\ IsFiniteSet(Requests) /\ {Cap, Cost} \subseteq Nat
  /\ ClientOf \in [Requests -> Clients]
  /\ None \notin Rows

VARIABLES calls,                    \* the rows of the database
          billed,                   \* what the provider billed for a request
          pc, failures, blocked, cache,
          stopped

provider_vars == <<calls, billed, pc, failures, blocked, cache, stopped>>

----------------------------------------------------------------------------
(* CostBudget. *)

\* Mutant: a call that ended holds nothing any more.
HeldOpen(row) == IF row.status = "RESERVED" THEN row.cost_cap ELSE 0

Held(row) == IF row.actual # None THEN row.actual ELSE row.cost_cap
Used == Total([r \in Requests |-> IF calls[r] = None THEN 0 ELSE Held(calls[r])])

Affords == Used + Cost <= Cap

\* One transaction: the sum is read and the row inserted under the write lock.
reserve(r) ==
  /\ Affords
  /\ calls' = [calls EXCEPT ![r] = [cost_cap |-> Cost, actual |-> None, status |-> "RESERVED"]]

\* Every caller passes None: the tokens of an answer are not an invoice.
finish(r) == calls' = [calls EXCEPT ![r].actual = None, ![r].status = "USAGE_UNKNOWN_RESERVED"]

----------------------------------------------------------------------------
ProviderInit ==
  /\ calls = [r \in Requests |-> None] /\ billed = [r \in Requests |-> 0]
  /\ pc = [r \in Requests |-> "new"]
  /\ failures = [c \in Clients |-> 0] /\ blocked = [c \in Clients |-> FALSE]
  /\ cache = [c \in Clients |-> {}] /\ stopped = 0

Turn(r, label) == pc' = [pc EXCEPT ![r] = label]
Of(c) == {r \in Requests : ClientOf[r] = c}
Posting(c) == {r \in Of(c) : pc[r] = "posting"}

\* No await lies between the circuit, the reservation and the post of these clients.
Ask(r) ==
  LET c == ClientOf[r] IN
  /\ pc[r] = "new" /\ c \notin Classifiers /\ ~blocked[c]
  /\ reserve(r) /\ Turn(r, "posting")
  /\ UNCHANGED <<billed, failures, blocked, cache, stopped>>

Refuse(r) ==
  LET c == ClientOf[r] IN
  /\ pc[r] = "new" /\ (blocked[c] \/ (c \notin Classifiers /\ ~Affords))
  /\ Turn(r, "refused") /\ UNCHANGED <<calls, billed, failures, blocked, cache, stopped>>

\* classify: the circuit and the cache are looked at before the wait for a slot.
classify(r) ==
  LET c == ClientOf[r] IN
  /\ pc[r] = "new" /\ c \in Classifiers /\ ~blocked[c]
  /\ Turn(r, IF TextOf[r] \in cache[c] THEN "answered" ELSE "queued")
  /\ UNCHANGED <<calls, billed, failures, blocked, cache, stopped>>

Slot(r) ==
  LET c == ClientOf[r] IN
  /\ pc[r] = "queued" /\ Cardinality(Posting(c)) < Slots
  /\ \/ reserve(r) /\ Turn(r, "posting")
     \/ ~Affords /\ Turn(r, "refused") /\ UNCHANGED calls
  /\ UNCHANGED <<billed, failures, blocked, cache, stopped>>

\* The provider bills a request it received, at most its agreed maximum, whether or
\* not its answer comes back.
Bill(r, amount) ==
  /\ calls[r] # None /\ billed[r] = 0 /\ amount <= Cost
  /\ billed' = [billed EXCEPT ![r] = amount]
  /\ UNCHANGED <<calls, pc, failures, blocked, cache, stopped>>

Answered(r) ==
  LET c == ClientOf[r] IN
  /\ pc[r] = "posting" /\ finish(r) /\ Turn(r, "answered")
  /\ failures' = [failures EXCEPT ![c] = 0]
  /\ cache' = [cache EXCEPT ![c] = IF c \in Classifiers THEN @ \cup {TextOf[r]} ELSE @]
  /\ UNCHANGED <<billed, blocked, stopped>>

\* A status, a schema, a timeout or a late answer: the cost stays reserved.
Fails(r) ==
  LET c == ClientOf[r]
      count == IF failures[c] < MaxFailures THEN failures[c] + 1 ELSE MaxFailures
  IN /\ pc[r] = "posting" /\ finish(r) /\ Turn(r, "failed")
     /\ failures' = [failures EXCEPT ![c] = count]
     /\ blocked' = [blocked EXCEPT ![c] = @ \/ count >= 3]
     /\ UNCHANGED <<billed, cache, stopped>>

\* A forecast that is in time but whose deadline has passed counts as an answer of the
\* commander and as a failure of the others: both outcomes are above.

\* Sixty seconds after the last failure that opened the circuit.
Closes(c) == blocked[c] /\ blocked' = [blocked EXCEPT ![c] = FALSE]
             /\ UNCHANGED <<calls, billed, pc, failures, cache, stopped>>

\* The process of a client ends; what it had reserved stays in the database.
ProcessEnds(c) ==
  /\ stopped < MaxStops /\ stopped' = stopped + 1
  /\ pc' = [r \in Requests |-> IF r \in Of(c) /\ pc[r] \in {"queued", "posting"} THEN "lost" ELSE pc[r]]
  /\ failures' = [failures EXCEPT ![c] = 0] /\ blocked' = [blocked EXCEPT ![c] = FALSE]
  /\ cache' = [cache EXCEPT ![c] = {}] /\ UNCHANGED <<calls, billed>>

ProviderStep(r) == Ask(r) \/ Refuse(r) \/ classify(r) \/ Slot(r) \/ Answered(r) \/ Fails(r)

ProviderNext ==
  \/ \E r \in Requests : ProviderStep(r) \/ \E amount \in 1 .. Cost : Bill(r, amount)
  \/ \E c \in Clients : Closes(c) \/ ProcessEnds(c)

ProviderSpec == ProviderInit /\ [][ProviderNext]_provider_vars

\* The event loop runs every coroutine, and every request of a client has a timeout.
ProviderFairness == \A r \in Requests : WF_provider_vars(ProviderStep(r))
FairProviderSpec == ProviderSpec /\ ProviderFairness

----------------------------------------------------------------------------
(* Properties. *)

Ended == {"answered", "refused", "failed", "lost"}

\* Every value stays in its set; no more than Slots calls of a classifier are open.
ProviderTypeOK ==
  /\ \A r \in Requests : calls[r] # None => Held(calls[r]) \in 0 .. Cost
  /\ pc \in [Requests -> {"new", "queued", "posting"} \cup Ended]
  /\ failures \in [Clients -> 0 .. MaxFailures] /\ blocked \in [Clients -> BOOLEAN]
  /\ \A c \in Classifiers : Cardinality(Posting(c)) <= Slots

\* What the provider can bill over all processes, stopped and late bills never exceeds
\* the cap: a reservation whose real cost is unknown is kept for ever (CostBudget).
SpentWithinCap == Total(billed) <= Cap

\* Every request ends, also when more of them wait than there are slots and calls fail.
EveryCallEnds == \A r \in Requests : <>(pc[r] \in Ended)
=============================================================================
