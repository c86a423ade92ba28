---------------------------- MODULE ControlPlane ----------------------------
(***************************************************************************)
(* The control plane: the control loop of edgehunter/ops/daemon.py, the    *)
(* panel's request hooks pocketbase/pb_hooks/control.pb.js, and the        *)
(* commands and the outbox of the journal that they keep in step.          *)
(*                                                                         *)
(* The daemon awaits an answer of the panel between any two of its steps.  *)
(* A request without an answer (lost, timed out, or the daemon crashed)    *)
(* may have reached the panel, may reach it at any later time, or never.   *)
(* The daemon and the panel read one clock: the panel is a child process.  *)
(***************************************************************************)
EXTENDS Journal, FiniteSetsExt, Sequences

CONSTANTS
  Actors, NoActor,   \* ids of panel superusers
  StopTtl,           \* a proposed stop expires after this long
  ControlTtl,        \* and the control lease after this long
  Batch,             \* events delivered in one cycle
  MaxEntries,        \* bound: events of other transactions
  MaxLate            \* bound: requests that may still arrive, at a time

\* Commands are numbered in the order of their proposal.
ASSUME ControlAssumption ==
  /\ Commands \subseteq Nat
  /\ NoActor \notin Actors
  /\ {StopTtl, ControlTtl, Batch} \subseteq Nat \ {0}
  /\ {MaxEntries, MaxLate} \subseteq Nat

VARIABLES
  now,         \* the clock
  outbox,      \* rows of the journal's outbox, in their sequence
  delivered,   \* those with a delivered_at
  panel,       \* the commands collection of the panel, by business_id
  projected,   \* the cashflows collection: the outbox rows it shows
  designated,  \* the panel's control actor
  pin,         \* the actor pinned in control_identity.json
  daemon,      \* where the daemon is, and its local variables
  late         \* requests that were given up and may still arrive

panelVars == <<panel, projected>>
cpVars == <<vars, now, outbox, delivered, panelVars, designated, pin, daemon, late>>

Entry == [topic |-> "entry"]
Proposal(c) == [topic |-> "control_proposal", command |-> c]
Answer(c) == [topic |-> "control_applied", command |-> c]
IsProposal(i) == outbox[i].topic = "control_proposal"
Entries == Cardinality({i \in DOMAIN outbox : outbox[i] = Entry})

Expired(c) == commands[c] # NoCommand /\ commands[c].expires <= now
-----------------------------------------------------------------------------
(* The panel.                                                              *)

NoRecord == [decision |-> "NONE", by |-> NoActor, at |-> 0, status |-> "NONE"]
NewRecord == [decision |-> "PENDING", by |-> NoActor, at |-> 0, status |-> "WAITING"]

Shown(i) ==
  IF IsProposal(i) THEN panel[outbox[i].command] # NoRecord ELSE i \in projected

\* A business_id is unique, and a proposal is refused once it has expired.
CreateAccepted(i) == ~Shown(i) /\ (IsProposal(i) => ~Expired(outbox[i].command))

Create(i) ==
  /\ CreateAccepted(i)
  /\ IF IsProposal(i)
       THEN panel' = [panel EXCEPT ![outbox[i].command] = NewRecord] /\ UNCHANGED projected
       ELSE projected' = projected \cup {i} /\ UNCHANGED panel

\* Mutant: the decision on record is not looked at.
DecisionOpenStill(c) == panel[c].status = "WAITING"

DecisionOpen(c) == panel[c].decision = "PENDING" /\ panel[c].status = "WAITING"

Decide(c, decision) ==
  /\ panel[c] # NoRecord
  /\ DecisionOpen(c)
  /\ ~Expired(c)
  /\ panel' = [panel EXCEPT ![c].decision = decision, ![c].by = designated, ![c].at = now]
  /\ UNCHANGED <<vars, now, outbox, delivered, projected, designated, pin, daemon, late>>

\* What the daemon may move a request to.
Advances ==
  [WAITING    |-> {"VALIDATING", "ACCEPTED", "EXECUTING", "APPLIED", "EXPIRED",
                   "INVALIDATED", "FAILED"},
   VALIDATING |-> {"ACCEPTED", "EXECUTING", "APPLIED", "EXPIRED", "INVALIDATED", "FAILED"},
   ACCEPTED   |-> {"EXECUTING", "APPLIED", "EXPIRED", "INVALIDATED", "FAILED", "UNKNOWN"},
   EXECUTING  |-> {"APPLIED", "FAILED", "UNKNOWN"},
   UNKNOWN    |-> {"APPLIED", "FAILED"},
   APPLIED    |-> {}, EXPIRED |-> {}, INVALIDATED |-> {}, FAILED |-> {}]

\* A final status that is sent again changes nothing, accepted or not.
AdvanceAccepted(c, after) ==
  LET before == panel[c].status IN
  /\ after \in Advances[before]
  /\ after \in {"ACCEPTED", "EXECUTING", "APPLIED", "UNKNOWN"} => panel[c].decision = "APPROVED"
  /\ (before \in {"WAITING", "VALIDATING"} /\ after \in {"ACCEPTED", "EXECUTING", "APPLIED"})
       => ~Expired(c)

Advance(c, after) ==
  /\ AdvanceAccepted(c, after)
  /\ panel' = [panel EXCEPT ![c].status = after]
  /\ UNCHANGED projected

\* A request to the panel, and what the panel does with it.
CreateRequest(i) == [kind |-> "create", of |-> i]
ApplyRequest(c) == [kind |-> "apply", of |-> c]

PanelAccepts(r) ==
  IF r.kind = "create" THEN CreateAccepted(r.of) ELSE AdvanceAccepted(r.of, "APPLIED")

PanelHandles(r) ==
  \/ r.kind = "create" /\ Create(r.of)
  \/ r.kind = "apply" /\ Advance(r.of, "APPLIED")
  \/ ~PanelAccepts(r) /\ UNCHANGED panelVars

Arrive(r) ==
  /\ r \in late
  /\ PanelHandles(r)
  /\ late' = late \ {r}
  /\ UNCHANGED <<vars, now, outbox, delivered, designated, pin, daemon>>
-----------------------------------------------------------------------------
(* The daemon's start.                                                     *)

Off == [pc |-> "off", seen |-> NoActor, todo |-> {}, command |-> 0, batch |-> {}]
On == daemon.pc # "off"
At(pc) == daemon.pc = pc
Goto(pc) == daemon' = [Off EXCEPT !.pc = pc]

Unused == {c \in Commands : commands[c] = NoCommand}

\* A halt for an identity that changed, with its event.
IdentityHalt ==
  /\ Halt
  /\ outbox' = IF Entries < MaxEntries THEN Append(outbox, Entry) ELSE outbox

\* The first start pins the control actor.
Start ==
  /\ ~On
  /\ IF pin \in {NoActor, designated}
       THEN /\ pin' = designated
            /\ Goto("proposePause")
            /\ UNCHANGED <<vars, outbox>>
       ELSE IdentityHalt /\ UNCHANGED <<pin, daemon>>
  /\ UNCHANGED <<now, delivered, panelVars, designated, late>>

\* Each start proposes one command of each kind; the proposals of a start for
\* which Commands has none left are not followed.
Proposing ==
  [proposePause |-> [kind |-> "PAUSE_NEW_RISK", next |-> "proposeHalt"],
   proposeHalt  |-> [kind |-> "EMERGENCY_HALT", next |-> "identify"]]

Propose ==
  /\ daemon.pc \in DOMAIN Proposing
  /\ \/ Unused = {} /\ UNCHANGED <<vars, outbox>>
     \/ \E c \in Unused :
          /\ \A d \in Unused : c <= d
          /\ ProposeCommand(c, Proposing[daemon.pc].kind, now + StopTtl, now)
          /\ outbox' = Append(outbox, Proposal(c))
  /\ Goto(Proposing[daemon.pc].next)
  /\ UNCHANGED <<now, delivered, panelVars, designated, pin, late>>
-----------------------------------------------------------------------------
(* A cycle of the control loop.  It begins at "identify", and an exception *)
(* ends it there.                                                          *)

IdentifyAnswered ==
  /\ At("identify")
  /\ daemon' = [daemon EXCEPT !.pc = "renew", !.seen = designated]
  /\ UNCHANGED <<vars, now, outbox, delivered, panelVars, designated, pin, late>>

Renew ==
  /\ At("renew")
  /\ IF daemon.seen = pin
       THEN RenewControlLease(now, ControlTtl) /\ Goto("list") /\ UNCHANGED outbox
       ELSE IdentityHalt /\ Goto("identify")
  /\ UNCHANGED <<now, delivered, panelVars, designated, pin, late>>

\* The records to work on, as they are when the panel lists them: all of them, where the code
\* asks for a page of 200.
Listed ==
  {[command |-> c, by |-> panel[c].by, at |-> panel[c].at] :
     c \in {d \in Commands : panel[d].decision = "APPROVED" /\ panel[d].status # "APPLIED"}}

ListAnswered ==
  /\ At("list")
  /\ daemon' = [daemon EXCEPT !.pc = "consume", !.todo = Listed]
  /\ UNCHANGED <<vars, now, outbox, delivered, panelVars, designated, pin, late>>

\* A record of the pinned actor, consumed now or by an earlier call.
Consume(r) ==
  /\ r.by = pin
  /\ \/ /\ ConsumeControlCommand(r.command, r.at, now)
        /\ outbox' = Append(outbox, Answer(r.command))
     \/ /\ commands[r.command].status = "CONSUMED"
        /\ commands[r.command].created <= r.at /\ r.at <= now
        /\ UNCHANGED <<vars, outbox>>

ConsumeStep(r) ==
  /\ At("consume")
  /\ r \in daemon.todo
  /\ Consume(r)
  /\ daemon' = [daemon EXCEPT !.pc = "apply", !.command = r.command, !.todo = @ \ {r}]
  /\ UNCHANGED <<now, delivered, panelVars, designated, pin, late>>

ConsumeAllowed(r) ==
  /\ r.by = pin
  /\ commands[r.command].created <= r.at /\ r.at <= now
  /\ commands[r.command].status = "CONSUMED" \/ ~Expired(r.command)

\* Mutant: an exception on one record ends the cycle.
AfterRaiseEnds(r) == [Off EXCEPT !.pc = "identify"]

\* Mutant: the status is sent although the command was not consumed.
AfterRaiseApply(r) == [daemon EXCEPT !.pc = "apply", !.command = r.command, !.todo = @ \ {r}]

\* An exception on one record does not keep the loop from the others.
AfterRaise(r) == [daemon EXCEPT !.todo = @ \ {r}]

ConsumeRaises(r) ==
  /\ At("consume")
  /\ r \in daemon.todo
  /\ ~ConsumeAllowed(r)
  /\ daemon' = AfterRaise(r)
  /\ UNCHANGED <<vars, now, outbox, delivered, panelVars, designated, pin, late>>

ConsumeEnds ==
  /\ At("consume")
  /\ daemon.todo = {}
  /\ Goto("health")
  /\ UNCHANGED <<vars, now, outbox, delivered, panelVars, designated, pin, late>>

ApplyAnswered(c) ==
  /\ At("apply")
  /\ daemon.command = c
  /\ PanelHandles(ApplyRequest(c))
  /\ daemon' = [daemon EXCEPT !.pc = "consume", !.command = 0]
  /\ UNCHANGED <<vars, now, outbox, delivered, designated, pin, late>>

Pending == DOMAIN outbox \ delivered

FirstPending == {i \in Pending : Cardinality({j \in Pending : j <= i}) <= Batch}

HealthAnswered ==
  /\ At("health")
  /\ daemon' = [daemon EXCEPT !.pc = "deliver", !.batch = FirstPending]
  /\ UNCHANGED <<vars, now, outbox, delivered, panelVars, designated, pin, late>>

DeliverEnds ==
  /\ At("deliver")
  /\ daemon.batch = {}
  /\ Goto("identify")
  /\ UNCHANGED <<vars, now, outbox, delivered, panelVars, designated, pin, late>>

Acknowledge(i) ==
  /\ delivered' = delivered \cup {i}
  /\ daemon' = [daemon EXCEPT !.pc = "deliver", !.batch = @ \ {i}]

\* Mutant: an event is created whether it is there or not.
CreateUnseen(i) ==
  /\ At("deliver")
  /\ i \in daemon.batch /\ i = Min(daemon.batch)
  /\ daemon' = [daemon EXCEPT !.pc = "create"]
  /\ UNCHANGED <<vars, now, outbox, delivered, panelVars, designated, pin, late>>

\* An event is looked up by its business_id before it is created.
LookupAnswered(i) ==
  /\ At("deliver")
  /\ i \in daemon.batch /\ i = Min(daemon.batch)
  /\ IF Shown(i) THEN Acknowledge(i)
     ELSE daemon' = [daemon EXCEPT !.pc = "create"] /\ UNCHANGED delivered
  /\ UNCHANGED <<vars, now, outbox, panelVars, designated, pin, late>>

\* Mutant: an event that is refused is skipped.
RefusedSkips(i) == daemon' = [daemon EXCEPT !.pc = "deliver", !.batch = @ \ {i}]

\* A projection that another writer created meanwhile is looked up again; a
\* refused proposal ends the cycle.
Refused(i) ==
  IF IsProposal(i) THEN Goto("identify") ELSE daemon' = [daemon EXCEPT !.pc = "deliver"]

CreateAnswered(i) ==
  /\ At("create")
  /\ i \in daemon.batch /\ i = Min(daemon.batch)
  /\ \/ Create(i) /\ Acknowledge(i)
     \/ ~CreateAccepted(i) /\ Refused(i) /\ UNCHANGED <<panelVars, delivered>>
  /\ UNCHANGED <<vars, now, outbox, designated, pin, late>>
-----------------------------------------------------------------------------
(* Requests without an answer, crashes, and the rest of the world.         *)

InFlight ==
  CASE At("apply")  -> {ApplyRequest(daemon.command)}
    [] At("create") -> {CreateRequest(Min(daemon.batch))}
    [] OTHER        -> {}

LeaveInFlight ==
  late' = IF Cardinality(late \cup InFlight) <= MaxLate THEN late \cup InFlight ELSE late

\* A status that was not answered is left to the next cycle.
GiveUp ==
  /\ daemon.pc \in {"identify", "list", "apply", "health", "deliver", "create"}
  /\ IF At("apply") THEN daemon' = [daemon EXCEPT !.pc = "consume", !.command = 0]
     ELSE Goto("identify")
  /\ LeaveInFlight
  /\ UNCHANGED <<vars, now, outbox, delivered, panelVars, designated, pin>>

Crash ==
  /\ On
  /\ daemon' = Off
  /\ LeaveInFlight
  /\ UNCHANGED <<vars, now, outbox, delivered, panelVars, designated, pin>>

\* Other transactions of the journal append events; the operator's pause halts.
OtherTransaction ==
  /\ Entries < MaxEntries
  /\ outbox' = Append(outbox, Entry)
  /\ Halt \/ UNCHANGED vars
  /\ UNCHANGED <<now, delivered, panelVars, designated, pin, daemon, late>>

ChangeActor ==
  /\ designated' \in Actors
  /\ UNCHANGED <<vars, now, outbox, delivered, panelVars, pin, daemon, late>>

Tick ==
  /\ now < MaxTime
  /\ now' = now + 1
  /\ UNCHANGED <<vars, outbox, delivered, panelVars, designated, pin, daemon, late>>
-----------------------------------------------------------------------------
ControlInit ==
  /\ Init
  /\ now = 1
  /\ outbox = <<>>
  /\ delivered = {}
  /\ panel = [c \in Commands |-> NoRecord]
  /\ projected = {}
  /\ designated \in Actors
  /\ pin = NoActor
  /\ daemon = Off
  /\ late = {}

\* Every command is an event, and its answer another.
MaxEvents == 2 * Cardinality(Commands) + MaxEntries

Answered ==
  \/ IdentifyAnswered \/ ListAnswered \/ HealthAnswered
  \/ \E c \in Commands : ApplyAnswered(c)
  \/ \E i \in 1 .. MaxEvents : LookupAnswered(i) \/ CreateAnswered(i)

Local ==
  \/ Propose \/ Renew \/ ConsumeEnds \/ DeliverEnds
  \/ \E r \in daemon.todo : ConsumeStep(r) \/ ConsumeRaises(r)

Environment ==
  \/ \E c \in Commands, decision \in {"APPROVED", "REJECTED"} : Decide(c, decision)
  \/ \E r \in late : Arrive(r)
  \/ Start \/ Crash \/ OtherTransaction \/ ChangeActor \/ Tick

ControlNext == Answered \/ Local \/ GiveUp \/ Environment

ControlSpec == ControlInit /\ [][ControlNext]_cpVars

\* The daemon's task runs while the process does; a request that is repeated
\* again and again is answered at last.  Nothing else has to happen: nobody has
\* to decide, start the daemon, or keep the clock from running.
ControlFairness ==
  /\ WF_cpVars(Answered \/ Local \/ GiveUp)
  /\ SF_cpVars(IdentifyAnswered)
  /\ SF_cpVars(ListAnswered)
  /\ SF_cpVars(HealthAnswered)
  /\ \A c \in Commands : SF_cpVars(ApplyAnswered(c))
  /\ SF_cpVars(\E i \in 1 .. MaxEvents : LookupAnswered(i))
  /\ SF_cpVars(\E i \in 1 .. MaxEvents : CreateAnswered(i))

FairControlSpec == ControlSpec /\ ControlFairness
-----------------------------------------------------------------------------
RecordType ==
  [decision : {"APPROVED", "REJECTED"}, by : Actors, at : Times,
   status : {"WAITING", "APPLIED"}] \cup {NoRecord, NewRecord}

\* The tables, the daemon's local variables and the requests hold what they may.
ControlTypeOK ==
  /\ now \in Times
  /\ \A i \in DOMAIN outbox :
       outbox[i] \in {Entry} \cup {Proposal(c) : c \in Commands} \cup {Answer(c) : c \in Commands}
  /\ delivered \subseteq DOMAIN outbox
  /\ projected \subseteq DOMAIN outbox
  /\ panel \in [Commands -> RecordType]
  /\ designated \in Actors
  /\ pin \in Actors \cup {NoActor}
  /\ daemon.batch \subseteq DOMAIN outbox \ delivered
  /\ \A r \in daemon.todo : commands[r.command] # NoCommand /\ r.by \in Actors
  /\ At("apply") => daemon.command \in Commands
  /\ At("create") => daemon.batch # {}

\* What the panel shows as applied is in force: whatever was lost, repeated or
\* delayed, the command was consumed, and its stop is persisted.
AppliedInForce ==
  \A c \in Commands : panel[c].status = "APPLIED" =>
    /\ commands[c].status = "CONSUMED"
    /\ control.paused
    /\ commands[c].kind = "EMERGENCY_HALT" => control.halted

\* A command is only consumed on a decision that stands: approved by the actor
\* the daemon pinned, in time, and never changed afterwards.
ConsumedAsDecided ==
  \A c \in Commands : commands[c].status = "CONSUMED" =>
    /\ panel[c].decision = "APPROVED"
    /\ panel[c].by = pin
    /\ commands[c].created <= panel[c].at /\ panel[c].at < commands[c].expires

\* An event leaves the outbox only when the panel shows it, and none overtakes
\* an earlier one: the cash flows of the panel have no gap.
DeliveredInOrder ==
  \A i \in delivered : Shown(i) /\ 1 .. i \subseteq delivered

\* A stop that the pinned human approved is consumed, unless it expires, the
\* daemon goes down or its identity check fails: no record before it, refused
\* or broken, keeps the loop from it.
StopsTakeForce ==
  \A c \in Commands :
    (On /\ panel[c].decision = "APPROVED" /\ panel[c].by = pin)
      ~> (commands[c].status = "CONSUMED" \/ Expired(c) \/ ~On \/ designated # pin)

\* A consumed command is reported to the panel, unless it expires first.
ResultsReported ==
  \A c \in Commands :
    (On /\ commands[c].status = "CONSUMED")
      ~> (panel[c].status = "APPLIED" \/ Expired(c) \/ ~On \/ designated # pin)

\* From the decision to the report a command passes through states of its type only, and
\* gets to the end: an approved stop takes force, and what was consumed is shown.
CommandsTakeEffect == []ControlTypeOK /\ StopsTakeForce /\ ResultsReported

ExpiredAhead(i) ==
  \E j \in Pending : j <= i /\ IsProposal(j) /\ Expired(outbox[j].command) /\ ~Shown(j)

\* An event is delivered, unless a proposal that expired is stuck before it.
EventsDelivered ==
  \A i \in 1 .. MaxEvents :
    (On /\ i \in DOMAIN outbox) ~> (i \in delivered \/ ExpiredAhead(i) \/ ~On \/ designated # pin)

(***************************************************************************)
(* What the repository says, and the code does not do.                     *)
(***************************************************************************)

\* The runbook's sync has a dead letter for persistent errors: an entry of the
\* ledger would always get to the panel in the end.
EntriesAlwaysDelivered ==
  \A i \in 1 .. MaxEvents :
    (On /\ i \in DOMAIN outbox /\ ~IsProposal(i)) ~> (i \in delivered \/ ~On \/ designated # pin)

\* "A result may be projected after expiry": the result of a command consumed
\* in time would always get to the panel in the end.
ResultsAlwaysReported ==
  \A c \in Commands :
    (On /\ commands[c].status = "CONSUMED")
      ~> (panel[c].status = "APPLIED" \/ ~On \/ designated # pin)
=============================================================================
