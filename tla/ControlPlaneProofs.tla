------------------------- MODULE ControlPlaneProofs -------------------------
(***************************************************************************)
(* What the panel shows as applied is in force, and was decided so, for    *)
(* every number of commands, actors and events, and any clock: the proofs  *)
(* of AppliedInForce and ConsumedAsDecided of ControlPlane.                *)
(*                                                                         *)
(* A command is in two systems that never commit together, so neither      *)
(* property is inductive.  The strengthening follows a command on its way: *)
(* a record the daemon still works on stands at the panel as it was listed *)
(* (Snapshots), and a report that is on its way, however late, is of a     *)
(* command that was consumed (Reporting).                                  *)
(***************************************************************************)
EXTENDS ControlPlane, FiniteSetTheorems, TLAPS

PanelRecords ==
  [decision : {"NONE", "PENDING", "APPROVED", "REJECTED"}, by : Actors \cup {NoActor},
   at : Nat, status : {"NONE", "WAITING", "APPLIED"}]
CommandRows ==
  [status : {"PROPOSED", "CONSUMED"}, kind : CommandKinds, created : Nat, expires : Nat]
ControlRows ==
  [halted : BOOLEAN, paused : BOOLEAN, leaseExpires : Nat, high : Int, businessHigh : Int]
ListedRecords == [command : Commands, by : Actors, at : Nat]

Typed ==
  /\ now \in Nat
  /\ panel \in [Commands -> PanelRecords]
  /\ commands \in [Commands -> CommandRows \cup {NoCommand}]
  /\ control \in ControlRows
  /\ designated \in Actors
  /\ pin \in Actors \cup {NoActor}
  /\ daemon = [pc |-> daemon.pc, seen |-> daemon.seen, todo |-> daemon.todo,
               command |-> daemon.command, batch |-> daemon.batch]
  /\ daemon.todo \subseteq ListedRecords

Approved(c) == panel[c].decision = "APPROVED"
Consumed(c) == commands[c].status = "CONSUMED"

\* Who approved a command is known.
Approvers == \A c \in Commands : Approved(c) => panel[c].by \in Actors

\* A record that was listed has not changed since.
Snapshots ==
  \A r \in daemon.todo :
    Approved(r.command) /\ panel[r.command].by = r.by /\ panel[r.command].at = r.at

\* A command is reported only after it was consumed.
Reporting ==
  /\ At("apply") => daemon.command \in Commands /\ Consumed(daemon.command)
  /\ \A r \in late : r.kind = "apply" => r.of \in Commands /\ Consumed(r.of)

Reported == \A c \in Commands : panel[c].status = "APPLIED" => Consumed(c)

\* A consumed command is in force.
InForce ==
  \A c \in Commands : Consumed(c) =>
    /\ control.paused
    /\ commands[c].kind = "EMERGENCY_HALT" => control.halted

Pinned == \A c \in Commands : Consumed(c) => pin \in Actors

ControlInv ==
  /\ Typed
  /\ Approvers
  /\ Snapshots
  /\ Reporting
  /\ Reported
  /\ InForce
  /\ Pinned
  /\ ConsumedAsDecided
-----------------------------------------------------------------------------
LEMMA InitControlInv == ControlInit => ControlInv
<1> SUFFICES ASSUME ControlInit PROVE ControlInv
  OBVIOUS
<1>1. /\ \A c \in Commands : commands[c] = NoCommand /\ panel[c] = NoRecord
      /\ daemon = Off /\ late = {}
  BY DEF ControlInit, Init
<1>2. Typed
  <2>1. now \in Nat /\ designated \in Actors /\ pin \in Actors \cup {NoActor}
    BY DEF ControlInit
  <2>2. panel \in [Commands -> PanelRecords]
    BY DEF ControlInit, NoRecord, PanelRecords
  <2>3. commands \in [Commands -> CommandRows \cup {NoCommand}] /\ control \in ControlRows
    BY DEF ControlInit, Init, ControlRows
  <2>4. QED
    BY <1>1, <2>1, <2>2, <2>3 DEF Typed, Off
<1>3. Approvers /\ Snapshots /\ Reported
  BY <1>1 DEF Approvers, Snapshots, Reported, Approved, NoRecord, Off
<1>4. Reporting /\ InForce /\ Pinned /\ ConsumedAsDecided
  BY <1>1 DEF Reporting, InForce, Pinned, ConsumedAsDecided, Consumed, NoCommand, At, Off
<1>5. QED
  BY <1>2, <1>3, <1>4 DEF ControlInv
-----------------------------------------------------------------------------
(* The steps, by what they do to the records of both systems.              *)

\* The panel as far as a step may change it: what was approved stands, what
\* is approved has an approver, and what is newly applied is the command c.
PanelStep(c) ==
  /\ panel' \in [Commands -> PanelRecords]
  /\ \A d \in Commands :
       /\ Approved(d) => /\ panel'[d].decision = "APPROVED"
                         /\ panel'[d].by = panel[d].by
                         /\ panel'[d].at = panel[d].at
       /\ panel'[d].decision = "APPROVED" => panel'[d].by \in Actors
       /\ panel'[d].status = "APPLIED" => panel[d].status = "APPLIED" \/ d = c

\* Of a step that applies nothing.
Nothing == -1

\* The daemon goes on with no more work, and no more reports.
DaemonStep ==
  /\ daemon' = [pc |-> daemon'.pc, seen |-> daemon'.seen, todo |-> daemon'.todo,
                command |-> daemon'.command, batch |-> daemon'.batch]
  /\ daemon'.todo \subseteq daemon.todo
  /\ At("apply")' => At("apply") /\ daemon'.command = daemon.command
  /\ \A r \in late' : r \in late \/ r.kind # "apply" \/ (At("apply") /\ r.of = daemon.command)

\* The journal may halt, or renew the control lease.
ControlStep ==
  /\ control' \in ControlRows
  /\ control.paused => control'.paused
  /\ control.halted => control'.halted
  /\ commands' = commands

ClockStep == now' \in Nat /\ designated' \in Actors

\* Any combination of such steps preserves the invariant.
LEMMA QuietPreserves ==
  ASSUME ControlInv, DaemonStep, ControlStep, ClockStep, pin' = pin,
         NEW c, c \in Commands => Consumed(c), PanelStep(c)
  PROVE  ControlInv'
<1>1. Typed'
  BY DEF ControlInv, Typed, DaemonStep, ControlStep, ClockStep, PanelStep
<1>2. Approvers'
  BY DEF PanelStep, Approvers, Approved
<1>3. Snapshots'
  BY DEF ControlInv, Typed, Snapshots, DaemonStep, PanelStep, Approved, ListedRecords
<1>4. Reporting'
  BY DEF ControlInv, Reporting, DaemonStep, ControlStep, Consumed, At
<1>5. Reported' /\ InForce' /\ Pinned'
  BY DEF ControlInv, Reported, InForce, Pinned, PanelStep, ControlStep, Consumed
<1>6. ConsumedAsDecided'
  BY DEF ControlInv, ConsumedAsDecided, PanelStep, ControlStep, Approved
<1>7. QED
  BY <1>1, <1>2, <1>3, <1>4, <1>5, <1>6 DEF ControlInv

\* The panel that is not asked is such a step.
LEMMA PanelStays ==
  ASSUME ControlInv, UNCHANGED panel, NEW c
  PROVE  PanelStep(c)
BY DEF ControlInv, Typed, Approvers, Approved, PanelStep

\* So is the panel that handles a request.
LEMMA PanelHandlesStep ==
  ASSUME ControlInv, NEW r, PanelHandles(r)
  PROVE  PanelStep(IF r.kind = "apply" THEN r.of ELSE Nothing)
<1> DEFINE c == IF r.kind = "apply" THEN r.of ELSE Nothing
<1>1. CASE r.kind = "create" /\ Create(r.of)
  <2>1. CASE UNCHANGED panel
    BY <2>1, PanelStays
  <2>2. CASE ~ UNCHANGED panel
    <3> DEFINE d == outbox[r.of].command
    <3>1. panel' = [panel EXCEPT ![d] = NewRecord] /\ panel[d] = NoRecord
      BY <1>1, <2>2 DEF Create, CreateAccepted, Shown
    <3>2. NewRecord \in PanelRecords /\ NewRecord.decision = "PENDING"
          /\ NewRecord.status = "WAITING"
      BY DEF NewRecord, PanelRecords
    <3>3. NoRecord.decision = "NONE"
      BY DEF NoRecord
    <3> HIDE DEF d
    <3>4. QED
      BY <3>1, <3>2, <3>3 DEF PanelStep, ControlInv, Typed, Approvers, Approved
  <2>3. QED
    BY <2>1, <2>2
<1>2. CASE r.kind = "apply" /\ Advance(r.of, "APPLIED")
  <2>1. panel' = [panel EXCEPT ![r.of].status = "APPLIED"]
    BY <1>2 DEF Advance
  <2>2. panel' \in [Commands -> PanelRecords]
    BY <2>1 DEF ControlInv, Typed, PanelRecords
  <2>3. ASSUME NEW d \in Commands
        PROVE  /\ panel'[d].decision = panel[d].decision
               /\ panel'[d].by = panel[d].by
               /\ panel'[d].at = panel[d].at
               /\ d # r.of => panel'[d] = panel[d]
    BY <2>1 DEF ControlInv, Typed, PanelRecords
  <2>4. QED
    BY <1>2, <2>2, <2>3 DEF PanelStep, ControlInv, Approvers, Approved
<1>3. CASE UNCHANGED panelVars
  BY <1>3, PanelStays DEF panelVars
<1>4. QED
  BY <1>1, <1>2, <1>3 DEF PanelHandles
-----------------------------------------------------------------------------
(* The steps of the daemon that ask or hear nothing new of a command.      *)

LEMMA GotoStep ==
  ASSUME Typed, NEW pc, pc # "apply", Goto(pc), UNCHANGED late
  PROVE  DaemonStep
BY DEF Goto, Off, DaemonStep, At, Typed

LEMMA HaltStep ==
  ASSUME Typed, Halt
  PROVE  ControlStep
BY DEF Halt, ControlStep, Typed, ControlRows

LEMMA IdleJournal ==
  ASSUME Typed, UNCHANGED vars
  PROVE  ControlStep
BY DEF vars, ControlStep, Typed

LEMMA IdleClock ==
  ASSUME Typed, UNCHANGED <<now, designated>>
  PROVE  ClockStep
BY DEF ClockStep, Typed

LEMMA IdleDaemon ==
  ASSUME Typed, UNCHANGED <<daemon, late>>
  PROVE  DaemonStep
BY DEF DaemonStep, Typed, At

\* What is in flight when a request is given up is at most a report of the
\* command the daemon was reporting.
LEMMA LateStep ==
  ASSUME LeaveInFlight, NEW r \in late'
  PROVE  r \in late \/ r.kind # "apply" \/ (At("apply") /\ r.of = daemon.command)
<1>1. r \in late \/ r \in InFlight
  BY DEF LeaveInFlight
<1>2. CASE At("apply")
  <2>1. InFlight = {ApplyRequest(daemon.command)}
    BY <1>2 DEF InFlight, At
  <2>2. QED
    BY <1>1, <1>2, <2>1 DEF ApplyRequest
<1>3. CASE ~At("apply") /\ At("create")
  BY <1>1, <1>3 DEF InFlight, CreateRequest
<1>4. CASE ~At("apply") /\ ~At("create")
  BY <1>1, <1>4 DEF InFlight
<1>5. QED
  BY <1>2, <1>3, <1>4

Quiet ==
  \/ IdentifyAnswered \/ HealthAnswered \/ Renew \/ ConsumeEnds \/ DeliverEnds
  \/ GiveUp \/ Crash \/ OtherTransaction \/ ChangeActor \/ Tick
  \/ \E r \in daemon.todo : ConsumeRaises(r)
  \/ \E i \in 1 .. MaxEvents : LookupAnswered(i)
  \/ UNCHANGED cpVars

LEMMA QuietDaemon ==
  ASSUME Typed, Quiet
  PROVE  DaemonStep
<1>1. CASE IdentifyAnswered \/ HealthAnswered
  BY <1>1 DEF IdentifyAnswered, HealthAnswered, DaemonStep, At, Typed
<1>2. CASE Renew \/ ConsumeEnds \/ DeliverEnds
  <2>1. UNCHANGED late /\ \E pc \in {"list", "identify", "health"} : Goto(pc)
    BY <1>2 DEF Renew, ConsumeEnds, DeliverEnds
  <2>2. QED
    BY <2>1, GotoStep
<1>3. CASE GiveUp \/ Crash
  <2>1. LeaveInFlight
    BY <1>3 DEF GiveUp, Crash
  <2>2. /\ daemon' = [pc |-> daemon'.pc, seen |-> daemon'.seen, todo |-> daemon'.todo,
                      command |-> daemon'.command, batch |-> daemon'.batch]
        /\ daemon'.todo \subseteq daemon.todo
        /\ daemon'.pc # "apply"
    <3>1. CASE daemon' = [daemon EXCEPT !.pc = "consume", !.command = 0]
      BY <3>1 DEF Typed
    <3>2. CASE Goto("identify") \/ daemon' = Off
      BY <3>2 DEF Goto, Off
    <3>3. QED
      BY <1>3, <3>1, <3>2 DEF GiveUp, Crash
  <2>3. QED
    BY <2>1, <2>2, LateStep DEF DaemonStep, At
<1>4. CASE OtherTransaction \/ ChangeActor \/ Tick \/ UNCHANGED cpVars
  BY <1>4, IdleDaemon DEF OtherTransaction, ChangeActor, Tick, cpVars
<1>5. ASSUME NEW r \in daemon.todo, ConsumeRaises(r) PROVE DaemonStep
  BY <1>5 DEF ConsumeRaises, AfterRaise, DaemonStep, At, Typed
<1>6. ASSUME NEW i \in 1 .. MaxEvents, LookupAnswered(i) PROVE DaemonStep
  BY <1>6 DEF LookupAnswered, Acknowledge, DaemonStep, At, Typed
<1>7. QED
  BY <1>1, <1>2, <1>3, <1>4, <1>5, <1>6 DEF Quiet

LEMMA QuietJournal ==
  ASSUME Typed, Quiet
  PROVE  ControlStep
<1>1. CASE UNCHANGED vars
  BY <1>1, IdleJournal
<1>2. CASE Halt
  BY <1>2, HaltStep
<1>3. CASE Renew
  <2>1. CASE RenewControlLease(now, ControlTtl)
    BY <2>1, ControlAssumption DEF RenewControlLease, ControlStep, Typed, ControlRows
  <2>2. CASE IdentityHalt
    BY <2>2, HaltStep DEF IdentityHalt
  <2>3. QED
    BY <1>3, <2>1, <2>2 DEF Renew
<1>4. QED
  BY <1>1, <1>2, <1>3 DEF Quiet, IdentifyAnswered, HealthAnswered, ConsumeEnds, DeliverEnds,
     GiveUp, Crash, OtherTransaction, ChangeActor, Tick, ConsumeRaises, LookupAnswered, cpVars

LEMMA QuietRest ==
  ASSUME Typed, Quiet
  PROVE  ClockStep /\ pin' = pin /\ UNCHANGED panel
<1>1. pin' = pin /\ UNCHANGED panel
  BY DEF Quiet, IdentifyAnswered, HealthAnswered, Renew, ConsumeEnds, DeliverEnds, GiveUp,
     Crash, OtherTransaction, ChangeActor, Tick, ConsumeRaises, LookupAnswered, cpVars, panelVars
<1>2. CASE Tick
  BY <1>1, <1>2 DEF Tick, ClockStep, Typed
<1>3. CASE ChangeActor
  BY <1>1, <1>3 DEF ChangeActor, ClockStep, Typed
<1>4. CASE UNCHANGED <<now, designated>>
  BY <1>1, <1>4, IdleClock
<1>5. QED
  BY <1>1, <1>2, <1>3, <1>4 DEF Quiet, IdentifyAnswered, HealthAnswered, Renew, ConsumeEnds,
     DeliverEnds, GiveUp, Crash, OtherTransaction, ConsumeRaises, LookupAnswered, cpVars

LEMMA QuietKeeps ==
  ASSUME ControlInv, Quiet
  PROVE  ControlInv'
<1>1. Typed /\ Nothing \notin Commands
  BY ControlAssumption DEF ControlInv, Nothing
<1>2. QED
  BY <1>1, QuietDaemon, QuietJournal, QuietRest, PanelStays, QuietPreserves
-----------------------------------------------------------------------------
(* The steps that move a command on.                                       *)

LEMMA ArriveKeeps ==
  ASSUME ControlInv, NEW r \in late, Arrive(r)
  PROVE  ControlInv'
<1> DEFINE c == IF r.kind = "apply" THEN r.of ELSE Nothing
<1>1. PanelStep(c)
  BY PanelHandlesStep DEF Arrive
<1>2. c \in Commands => Consumed(c)
  BY ControlAssumption DEF ControlInv, Reporting, Nothing
<1>3. DaemonStep
  BY DEF Arrive, DaemonStep, At, ControlInv, Typed
<1>4. ControlStep /\ ClockStep /\ pin' = pin
  BY IdleJournal, IdleClock DEF Arrive, ControlInv
<1> HIDE DEF c
<1>5. QED
  BY <1>1, <1>2, <1>3, <1>4, QuietPreserves

LEMMA ApplyKeeps ==
  ASSUME ControlInv, NEW c \in Commands, ApplyAnswered(c)
  PROVE  ControlInv'
<1>1. PanelStep(c)
  BY PanelHandlesStep DEF ApplyAnswered, ApplyRequest
<1>2. Consumed(c)
  BY DEF ApplyAnswered, ControlInv, Reporting
<1>3. DaemonStep
  BY DEF ApplyAnswered, DaemonStep, At, ControlInv, Typed
<1>4. ControlStep /\ ClockStep /\ pin' = pin
  BY IdleJournal, IdleClock DEF ApplyAnswered, ControlInv
<1>5. QED
  BY <1>1, <1>2, <1>3, <1>4, QuietPreserves

LEMMA CreateKeeps ==
  ASSUME ControlInv, NEW i \in 1 .. MaxEvents, CreateAnswered(i)
  PROVE  ControlInv'
<1>1. PanelHandles(CreateRequest(i)) \/ UNCHANGED panel
  BY DEF CreateAnswered, PanelHandles, CreateRequest, panelVars
<1>2. PanelStep(Nothing)
  BY <1>1, PanelHandlesStep, PanelStays DEF CreateRequest
<1>3. DaemonStep
  <2>1. CASE Acknowledge(i)
    BY <2>1 DEF CreateAnswered, Acknowledge, DaemonStep, At, ControlInv, Typed
  <2>2. CASE Refused(i) /\ IsProposal(i)
    BY <2>2, GotoStep DEF CreateAnswered, Refused, ControlInv
  <2>3. CASE Refused(i) /\ ~IsProposal(i)
    BY <2>3 DEF CreateAnswered, Refused, DaemonStep, At, ControlInv, Typed
  <2>4. QED
    BY <2>1, <2>2, <2>3 DEF CreateAnswered
<1>4. ControlStep /\ ClockStep /\ pin' = pin
  BY IdleJournal, IdleClock DEF CreateAnswered, ControlInv
<1>5. Nothing \notin Commands
  BY ControlAssumption DEF Nothing
<1>6. QED
  BY <1>2, <1>3, <1>4, <1>5, QuietPreserves

LEMMA DecideKeeps ==
  ASSUME ControlInv, NEW c \in Commands, NEW d \in {"APPROVED", "REJECTED"}, Decide(c, d)
  PROVE  ControlInv'
<1>1. panel[c].decision = "PENDING" /\ panel[c].status = "WAITING"
  BY DEF Decide, DecisionOpen
<1>2. PanelStep(Nothing)
  <2>1. panel' = [panel EXCEPT ![c].decision = d, ![c].by = designated, ![c].at = now]
    BY DEF Decide
  <2>2. panel' \in [Commands -> PanelRecords]
    <3>1. panel[c] \in PanelRecords /\ now \in Nat /\ designated \in Actors
      BY DEF ControlInv, Typed
    <3>2. [panel[c] EXCEPT !.decision = d, !.by = designated, !.at = now] \in PanelRecords
      BY <3>1 DEF PanelRecords
    <3>3. panel' = [panel EXCEPT ![c] = [panel[c] EXCEPT !.decision = d, !.by = designated, !.at = now]]
      BY <2>1
    <3>4. QED
      BY <3>2, <3>3 DEF ControlInv, Typed
  <2>3. panel'[c].by = designated /\ panel'[c].status = panel[c].status
    BY <2>1 DEF ControlInv, Typed, PanelRecords
  <2>4. \A e \in Commands : e # c => panel'[e] = panel[e]
    BY <2>1 DEF ControlInv, Typed
  <2>5. QED
    BY <1>1, <2>2, <2>3, <2>4 DEF PanelStep, ControlInv, Typed, Approvers, Approved
<1>3. DaemonStep /\ ControlStep /\ ClockStep /\ pin' = pin
  BY IdleDaemon, IdleJournal, IdleClock DEF Decide, ControlInv
<1>4. Nothing \notin Commands
  BY ControlAssumption DEF Nothing
<1>5. QED
  BY <1>2, <1>3, <1>4, QuietPreserves

\* A command is pinned once one was consumed, so that a start leaves the pin.
LEMMA StartKeeps ==
  ASSUME ControlInv, Start
  PROVE  ControlInv'
<1>1. CASE IdentityHalt /\ UNCHANGED <<pin, daemon>>
  <2>1. DaemonStep /\ ControlStep /\ ClockStep /\ UNCHANGED panel
    BY <1>1, IdleDaemon, HaltStep, IdleClock DEF IdentityHalt, Start, ControlInv, panelVars
  <2>2. PanelStep(Nothing) /\ Nothing \notin Commands
    BY <2>1, PanelStays, ControlAssumption DEF Nothing
  <2>3. QED
    BY <1>1, <2>1, <2>2, QuietPreserves
<1>2. CASE /\ pin \in {NoActor, designated} /\ pin' = designated
           /\ Goto("proposePause") /\ UNCHANGED vars
  <2>1. UNCHANGED <<now, panel, designated, late, commands, control>>
    BY <1>2 DEF Start, panelVars, vars
  <2>2. /\ daemon' = [pc |-> daemon'.pc, seen |-> daemon'.seen, todo |-> daemon'.todo,
                      command |-> daemon'.command, batch |-> daemon'.batch]
        /\ daemon'.todo = {} /\ daemon'.pc # "apply"
    BY <1>2 DEF Goto, Off
  <2>3. \A c \in Commands : Consumed(c) => pin' = pin
    BY <1>2, ControlAssumption DEF ControlInv, Pinned
  <2>4. Typed'
    BY <1>2, <2>1, <2>2 DEF ControlInv, Typed
  <2>5. Approvers' /\ Snapshots' /\ Reporting'
    BY <2>1, <2>2 DEF ControlInv, Approvers, Snapshots, Reporting, Approved, Consumed, At
  <2>6. Reported' /\ InForce'
    BY <2>1 DEF ControlInv, Reported, InForce, Consumed
  <2>7. Pinned' /\ ConsumedAsDecided'
    BY <2>1, <2>3 DEF ControlInv, Pinned, ConsumedAsDecided, Consumed
  <2>8. QED
    BY <2>4, <2>5, <2>6, <2>7 DEF ControlInv
<1>3. QED
  BY <1>1, <1>2 DEF Start

LEMMA ProposeKeeps ==
  ASSUME ControlInv, Propose
  PROVE  ControlInv'
<1>1. DaemonStep /\ ClockStep /\ UNCHANGED <<pin, panel, late>>
  BY GotoStep, IdleClock DEF Propose, Proposing, ControlInv, panelVars
<1>2. CASE UNCHANGED vars
  <2>1. PanelStep(Nothing) /\ Nothing \notin Commands
    BY <1>1, PanelStays, ControlAssumption DEF Nothing
  <2>2. QED
    BY <1>1, <1>2, <2>1, IdleJournal, QuietPreserves DEF ControlInv
<1>3. ASSUME NEW c \in Commands, NEW kind \in CommandKinds,
             ProposeCommand(c, kind, now + StopTtl, now)
      PROVE  ControlInv'
  <2> DEFINE row == [status |-> "PROPOSED", kind |-> kind, created |-> now,
                     expires |-> now + StopTtl]
  <2>1. commands[c] = NoCommand /\ commands' = [commands EXCEPT ![c] = row] /\ control' = control
    BY <1>3 DEF ProposeCommand
  <2>2. row \in CommandRows /\ row.status = "PROPOSED"
    BY <1>3, ControlAssumption DEF ControlInv, Typed, CommandRows
  <2>3. NoCommand.status = "NONE"
    BY DEF NoCommand
  <2> HIDE DEF row
  <2>4. ~Consumed(c) /\ ~Consumed(c)' /\ commands' \in [Commands -> CommandRows \cup {NoCommand}]
        /\ \A d \in Commands : d # c => commands'[d] = commands[d]
    BY <2>1, <2>2, <2>3 DEF ControlInv, Typed, Consumed
  <2>5. \A d \in Commands : Consumed(d)' => commands'[d] = commands[d] /\ Consumed(d)
    BY <2>4 DEF Consumed
  <2>6. \A d \in Commands : Consumed(d) => Consumed(d)'
    BY <2>4 DEF Consumed
  <2>7. Typed'
    BY <1>1, <2>1, <2>4 DEF ControlInv, Typed, DaemonStep, ClockStep
  <2>8. Approvers' /\ Snapshots'
    BY <1>1 DEF ControlInv, Approvers, Snapshots, Approved, DaemonStep
  <2>9. Reporting'
    BY <1>1, <2>6 DEF ControlInv, Reporting, DaemonStep, At
  <2>10. Reported' /\ InForce' /\ Pinned'
    BY <1>1, <2>1, <2>5, <2>6 DEF ControlInv, Reported, InForce, Pinned
  <2>11. ConsumedAsDecided'
    BY <1>1, <2>5 DEF ControlInv, ConsumedAsDecided, Consumed
  <2>12. QED
    BY <2>7, <2>8, <2>9, <2>10, <2>11 DEF ControlInv
<1>4. QED
  <2>1. Proposing[daemon.pc].kind \in CommandKinds
    BY DEF Propose, Proposing, CommandKinds
  <2>2. QED
    BY <1>2, <1>3, <2>1 DEF Propose, Unused

\* The daemon works on what the panel lists, as it is listed.
LEMMA ListKeeps ==
  ASSUME ControlInv, ListAnswered
  PROVE  ControlInv'
<1>1. UNCHANGED <<vars, now, panel, designated, pin, late>>
  BY DEF ListAnswered, panelVars
<1>2. /\ daemon' = [pc |-> daemon'.pc, seen |-> daemon'.seen, todo |-> daemon'.todo,
                    command |-> daemon'.command, batch |-> daemon'.batch]
      /\ daemon'.todo = Listed /\ daemon'.pc = "consume"
  BY DEF ListAnswered, ControlInv, Typed
<1>3. \A r \in Listed : /\ r \in ListedRecords /\ Approved(r.command)
                        /\ panel[r.command].by = r.by /\ panel[r.command].at = r.at
  <2> SUFFICES ASSUME NEW c \in Commands, panel[c].decision = "APPROVED",
                      NEW r, r = [command |-> c, by |-> panel[c].by, at |-> panel[c].at]
               PROVE  /\ r \in ListedRecords /\ Approved(r.command)
                      /\ panel[r.command].by = r.by /\ panel[r.command].at = r.at
    BY DEF Listed
  <2>1. panel[c].by \in Actors /\ panel[c].at \in Nat
    BY DEF ControlInv, Typed, Approvers, Approved, PanelRecords
  <2>2. QED
    BY <2>1 DEF ListedRecords, Approved
<1>4. Typed'
  BY <1>1, <1>2, <1>3 DEF ControlInv, Typed, vars
<1>5. Approvers' /\ Snapshots'
  BY <1>1, <1>2, <1>3 DEF ControlInv, Approvers, Snapshots, Approved
<1>6. Reporting'
  BY <1>1, <1>2 DEF ControlInv, Reporting, Consumed, At, vars
<1>7. Reported' /\ InForce' /\ Pinned' /\ ConsumedAsDecided'
  BY <1>1 DEF ControlInv, Reported, InForce, Pinned, ConsumedAsDecided, Consumed, vars
<1>8. QED
  BY <1>4, <1>5, <1>6, <1>7 DEF ControlInv

\* A command is consumed on the record it was listed with, which still stands.
LEMMA ConsumeKeeps ==
  ASSUME ControlInv, NEW r \in daemon.todo, ConsumeStep(r)
  PROVE  ControlInv'
<1> DEFINE c == r.command
<1>1. /\ UNCHANGED <<now, panel, designated, pin, late>>
      /\ r.by = pin /\ Consume(r)
  BY DEF ConsumeStep, Consume, panelVars
<1>2. /\ daemon' = [pc |-> daemon'.pc, seen |-> daemon'.seen, todo |-> daemon'.todo,
                    command |-> daemon'.command, batch |-> daemon'.batch]
      /\ daemon'.todo \subseteq daemon.todo /\ daemon'.pc = "apply" /\ daemon'.command = c
  BY DEF ConsumeStep, ControlInv, Typed
<1>3. /\ r \in ListedRecords /\ c \in Commands /\ r.by \in Actors
      /\ Approved(c) /\ panel[c].by = r.by /\ panel[c].at = r.at
  BY DEF ControlInv, Typed, Snapshots, ListedRecords
<1> HIDE DEF c
<1>4. /\ Consumed(c)'
      /\ commands' \in [Commands -> CommandRows \cup {NoCommand}]
      /\ \A d \in Commands : /\ Consumed(d) => Consumed(d)'
                             /\ commands'[d].kind = commands[d].kind
                             /\ commands'[d].created = commands[d].created
                             /\ commands'[d].expires = commands[d].expires
                             /\ d # c => commands'[d] = commands[d]
  <2>1. CASE UNCHANGED vars /\ Consumed(c)
    BY <2>1 DEF vars, ControlInv, Typed, Consumed
  <2>2. CASE commands' = [commands EXCEPT ![c].status = "CONSUMED"] /\ commands[c].status = "PROPOSED"
    <3>1. commands[c] \in CommandRows
      BY <1>3, <2>2 DEF ControlInv, Typed, NoCommand
    <3>2. [commands[c] EXCEPT !.status = "CONSUMED"] \in CommandRows
      BY <3>1 DEF CommandRows
    <3>3. /\ commands' = [commands EXCEPT ![c] = [commands[c] EXCEPT !.status = "CONSUMED"]]
          /\ commands \in [Commands -> CommandRows \cup {NoCommand}]
      BY <2>2 DEF ControlInv, Typed
    <3>4. QED
      BY <1>3, <3>1, <3>2, <3>3 DEF Consumed, CommandRows
  <2>3. QED
    BY <1>1, <2>1, <2>2 DEF Consume, ConsumeControlCommand, Consumed, c
<1>5. /\ control' \in ControlRows
      /\ control.paused => control'.paused
      /\ control.halted => control'.halted
      /\ control'.paused /\ (commands[c].kind = "EMERGENCY_HALT" => control'.halted)
  <2>1. CASE UNCHANGED vars /\ Consumed(c)
    BY <1>3, <2>1 DEF vars, ControlInv, Typed, InForce
  <2>2. CASE control' = [control EXCEPT !.paused = TRUE,
                                        !.halted = @ \/ commands[c].kind = "EMERGENCY_HALT"]
    BY <2>2 DEF ControlInv, Typed, ControlRows
  <2>3. QED
    BY <1>1, <2>1, <2>2 DEF Consume, ConsumeControlCommand, Consumed, c
<1>6. commands[c].created <= panel[c].at /\ panel[c].at < commands[c].expires
  <2>1. CASE Consumed(c)
    BY <1>3, <2>1 DEF ControlInv, ConsumedAsDecided, Consumed
  <2>2. CASE ConsumeControlCommand(c, r.at, now)
    <3>1. commands[c] \in CommandRows /\ now \in Nat /\ r.at \in Nat
      BY <1>3, <2>2 DEF ConsumeControlCommand, ControlInv, Typed, NoCommand, ListedRecords
    <3>2. QED
      BY <1>3, <2>2, <3>1 DEF ConsumeControlCommand, CommandRows
  <2>3. QED
    BY <1>1, <2>1, <2>2 DEF Consume, Consumed, c
<1>7. Typed'
  BY <1>1, <1>2, <1>4, <1>5 DEF ControlInv, Typed
<1>8. Approvers' /\ Snapshots'
  BY <1>1, <1>2 DEF ControlInv, Approvers, Snapshots, Approved
<1>9. Reporting'
  BY <1>1, <1>2, <1>3, <1>4 DEF ControlInv, Reporting, At
<1>10. Reported' /\ Pinned'
  BY <1>1, <1>3, <1>4 DEF ControlInv, Reported, Pinned, Consumed
<1>11. InForce'
  BY <1>4, <1>5 DEF ControlInv, InForce, Consumed
<1>12. ConsumedAsDecided'
  BY <1>1, <1>3, <1>4, <1>6 DEF ControlInv, ConsumedAsDecided, Consumed, Approved
<1>13. QED
  BY <1>7, <1>8, <1>9, <1>10, <1>11, <1>12 DEF ControlInv
-----------------------------------------------------------------------------
LEMMA ControlStepKeeps == ControlInv /\ [ControlNext]_cpVars => ControlInv'
<1> SUFFICES ASSUME ControlInv, [ControlNext]_cpVars PROVE ControlInv'
  OBVIOUS
<1>1. CASE Quiet
  BY <1>1, QuietKeeps
<1>2. CASE ~Quiet /\ Answered
  BY <1>2, ListKeeps, ApplyKeeps, CreateKeeps DEF Answered, Quiet
<1>3. CASE ~Quiet /\ Local
  BY <1>3, ProposeKeeps, ConsumeKeeps DEF Local, Quiet
<1>4. CASE ~Quiet /\ Environment
  BY <1>4, DecideKeeps, ArriveKeeps, StartKeeps DEF Environment, Quiet
<1>5. QED
  BY <1>1, <1>2, <1>3, <1>4 DEF ControlNext, Quiet

LEMMA ControlInvariant == ControlSpec => []ControlInv
BY InitControlInv, ControlStepKeeps, PTL DEF ControlSpec

\* Whatever is lost, repeated or delayed between the daemon and the panel, a
\* stop that the panel shows as applied was consumed and is persisted
\* (daemon.py's report of a command follows its commit to the journal).
THEOREM AppliedAlwaysInForce == ControlSpec => []AppliedInForce
<1>1. ControlInv => AppliedInForce
  BY DEF ControlInv, Reported, InForce, Consumed, AppliedInForce
<1>2. QED
  BY <1>1, ControlInvariant, PTL

\* A command is consumed only on the approval that stands at the panel, of the
\* actor the daemon pinned, given after the proposal and before its expiry.
THEOREM ConsumptionsStand == ControlSpec => []ConsumedAsDecided
<1>1. ControlInv => ConsumedAsDecided
  BY DEF ControlInv
<1>2. QED
  BY <1>1, ControlInvariant, PTL
-----------------------------------------------------------------------------
(* Delivery in order.  What left the outbox is a prefix of it, and the      *)
(* batch of the daemon the interval that follows; an event that the panel   *)
(* shows is shown for good.                                                 *)

Events == {Entry} \cup {Proposal(c) : c \in Commands} \cup {Answer(c) : c \in Commands}

Interval(d, e) == delivered = 1 .. d /\ daemon.batch = (d + 1) .. e

OrderInv ==
  /\ outbox \in Seq(Events)
  /\ \E d, e \in 0 .. Len(outbox) : d <= e /\ Interval(d, e)
  /\ \A i \in delivered : Shown(i)

\* An event is appended, or the outbox stays.
OutboxGrows == outbox' = outbox \/ \E event \in Events : outbox' = Append(outbox, event)

\* No record and no cash flow leaves the panel.
PanelGrows ==
  /\ projected \subseteq projected'
  /\ \A c \in Commands : panel[c] # NoRecord => panel'[c] # NoRecord

\* The daemon keeps its batch, or drops it.
BatchStays == daemon'.batch = daemon.batch \/ daemon'.batch = {}

LEMMA InitOrderInv == ControlInit => OrderInv
<1> SUFFICES ASSUME ControlInit PROVE OrderInv
  OBVIOUS
<1>1. outbox = <<>> /\ delivered = {} /\ daemon.batch = {}
  BY DEF ControlInit, Off
<1>2. outbox \in Seq(Events) /\ Len(outbox) = 0
  BY <1>1
<1>3. Interval(0, 0)
  BY <1>1 DEF Interval
<1>4. QED
  BY <1>1, <1>2, <1>3 DEF OrderInv

LEMMA OutboxStays ==
  ASSUME outbox \in Seq(Events), OutboxGrows
  PROVE  /\ outbox' \in Seq(Events) /\ Len(outbox) <= Len(outbox')
         /\ \A i \in 1 .. Len(outbox) : outbox'[i] = outbox[i]
BY DEF OutboxGrows

LEMMA ShownStays ==
  ASSUME outbox \in Seq(Events), OutboxGrows, PanelGrows, NEW i \in 1 .. Len(outbox), Shown(i)
  PROVE  Shown(i)'
<1>1. outbox'[i] = outbox[i] /\ outbox[i] \in Events
  BY OutboxStays
<1>2. IsProposal(i) => outbox[i].command \in Commands
  BY <1>1 DEF IsProposal, Events, Entry, Proposal, Answer
<1>3. QED
  BY <1>1, <1>2 DEF Shown, IsProposal, PanelGrows

\* A step that delivers nothing keeps the order.
LEMMA NothingDelivered ==
  ASSUME OrderInv, OutboxGrows, PanelGrows, BatchStays, UNCHANGED delivered
  PROVE  OrderInv'
<1>1. PICK d \in 0 .. Len(outbox), e \in 0 .. Len(outbox) : d <= e /\ Interval(d, e)
  BY DEF OrderInv
<1>2. outbox' \in Seq(Events) /\ Len(outbox) \in Nat /\ Len(outbox') \in Nat /\ Len(outbox) <= Len(outbox')
  BY OutboxStays DEF OrderInv
<1>3. \A i \in delivered' : Shown(i)'
  BY <1>1, ShownStays DEF OrderInv, Interval
<1>4. CASE daemon'.batch = daemon.batch
  <2>1. Interval(d, e)'
    BY <1>1, <1>4 DEF Interval
  <2>2. d \in 0 .. Len(outbox') /\ e \in 0 .. Len(outbox')
    BY <1>2
  <2>3. QED
    BY <1>1, <1>2, <1>3, <2>1, <2>2 DEF OrderInv
<1>5. CASE daemon'.batch = {}
  <2>1. Interval(d, d)'
    BY <1>1, <1>5 DEF Interval
  <2>2. d \in 0 .. Len(outbox') /\ d <= d
    BY <1>2
  <2>3. QED
    BY <1>2, <1>3, <2>1, <2>2 DEF OrderInv
<1>6. QED
  BY <1>4, <1>5 DEF BatchStays

\* The first event of the batch is delivered once the panel shows it.
LEMMA FirstDelivered ==
  ASSUME OrderInv, Typed, OutboxGrows, PanelGrows,
         NEW i \in daemon.batch, i = Min(daemon.batch), Acknowledge(i), Shown(i)'
  PROVE  OrderInv'
<1>1. PICK d \in 0 .. Len(outbox), e \in 0 .. Len(outbox) : d <= e /\ Interval(d, e)
  BY DEF OrderInv
<1>2. i = d + 1 /\ i <= e
  <2>1. daemon.batch = (d + 1) .. e /\ d + 1 <= e
    BY <1>1 DEF Interval
  <2>2. d + 1 \in daemon.batch /\ \A y \in daemon.batch : d + 1 <= y
    BY <2>1
  <2>3. Min(daemon.batch) \in daemon.batch /\ \A y \in daemon.batch : Min(daemon.batch) <= y
    BY <2>2 DEF Min
  <2>4. d \in Int /\ e \in Int
    BY <1>1 DEF OrderInv
  <2>5. i \in Int /\ i <= e
    BY <2>1, <2>4
  <2>6. i <= d + 1 /\ d + 1 <= i
    BY <2>2, <2>3
  <2>7. QED
    BY <2>4, <2>5, <2>6
<1>3. outbox' \in Seq(Events) /\ Len(outbox) \in Nat /\ Len(outbox') \in Nat /\ Len(outbox) <= Len(outbox')
  BY OutboxStays DEF OrderInv
<1>4. delivered' = 1 .. (d + 1) /\ daemon'.batch = (d + 2) .. e
  BY <1>1, <1>2 DEF Acknowledge, Interval, Typed
<1>5. \A j \in delivered' : Shown(j)'
  <2>1. \A j \in 1 .. d : Shown(j)'
    BY <1>1, ShownStays DEF OrderInv, Interval
  <2>2. QED
    BY <1>2, <1>4, <2>1
<1>6. Interval(d + 1, e)' /\ d + 1 \in 0 .. Len(outbox') /\ e \in 0 .. Len(outbox') /\ d + 1 <= e
  BY <1>1, <1>2, <1>3, <1>4 DEF Interval
<1>7. QED
  BY <1>3, <1>5, <1>6 DEF OrderInv

\* The events the daemon takes are the first that are pending.
LEMMA BatchFollows ==
  ASSUME OrderInv, Typed, HealthAnswered
  PROVE  OrderInv'
<1>1. PICK d \in 0 .. Len(outbox), e0 \in 0 .. Len(outbox) : d <= e0 /\ Interval(d, e0)
  BY DEF OrderInv
<1> DEFINE n == Len(outbox)
           e == IF n <= d + Batch THEN n ELSE d + Batch
<1>2. n \in Nat /\ d \in Nat /\ d <= n /\ DOMAIN outbox = 1 .. n /\ Batch \in Nat
  BY ControlAssumption DEF OrderInv
<1>3. Pending = (d + 1) .. n
  BY <1>1, <1>2 DEF Pending, Interval
<1>4. ASSUME NEW i \in Pending PROVE (Cardinality({j \in Pending : j <= i}) <= Batch) <=> i <= e
  <2>1. i \in Nat /\ d + 1 <= i /\ i <= n
    BY <1>2, <1>3
  <2>2. {j \in Pending : j <= i} = (d + 1) .. i
    BY <1>2, <1>3, <2>1
  <2>3. Cardinality((d + 1) .. i) = i - d
    BY <1>2, <2>1, FS_Interval
  <2>4. (i - d <= Batch) <=> i <= e
    BY <1>2, <2>1
  <2>5. QED
    BY <2>2, <2>3, <2>4
<1>5. FirstPending = (d + 1) .. e
  <2>1. FirstPending = {i \in Pending : i <= e}
    BY <1>4 DEF FirstPending
  <2>2. QED
    BY <1>2, <1>3, <2>1
<1>6. /\ UNCHANGED <<outbox, delivered, panel, projected>>
      /\ daemon'.batch = FirstPending
  BY DEF HealthAnswered, panelVars, Typed
<1>7. delivered' = 1 .. d /\ daemon'.batch = (d + 1) .. e /\ d <= e /\ e \in 0 .. n
  BY <1>1, <1>2, <1>5, <1>6 DEF Interval
<1>8. \A i \in delivered' : Shown(i)'
  BY <1>6 DEF OrderInv, Shown, IsProposal
<1>9. outbox' \in Seq(Events) /\ Len(outbox') = n /\ d \in 0 .. Len(outbox')
  BY <1>1, <1>6 DEF OrderInv
<1> HIDE DEF e
<1>10. \E x, y \in 0 .. Len(outbox') : x <= y /\ Interval(x, y)'
  BY <1>7, <1>9 DEF Interval
<1>11. QED
  BY <1>8, <1>9, <1>10 DEF OrderInv

LEMMA PanelHandlesGrows ==
  ASSUME Typed, NEW r, PanelHandles(r)
  PROVE  PanelGrows
<1>1. CASE UNCHANGED panelVars
  BY <1>1 DEF panelVars, PanelGrows
<1>2. CASE r.kind = "create" /\ Create(r.of)
  <2>1. NewRecord # NoRecord
    BY DEF NewRecord, NoRecord
  <2>2. QED
    BY <1>2, <2>1 DEF Create, PanelGrows, Typed
<1>3. CASE r.kind = "apply" /\ Advance(r.of, "APPLIED")
  <2>1. \A c \in Commands : panel'[c] = panel[c] \/ panel'[c].status = "APPLIED"
    BY <1>3 DEF Advance, Typed, PanelRecords
  <2>2. QED
    BY <1>3, <2>1 DEF Advance, PanelGrows, NoRecord
<1>4. QED
  BY <1>1, <1>2, <1>3 DEF PanelHandles

LEMMA PanelKeeps ==
  ASSUME UNCHANGED panelVars
  PROVE  PanelGrows
BY DEF panelVars, PanelGrows

LEMMA OutboxKeeps ==
  ASSUME UNCHANGED outbox
  PROVE  OutboxGrows
BY DEF OutboxGrows

LEMMA AnsweredKeepsOrder ==
  ASSUME OrderInv, Typed, Answered
  PROVE  OrderInv'
<1>1. CASE IdentifyAnswered \/ ListAnswered
  <2>1. BatchStays
    BY <1>1 DEF IdentifyAnswered, ListAnswered, BatchStays, Typed
  <2>2. QED
    BY <1>1, <2>1, PanelKeeps, OutboxKeeps, NothingDelivered DEF IdentifyAnswered, ListAnswered
<1>2. CASE HealthAnswered
  BY <1>2, BatchFollows
<1>3. ASSUME NEW c \in Commands, ApplyAnswered(c) PROVE OrderInv'
  <2>1. BatchStays
    BY <1>3 DEF ApplyAnswered, BatchStays, Typed
  <2>2. PanelGrows
    BY <1>3, PanelHandlesGrows DEF ApplyAnswered
  <2>3. QED
    BY <1>3, <2>1, <2>2, OutboxKeeps, NothingDelivered DEF ApplyAnswered
<1>4. ASSUME NEW i \in 1 .. MaxEvents, LookupAnswered(i) PROVE OrderInv'
  <2>1. PanelGrows /\ OutboxGrows
    BY <1>4, PanelKeeps, OutboxKeeps DEF LookupAnswered
  <2>2. CASE Shown(i) /\ Acknowledge(i)
    <3>1. Shown(i)'
      BY <1>4, <2>2 DEF LookupAnswered, Shown, IsProposal, panelVars
    <3>2. QED
      BY <1>4, <2>1, <2>2, <3>1, FirstDelivered DEF LookupAnswered
  <2>3. CASE daemon' = [daemon EXCEPT !.pc = "create"] /\ UNCHANGED delivered
    <3>1. BatchStays
      BY <2>3 DEF BatchStays, Typed
    <3>2. QED
      BY <2>1, <2>3, <3>1, NothingDelivered
  <2>4. QED
    BY <1>4, <2>2, <2>3 DEF LookupAnswered
<1>5. ASSUME NEW i \in 1 .. MaxEvents, CreateAnswered(i) PROVE OrderInv'
  <2>1. OutboxGrows /\ UNCHANGED outbox
    BY <1>5, OutboxKeeps DEF CreateAnswered
  <2>2. CASE Create(i) /\ Acknowledge(i)
    <3>1. PanelGrows
      <4>1. PanelHandles(CreateRequest(i))
        BY <2>2 DEF PanelHandles, CreateRequest
      <4>2. QED
        BY <4>1, PanelHandlesGrows
    <3>2. outbox[i] \in Events
      BY <1>5 DEF CreateAnswered, OrderInv, Interval
    <3>3. Shown(i)'
      <4>1. CASE IsProposal(i)
        <5>1. outbox[i].command \in Commands
          BY <3>2, <4>1 DEF IsProposal, Events, Entry, Proposal, Answer
        <5>2. panel' = [panel EXCEPT ![outbox[i].command] = NewRecord]
          BY <2>2, <4>1 DEF Create
        <5>3. panel'[outbox[i].command] # NoRecord
          BY <5>1, <5>2 DEF Typed, NewRecord, NoRecord
        <5>4. QED
          BY <2>1, <4>1, <5>3 DEF Shown, IsProposal
      <4>2. CASE ~IsProposal(i)
        BY <2>1, <2>2, <4>2 DEF Create, Shown, IsProposal
      <4>3. QED
        BY <4>1, <4>2
    <3>4. QED
      BY <1>5, <2>1, <2>2, <3>1, <3>3, FirstDelivered DEF CreateAnswered
  <2>3. CASE Refused(i) /\ UNCHANGED <<panelVars, delivered>>
    <3>1. BatchStays
      BY <2>3 DEF Refused, Goto, Off, BatchStays, Typed
    <3>2. QED
      BY <2>1, <2>3, <3>1, PanelKeeps, NothingDelivered
  <2>4. QED
    BY <1>5, <2>2, <2>3 DEF CreateAnswered
<1>6. QED
  BY <1>1, <1>2, <1>3, <1>4, <1>5 DEF Answered

LEMMA LocalKeepsOrder ==
  ASSUME OrderInv, Typed, Local
  PROVE  OrderInv'
<1>1. UNCHANGED <<panelVars, delivered>>
  BY DEF Local, Propose, Renew, ConsumeEnds, DeliverEnds, ConsumeStep, ConsumeRaises
<1>2. BatchStays
  BY DEF Local, Propose, Renew, ConsumeEnds, DeliverEnds, ConsumeStep, ConsumeRaises, AfterRaise,
     Goto, Off, BatchStays, Typed
<1>3. OutboxGrows
  <2>1. CASE Propose
    BY <2>1 DEF Propose, Unused, OutboxGrows, Events
  <2>2. CASE Renew
    BY <2>2 DEF Renew, IdentityHalt, OutboxGrows, Events
  <2>3. ASSUME NEW r \in daemon.todo, ConsumeStep(r) PROVE OutboxGrows
    BY <2>3 DEF ConsumeStep, Consume, OutboxGrows, Events, Typed, ListedRecords
  <2>4. CASE UNCHANGED outbox
    BY <2>4, OutboxKeeps
  <2>5. QED
    BY <2>1, <2>2, <2>3, <2>4 DEF Local, ConsumeEnds, DeliverEnds, ConsumeRaises
<1>4. QED
  BY <1>1, <1>2, <1>3, PanelKeeps, NothingDelivered

LEMMA OthersKeepOrder ==
  ASSUME OrderInv, Typed, GiveUp \/ Environment \/ UNCHANGED cpVars
  PROVE  OrderInv'
<1>1. UNCHANGED delivered
  BY DEF GiveUp, Environment, Decide, Arrive, Start, Crash, OtherTransaction, ChangeActor, Tick,
         cpVars
<1>2. BatchStays
  <2>1. CASE GiveUp
    BY <2>1 DEF GiveUp, Goto, Off, BatchStays, Typed
  <2>2. CASE Start \/ Crash
    BY <2>2 DEF Start, Crash, Goto, Off, BatchStays
  <2>3. CASE UNCHANGED daemon
    BY <2>3 DEF BatchStays
  <2>4. QED
    BY <2>1, <2>2, <2>3 DEF Environment, Decide, Arrive, OtherTransaction, ChangeActor, Tick, cpVars
<1>3. OutboxGrows
  <2>1. CASE Start \/ OtherTransaction
    BY <2>1 DEF Start, IdentityHalt, OtherTransaction, OutboxGrows, Events
  <2>2. CASE UNCHANGED outbox
    BY <2>2, OutboxKeeps
  <2>3. QED
    BY <2>1, <2>2 DEF GiveUp, Environment, Decide, Arrive, Crash, ChangeActor, Tick, cpVars
<1>4. PanelGrows
  <2>1. ASSUME NEW c \in Commands, NEW d \in {"APPROVED", "REJECTED"}, Decide(c, d) PROVE PanelGrows
    <3>1. \A x \in Commands : panel'[x] = panel[x] \/ panel'[x].decision = d
      BY <2>1 DEF Decide, Typed, PanelRecords
    <3>2. NoRecord.decision = "NONE" /\ d # "NONE"
      BY DEF NoRecord
    <3>3. projected' = projected
      BY <2>1 DEF Decide
    <3> HIDE DEF NoRecord
    <3>4. \A x \in Commands : panel[x] # NoRecord => panel'[x] # NoRecord
      BY <3>1, <3>2
    <3>5. QED
      BY <3>3, <3>4 DEF PanelGrows
  <2>2. ASSUME NEW r \in late, Arrive(r) PROVE PanelGrows
    BY <2>2, PanelHandlesGrows DEF Arrive
  <2>3. CASE UNCHANGED panelVars
    BY <2>3, PanelKeeps
  <2>4. QED
    BY <2>1, <2>2, <2>3
       DEF GiveUp, Environment, Start, Crash, OtherTransaction, ChangeActor, Tick, cpVars
<1>5. QED
  BY <1>1, <1>2, <1>3, <1>4, NothingDelivered

\* An event leaves the outbox only when the panel shows it, and none overtakes an
\* earlier one, whatever is lost, late, refused or repeated (control_loop's delivery).
THEOREM DeliveriesInOrder == ControlSpec => []DeliveredInOrder
<1>1. ControlInv => Typed
  BY DEF ControlInv
<1>2. OrderInv /\ Typed /\ [ControlNext]_cpVars => OrderInv'
  BY AnsweredKeepsOrder, LocalKeepsOrder, OthersKeepOrder DEF ControlNext
<1>3. OrderInv => DeliveredInOrder
  BY DEF OrderInv, Interval, DeliveredInOrder
<1>4. QED
  BY <1>1, <1>2, <1>3, InitOrderInv, ControlInvariant, PTL DEF ControlSpec
=============================================================================
