------------------------------ MODULE Projection ------------------------------
(***************************************************************************)
(* One row of an operational projection of the panel: upsert_projection    *)
(* (storage/pocketbase.py) of several writers, whose requests may be late, *)
(* lost or left behind by a timeout or a crash, and the panel that keeps    *)
(* the row: the unique business_id of the schema and the revision hook of   *)
(* control.pb.js.  The revision of a call is the clock in milliseconds.     *)
(***************************************************************************)
EXTENDS Integers, FiniteSets, FiniteSetsExt, NoValue

CONSTANTS Writers, MaxCalls      \* MaxCalls: a bound

ASSUME RevisionAssumption == None \notin Nat /\ MaxCalls \in Nat

VARIABLES row,        \* of the panel: the revision shown, or None; it stands for the payload too
          clock,      \* the revision of the last call
          call,       \* of a writer: its revision and what it waits for
          seen,       \* of a writer: the revision its list found, or None
          flight,     \* requests that have not reached the panel
          answers,    \* answers on the way, <<writer, revision, accepted>>
          shown       \* revisions whose call returned a record

projection_vars == <<row, clock, call, seen, flight, answers, shown>>

Idle == [rev |-> 0, at |-> "idle"]

ProjectionInit ==
  /\ row = None /\ clock = 0 /\ call = [w \in Writers |-> Idle] /\ seen = [w \in Writers |-> None]
  /\ flight = {} /\ answers = {} /\ shown = {}

Goto(w, at) == call' = [call EXCEPT ![w].at = at]

\* A call of the health card or of a decision; the clock has advanced since the last one.
Upsert(w) ==
  /\ call[w] = Idle /\ clock < MaxCalls /\ clock' = clock + 1
  /\ call' = [call EXCEPT ![w] = [rev |-> clock + 1, at |-> "list"]]
  /\ UNCHANGED <<row, seen, flight, answers, shown>>

\* The list is answered; its answer is used later.
List(w) ==
  /\ call[w].at = "list" /\ seen' = [seen EXCEPT ![w] = row] /\ Goto(w, "choose")
  /\ UNCHANGED <<row, clock, flight, answers, shown>>

ReturnRecord(w) == shown' = shown \cup {call[w].rev} /\ call' = [call EXCEPT ![w] = Idle]

Send(w, op) == /\ flight' = flight \cup {[op |-> op, by |-> w, rev |-> call[w].rev]} /\ Goto(w, op)
               /\ UNCHANGED <<row, clock, seen, answers, shown>>

Found(w) == /\ call[w].at = "choose" /\ seen[w] # None /\ seen[w] >= call[w].rev
            /\ ReturnRecord(w) /\ UNCHANGED <<row, clock, seen, flight, answers>>
UpdateRow(w) == call[w].at = "choose" /\ seen[w] # None /\ seen[w] < call[w].rev /\ Send(w, "update")
CreateRow(w) == call[w].at = "choose" /\ seen[w] = None /\ Send(w, "create")

----------------------------------------------------------------------------
(* The panel. *)

\* Mutant: the hook lets every update through.
AcceptsAny(q) == IF q.op = "create" THEN row = None ELSE row # None

\* A second row of the key breaks the unique index; an update must advance the revision.
Accepts(q) == IF q.op = "create" THEN row = None ELSE (row # None /\ q.rev > row)

Handle(q) ==
  /\ q \in flight /\ flight' = flight \ {q} /\ row' = IF Accepts(q) THEN q.rev ELSE row
  /\ answers' = answers \cup {<<q.by, q.rev, Accepts(q)>>}
  /\ UNCHANGED <<clock, call, seen, shown>>

Lose(q) == q \in flight /\ flight' = flight \ {q} /\ UNCHANGED <<row, clock, call, seen, answers, shown>>

----------------------------------------------------------------------------
Accepted(w) ==
  /\ call[w].at \in {"create", "update"} /\ <<w, call[w].rev, TRUE>> \in answers
  /\ ReturnRecord(w) /\ UNCHANGED <<row, clock, seen, flight, answers>>

\* A refused update raises; a refused create asks who won.
Rejected(w) ==
  /\ call[w].at \in {"create", "update"} /\ <<w, call[w].rev, FALSE>> \in answers
  /\ call' = [call EXCEPT ![w] = IF @.at = "create" THEN [@ EXCEPT !.at = "relist"] ELSE Idle]
  /\ UNCHANGED <<row, clock, seen, flight, answers, shown>>

\* The winner is newer, or the call raises.
Relist(w) ==
  /\ call[w].at = "relist"
  /\ IF row # None /\ row >= call[w].rev THEN ReturnRecord(w)
     ELSE call' = [call EXCEPT ![w] = Idle] /\ UNCHANGED shown
  /\ UNCHANGED <<row, clock, seen, flight, answers>>

\* A timeout, a crash or a cancelled call; its request goes on.
Abandon(w) == /\ call[w].at # "idle" /\ call' = [call EXCEPT ![w] = Idle]
              /\ UNCHANGED <<row, clock, seen, flight, answers, shown>>

ProjectionNext ==
  \/ \E w \in Writers : \/ Upsert(w) \/ List(w) \/ Found(w) \/ UpdateRow(w) \/ CreateRow(w) \/ Accepted(w)
                        \/ Rejected(w) \/ Relist(w) \/ Abandon(w)
  \/ \E q \in flight : Handle(q) \/ Lose(q)

ProjectionSpec == ProjectionInit /\ [][ProjectionNext]_projection_vars

----------------------------------------------------------------------------
(* Properties. *)

ProjectionTypeOK ==
  /\ row \in 1 .. MaxCalls \cup {None} /\ shown \subseteq 1 .. MaxCalls
  /\ \A w \in Writers : call[w].rev <= clock /\ (call[w].at = "idle" <=> call[w].rev = 0)
  /\ \A q \in flight : q.rev <= clock

\* What a panel shows is never replaced by something older, however late, reordered or left
\* behind the requests of the writers are ("monotonic revision makes retries/out-of-order
\* safe"): the check of a writer is on what it read before, only the hook's is on the row.
NeverBackwards == [][row # None => row' # None /\ row' >= row]_projection_vars

\* A call that returned a record left the panel at its revision or at a newer one, also when
\* another writer's create came first.
ReturnedIsShown == \A r \in shown : row # None /\ row >= r

\* What the panel shows only advances, and an upsert that returned is part of it.
ProjectionAdvances == []ReturnedIsShown /\ NeverBackwards
=============================================================================
