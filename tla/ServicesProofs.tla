---------------------------- MODULE ServicesProofs ----------------------------
(***************************************************************************)
(* The services beside the journal, each by itself: the notification       *)
(* outbox, the projections to the panel, the identity of the panel, the    *)
(* budget of the paid models, and the paper daemon with its operator.      *)
(***************************************************************************)
EXTENDS Outbox, Projection, PocketBaseOps, ProviderBudget, PaperDaemon, TotalProofs

(* The outbox: a message that may have been accepted is not sent again, for *)
(* any number of messages, attempts, events and restarts.                   *)

MessageStates == {"ABSENT", "QUEUED", "FAILED", "SENDING", "SENT", "DELIVERED", "UNKNOWN", "BOUNCED"}

OutboxShape ==
  /\ state \in [Messages -> MessageStates] /\ attempts \in [Messages -> Nat]
  /\ accepted \in [Messages -> SUBSET Nat]
  /\ sending \in Messages \cup {None}

ReportedFailed(m, n) == <<m, n, "FAILED">> \in reported

\* The last attempt is the newest, and a batch has room for one more.
OutboxCounted ==
  /\ \A m \in Messages : \A n \in accepted[m] : n <= attempts[m]
  /\ batch # None => \A m \in Messages : m \in batch => attempts[m] < MaxAttempts

\* What may be sent now was accepted in no attempt that is not reported as failed.
OutboxClear ==
  /\ sending # None => state[sending] = "SENDING"
  /\ \A m \in Messages : state[m] \in Retryable \cup {Absent} => \A n \in accepted[m] : ReportedFailed(m, n)
  /\ sending # None => \A n \in accepted[sending] : n < attempts[sending] => ReportedFailed(sending, n)

OutboxInv == OutboxShape /\ OutboxCounted /\ OutboxClear /\ AcceptedOnce

LEMMA InitOutbox == OutboxInit => OutboxInv
BY OutboxAssumption
   DEF OutboxInit, OutboxInv, OutboxShape, OutboxCounted, OutboxClear, AcceptedOnce, Absent,
       MessageStates, Retryable, ReportedFailed

LEMMA NextOutbox ==
  ASSUME Transport = "brevo", ~Redelivered
  PROVE  OutboxInv /\ [OutboxNext]_outbox_vars => OutboxInv'
<1> SUFFICES ASSUME OutboxInv, [OutboxNext]_outbox_vars PROVE OutboxInv' OBVIOUS
<1> USE OutboxAssumption DEF OutboxInv
\* Most steps change neither what was accepted nor what was reported.
<1>0. ASSUME UNCHANGED <<accepted, reported>> PROVE AcceptedOnce'
  BY <1>0 DEF AcceptedOnce
<1>1. ASSUME NEW m \in Messages, enqueue(m) PROVE OutboxInv'
  <2>1. OutboxShape' BY <1>1 DEF OutboxShape, enqueue, MessageStates
  <2>2. OutboxCounted' BY <1>1 DEF enqueue, OutboxCounted
  <2>3. OutboxClear'
    <3>1. sending # None => sending # m BY <1>1 DEF enqueue, OutboxClear, Absent
    <3> QED BY <1>1, <3>1 DEF OutboxShape, enqueue, OutboxClear, ReportedFailed, Retryable, Absent
  <2> QED BY <1>0, <1>1, <2>1, <2>2, <2>3 DEF enqueue
<1>2. ASSUME Select PROVE OutboxInv'
  <2>1. OutboxShape' BY <1>2 DEF OutboxShape, Select
  <2>2. \A m \in Messages : m \in batch' => attempts[m] < MaxAttempts
    BY <1>2 DEF Select, First, Due
  <2>3. OutboxCounted' BY <1>2, <2>2 DEF Select, OutboxCounted
  <2>4. OutboxClear' BY <1>2 DEF Select, OutboxClear, ReportedFailed
  <2> QED BY <1>0, <1>2, <2>1, <2>3, <2>4 DEF Select
<1>3. ASSUME NEW m \in Messages, Claim(m) PROVE OutboxInv'
  <2>1. CASE state[m] \notin Retryable
    <3>1. OutboxShape' /\ OutboxClear'
      BY <1>3, <2>1 DEF OutboxShape, Claim, OutboxClear, ReportedFailed
    <3>2. OutboxCounted' BY <1>3, <2>1 DEF Claim, OutboxCounted
    <3> QED BY <1>0, <1>3, <3>1, <3>2 DEF Claim
  <2>2. CASE state[m] \in Retryable
    <3>1. attempts[m] \in Nat /\ attempts[m] < MaxAttempts
      BY <1>3 DEF Claim, OutboxCounted, OutboxShape
    <3>2. /\ state' = [state EXCEPT ![m] = "SENDING"] /\ sending' = m
          /\ attempts' = [attempts EXCEPT ![m] = attempts[m] + 1]
          /\ batch' = batch \ {m} /\ UNCHANGED <<accepted, reported>> /\ batch # None
      BY <1>3, <2>2, <3>1 DEF Claim
    <3>3. OutboxShape' BY <3>1, <3>2 DEF OutboxShape, MessageStates
    <3>4. OutboxCounted'
      <4>1. ASSUME NEW o \in Messages, NEW n \in accepted[o] PROVE n <= attempts'[o]
        <5>1. n \in Nat /\ n <= attempts[o] /\ attempts[o] \in Nat
          BY <4>1 DEF OutboxShape, OutboxCounted
        <5>2. attempts'[o] = IF o = m THEN attempts[o] + 1 ELSE attempts[o] BY <3>2 DEF OutboxShape
        <5> QED BY <5>1, <5>2, SMT
      <4>2. ASSUME NEW o \in Messages, o \in batch' PROVE attempts'[o] < MaxAttempts
        BY <3>2, <4>2 DEF OutboxCounted, OutboxShape
      <4> QED BY <3>2, <4>1, <4>2 DEF OutboxCounted
    <3>5. \A n \in accepted[m] : ReportedFailed(m, n) BY <2>2 DEF OutboxClear
    <3>6. OutboxClear' BY <3>2, <3>5 DEF OutboxClear, OutboxShape, ReportedFailed, Retryable, Absent
    <3> QED BY <1>0, <3>2, <3>3, <3>4, <3>6
  <2> QED BY <2>1, <2>2
<1>4. ASSUME Return PROVE OutboxInv'
  <2>1. OutboxShape' /\ OutboxClear'
    BY <1>4 DEF Return, OutboxShape, OutboxClear, ReportedFailed, message_row
  <2>2. OutboxCounted' BY <1>4 DEF Return, OutboxCounted, message_row
  <2> QED BY <1>0, <1>4, <2>1, <2>2 DEF Return
<1>5. ASSUME Accept PROVE OutboxInv'
  <2> DEFINE m == sending
  <2>1. m \in Messages /\ attempts[m] \in Nat /\ state[m] = "SENDING"
    BY <1>5 DEF Accept, OutboxShape, OutboxClear
  <2>2. /\ accepted' = [accepted EXCEPT ![m] = accepted[m] \cup {attempts[m]}]
        /\ UNCHANGED <<state, attempts, reported, batch, sending>>
    BY <1>5 DEF Accept, message_row
  <2>3. OutboxShape' BY <2>1, <2>2 DEF OutboxShape
  <2>4. \A o \in Messages : \A n \in accepted'[o] : n \in accepted[o] \/ (o = m /\ n = attempts[m])
    BY <2>1, <2>2 DEF OutboxShape
  <2>5. ASSUME NEW o \in Messages, NEW n \in accepted'[o] PROVE n \in Nat /\ n <= attempts[o]
    BY <2>1, <2>4, <2>5 DEF OutboxCounted, OutboxShape
  <2>6. OutboxCounted' BY <2>2, <2>5 DEF OutboxCounted
  <2>7. \A n \in accepted'[m] : n < attempts[m] => ReportedFailed(m, n)
    <3>1. sending # None BY <1>5 DEF Accept
    <3> QED BY <2>1, <2>4, <3>1 DEF OutboxClear
  <2>8. OutboxClear' BY <2>1, <2>2, <2>4, <2>7 DEF OutboxClear, ReportedFailed, Retryable, Absent
  <2>9. AcceptedOnce'
    <3> SUFFICES ASSUME NEW o \in Messages, NEW n \in accepted'[o], NEW k \in accepted'[o], k > n
                 PROVE  <<o, n, "FAILED">> \in reported
      BY <2>2 DEF AcceptedOnce
    <3>1. CASE o = m
      <4>1. n < attempts[m] BY <2>1, <2>5, <3>1
      <4> QED BY <2>7, <3>1, <4>1 DEF ReportedFailed
    <3>2. CASE o # m
      BY <2>4, <3>2 DEF AcceptedOnce
    <3> QED BY <3>1, <3>2
  <2> QED BY <2>3, <2>6, <2>8, <2>9
\* The message that was sent leaves SENDING; it may be queued only if its attempt was refused.
<1>6. ASSUME NEW outcome \in {"SENT", "UNKNOWN", "FAILED", "DELIVERED"}, sending # None,
             outcome = "FAILED" => attempts[sending] \notin accepted[sending],
             state' = [state EXCEPT ![sending] = outcome], sending' = None,
             UNCHANGED <<attempts, accepted, reported, batch>>
      PROVE  OutboxInv'
  <2>1. sending \in Messages BY <1>6 DEF OutboxShape
  <2>2. OutboxShape' /\ OutboxCounted' BY <1>6, <2>1 DEF OutboxShape, OutboxCounted, MessageStates
  <2>3. ASSUME outcome = "FAILED", NEW n \in accepted[sending] PROVE ReportedFailed(sending, n)
    <3>1. n \in Nat /\ attempts[sending] \in Nat /\ n <= attempts[sending] /\ n # attempts[sending]
      BY <1>6, <2>1, <2>3 DEF OutboxShape, OutboxCounted
    <3> QED BY <1>6, <3>1 DEF OutboxClear
  <2>4. OutboxClear'
    BY <1>6, <2>1, <2>3 DEF OutboxClear, OutboxShape, ReportedFailed, Retryable, Absent
  <2> QED BY <1>0, <1>6, <2>2, <2>4
<1>7. ASSUME Sent PROVE OutboxInv'
  BY <1>6, <1>7 DEF Sent
<1>8. ASSUME Refused PROVE OutboxInv'
  BY <1>6, <1>8 DEF Refused, Refusal, WasAccepted
<1>9. ASSUME Uncertain PROVE OutboxInv'
  BY <1>6, <1>9 DEF Uncertain, Refusal
<1>10. ASSUME Restart PROVE OutboxInv'
  <2>1. OutboxShape' BY <1>10 DEF Restart, OutboxShape, MessageStates
  <2>2. OutboxCounted' BY <1>10 DEF Restart, OutboxCounted
  <2>3. OutboxClear'
    BY <1>10 DEF Restart, OutboxClear, OutboxShape, ReportedFailed, Retryable, Absent
  <2> QED BY <1>0, <1>10, <2>1, <2>2, <2>3 DEF Restart
<1>11. ASSUME NEW m \in Messages, NEW n \in 1 .. MaxAttempts, NEW s \in Statuses, delivery_event(m, n, s)
       PROVE  OutboxInv'
  <2>1. /\ n \in accepted[m] /\ <<m, n, s>> \notin reported
        /\ reported' = reported \cup {<<m, n, s>>}
        /\ \/ state' = state
           \/ state' = [state EXCEPT ![m] = s] /\ state[m] \in {"SENT", "UNKNOWN"}
        /\ UNCHANGED <<attempts, accepted, batch, sending>>
    <3>1. <<m, n, s>> \notin reported BY <1>11, Zenon DEF delivery_event
    <3>2. UNCHANGED <<attempts, accepted, batch, sending>> BY <1>11 DEF delivery_event
    <3>3. n \in accepted[m] /\ reported' = reported \cup {<<m, n, s>>}
      BY <1>11, Zenon DEF delivery_event
    <3>4. \/ state' = state
          \/ state' = [state EXCEPT ![m] = s] /\ state[m] \in {"SENT", "UNKNOWN"}
      BY <1>11, Zenon DEF delivery_event
    <3> QED BY <3>1, <3>2, <3>3, <3>4
  <2>2. OutboxShape' BY <2>1 DEF OutboxShape, MessageStates
  <2>3. OutboxCounted' BY <2>1 DEF OutboxCounted
  <2>4. AcceptedOnce' BY <2>1 DEF AcceptedOnce
  <2>5. \A o \in Messages, k \in Nat : ReportedFailed(o, k) => ReportedFailed(o, k)'
    BY <2>1 DEF ReportedFailed
  \* The event of an attempt that a later one followed has come already.
  <2>6. ASSUME s = "FAILED", NEW k \in accepted[m] PROVE ReportedFailed(m, k)'
    <3>1. k \in Nat /\ n \in Nat BY <2>1, <2>6 DEF OutboxShape
    <3>2. CASE k = n BY <2>1, <2>6, <3>2 DEF ReportedFailed
    <3>3. CASE k > n BY <2>1, <2>6, <3>3 DEF AcceptedOnce
    <3>4. CASE k < n BY <2>1, <2>5, <3>1, <3>4 DEF AcceptedOnce, ReportedFailed
    <3> QED BY <3>1, <3>2, <3>3, <3>4, SMT
  <2>7. sending # None => state'[sending] = "SENDING" BY <2>1 DEF OutboxClear, OutboxShape
  <2>8. ASSUME NEW o \in Messages, state'[o] \in Retryable \cup {Absent}, NEW k \in accepted[o]
        PROVE  ReportedFailed(o, k)'
    <3>1. k \in Nat BY DEF OutboxShape
    <3>2. CASE state'[o] = state[o] BY <2>5, <2>8, <3>1, <3>2 DEF OutboxClear
    <3>3. CASE state'[o] # state[o]
      <4>1. o = m /\ s = "FAILED" BY <2>1, <2>8, <3>3 DEF OutboxShape, Retryable, Absent
      <4> QED BY <2>6, <4>1
    <3> QED BY <3>2, <3>3
  <2>9. ASSUME sending # None, NEW k \in accepted[sending], k < attempts[sending]
        PROVE  <<sending, k, "FAILED">> \in reported'
    <3>1. sending \in Messages /\ k \in Nat BY <2>9 DEF OutboxShape
    <3>2. ReportedFailed(sending, k) BY <2>9 DEF OutboxClear
    <3> QED BY <2>1, <3>2 DEF ReportedFailed
  <2>10. OutboxClear' BY <2>1, <2>7, <2>8, <2>9 DEF OutboxClear, ReportedFailed
  <2> QED BY <2>2, <2>3, <2>4, <2>10
<1>12. CASE UNCHANGED outbox_vars
  <2>1. OutboxShape' /\ OutboxClear'
    BY <1>12 DEF outbox_vars, message_row, OutboxShape, OutboxClear, ReportedFailed
  <2>2. OutboxCounted' BY <1>12 DEF outbox_vars, message_row, OutboxCounted
  <2> QED BY <1>0, <1>12, <2>1, <2>2 DEF outbox_vars
<1> QED BY <1>1, <1>2, <1>3, <1>4, <1>5, <1>7, <1>8, <1>9, <1>10, <1>11, <1>12 DEF OutboxNext

\* With the provider's transport, and events that come once each, a message that was accepted
\* is not accepted again unless the provider reported the earlier attempt as failed: through
\* any timeouts, lost answers, late events and restarts.
THEOREM AcceptedOnceHolds ==
  ASSUME Transport = "brevo", ~Redelivered
  PROVE  OutboxSpec => []AcceptedOnce
<1>1. OutboxInv => AcceptedOnce BY DEF OutboxInv
<1> QED BY <1>1, InitOutbox, NextOutbox, PTL DEF OutboxSpec
-----------------------------------------------------------------------------
(* Projections: a row of the panel never goes backwards, for any number of  *)
(* writers and calls.                                                       *)

WriterStages == {"idle", "list", "choose", "create", "update", "relist"}
RowRequests == [op : {"create", "update"}, by : Writers, rev : Nat]

RowShape ==
  /\ row \in Nat \cup {None} /\ clock \in Nat
  /\ call \in [Writers -> [rev : Nat, at : WriterStages]]
  /\ seen \in [Writers -> Nat \cup {None}]
  /\ flight \subseteq RowRequests
  /\ answers \subseteq Writers \X Nat \X BOOLEAN
  /\ shown \subseteq Nat

Reached(r) == row # None /\ row >= r

\* What a list found and what an answer accepted are still reached by the row.
RowInv ==
  /\ RowShape
  /\ \A w \in Writers : seen[w] # None => Reached(seen[w])
  /\ \A w \in Writers, r \in Nat : <<w, r, TRUE>> \in answers => Reached(r)
  /\ \A r \in shown : Reached(r)

LEMMA InitRow == ProjectionInit => RowInv
<1> USE RevisionAssumption DEF ProjectionInit, RowInv, RowShape, Idle, WriterStages, Reached
<1> QED BY SMT

\* The row only advances, and a request that does not reach the panel leaves it alone.
LEMMA HandleAdvances ==
  ASSUME RowShape, NEW q \in flight, Handle(q)
  PROVE  /\ row' \in Nat \cup {None}
         /\ row # None => row' # None /\ row' >= row
         /\ Accepts(q) => row' # None /\ row' = q.rev
<1>1. q.rev \in Nat BY DEF RowShape, RowRequests
<1> QED BY <1>1, RevisionAssumption, SMT DEF RowShape, Handle, Accepts

LEMMA NextAdvances == ASSUME RowShape, ProjectionNext PROVE row # None => row' # None /\ row' >= row
<1>1. ASSUME NEW q \in flight, Handle(q) PROVE row # None => row' # None /\ row' >= row
  BY <1>1, HandleAdvances
<1>2. ASSUME row' = row PROVE row # None => row' # None /\ row' >= row
  BY <1>2, SMT DEF RowShape
<1>3. ASSUME NEW w \in Writers,
             \/ Upsert(w) \/ List(w) \/ Found(w) \/ UpdateRow(w) \/ CreateRow(w) \/ Accepted(w)
             \/ Rejected(w) \/ Relist(w) \/ Abandon(w)
      PROVE  row' = row
  BY <1>3 DEF Upsert, List, Found, UpdateRow, CreateRow, Send, Accepted, Rejected, Relist, Abandon
<1>4. ASSUME NEW q \in flight, Lose(q) PROVE row' = row BY <1>4 DEF Lose
<1> QED BY <1>1, <1>2, <1>3, <1>4 DEF ProjectionNext

\* A step that leaves the row alone keeps what was reached.
LEMMA RowKeeps ==
  ASSUME RowShape, row' \in Nat \cup {None}, row # None => row' # None /\ row' >= row, NEW r \in Nat, Reached(r)
  PROVE  Reached(r)'
BY SMT DEF RowShape, Reached

LEMMA RowReturned ==
  ASSUME RowInv, NEW w \in Writers, Reached(call[w].rev), ReturnRecord(w),
         UNCHANGED <<row, clock, seen, flight, answers>>
  PROVE  RowInv'
<1>1. call[w].rev \in Nat BY DEF RowInv, RowShape
<1>2. RowShape' BY <1>1 DEF RowInv, RowShape, ReturnRecord, Idle, WriterStages
<1> QED BY <1>1, <1>2 DEF RowInv, ReturnRecord, Reached

LEMMA NextRow == RowInv /\ [ProjectionNext]_projection_vars => RowInv'
<1> SUFFICES ASSUME RowInv, [ProjectionNext]_projection_vars PROVE RowInv' OBVIOUS
<1>1. ASSUME NEW w \in Writers, Upsert(w) PROVE RowInv'
  <2>1. clock + 1 \in Nat /\ [rev |-> clock + 1, at |-> "list"] \in [rev : Nat, at : WriterStages]
    BY SMT DEF RowInv, RowShape, WriterStages
  <2>2. RowShape' BY <1>1, <2>1 DEF RowInv, RowShape, Upsert
  <2> QED BY <1>1, <2>2 DEF RowInv, Upsert, Reached
<1>2. ASSUME NEW w \in Writers, List(w) PROVE RowInv'
  <2>1. RowShape' BY <1>2 DEF RowInv, RowShape, List, Goto, WriterStages
  <2>2. \A v \in Writers : seen'[v] # None => Reached(seen[v])'
    <3> SUFFICES ASSUME NEW v \in Writers, seen'[v] # None PROVE row' # None /\ row' >= seen'[v]
      BY <1>2 DEF Reached, List
    <3>1. CASE v = w
      <4>1. seen'[v] = row BY <1>2, <3>1 DEF List, RowInv, RowShape
      <4>2. row \in Nat BY <4>1 DEF RowInv, RowShape
      <4> QED BY <4>1, <4>2, <1>2, SMT DEF List
    <3>2. CASE v # w
      <4>1. seen'[v] = seen[v] BY <1>2, <3>2 DEF List, RowInv, RowShape
      <4> QED BY <4>1, <1>2 DEF RowInv, Reached, List
    <3> QED BY <3>1, <3>2
  <2> QED BY <1>2, <2>1, <2>2 DEF RowInv, List, Reached
<1>3. ASSUME NEW w \in Writers, Found(w) PROVE RowInv'
  <2>1. Reached(call[w].rev)
    BY <1>3, SMT DEF RowInv, RowShape, Found, Reached
  <2> QED BY <1>3, <2>1, RowReturned DEF Found
<1>4. ASSUME NEW w \in Writers, UpdateRow(w) \/ CreateRow(w) PROVE RowInv'
  <2>1. PICK op \in {"create", "update"} : Send(w, op) BY <1>4 DEF UpdateRow, CreateRow
  <2>2. [op |-> op, by |-> w, rev |-> call[w].rev] \in RowRequests
    BY DEF RowRequests, RowInv, RowShape
  <2>3. RowShape' BY <2>1, <2>2 DEF RowInv, RowShape, Send, Goto, WriterStages
  <2> QED BY <2>1, <2>3 DEF RowInv, Send, Reached
<1>5. ASSUME NEW w \in Writers, Accepted(w) PROVE RowInv'
  <2>1. call[w].rev \in Nat BY DEF RowInv, RowShape
  <2>2. Reached(call[w].rev) BY <1>5, <2>1 DEF RowInv, Accepted
  <2> QED BY <1>5, <2>2, RowReturned DEF Accepted
<1>6. ASSUME NEW w \in Writers, Rejected(w) PROVE RowInv'
  <2>1. RowShape' BY <1>6 DEF RowInv, RowShape, Rejected, Idle, WriterStages
  <2> QED BY <1>6, <2>1 DEF RowInv, Rejected, Reached
<1>7. ASSUME NEW w \in Writers, Relist(w) PROVE RowInv'
  <2>1. CASE row # None /\ row >= call[w].rev
    BY <1>7, <2>1, RowReturned DEF Relist, Reached
  <2>2. CASE ~(row # None /\ row >= call[w].rev)
    <3>1. /\ call' = [call EXCEPT ![w] = Idle]
          /\ UNCHANGED <<row, clock, seen, flight, answers, shown>>
      BY <1>7, <2>2 DEF Relist
    <3>2. RowShape' BY <3>1 DEF RowInv, RowShape, Idle, WriterStages
    <3> QED BY <3>1, <3>2 DEF RowInv, Reached
  <2> QED BY <2>1, <2>2
<1>8. ASSUME NEW w \in Writers, Abandon(w) PROVE RowInv'
  <2>1. RowShape' BY <1>8 DEF RowInv, RowShape, Abandon, Idle, WriterStages
  <2> QED BY <1>8, <2>1 DEF RowInv, Abandon, Reached
<1>9. ASSUME NEW q \in flight, Handle(q) PROVE RowInv'
  <2>0. RowShape BY DEF RowInv
  <2>1. /\ row' \in Nat \cup {None}
        /\ row # None => row' # None /\ row' >= row
        /\ Accepts(q) => row' # None /\ row' = q.rev
    BY <1>9, <2>0, HandleAdvances
  <2>2. q.by \in Writers /\ q.rev \in Nat /\ Accepts(q) \in BOOLEAN
    BY <2>0 DEF RowShape, RowRequests, Accepts
  <2>3. RowShape' BY <1>9, <2>0, <2>1, <2>2 DEF RowShape, Handle
  <2>4. ASSUME NEW r \in Nat, Reached(r) PROVE Reached(r)' BY <2>0, <2>1, <2>4, RowKeeps
  <2>5. \A v \in Writers : seen'[v] # None => Reached(seen[v])'
    <3> SUFFICES ASSUME NEW v \in Writers, seen'[v] # None PROVE Reached(seen[v])' OBVIOUS
    <3>1. seen' = seen BY <1>9 DEF Handle
    <3>2. seen[v] \in Nat /\ Reached(seen[v]) BY <3>1 DEF RowInv, RowShape
    <3>3. PICK r \in Nat : r = seen[v] BY <3>2
    <3>4. Reached(r)' BY <3>2, <3>3, <2>4
    <3> QED BY <3>1, <3>3, <3>4 DEF Reached
  <2>6. \A v \in Writers, r \in Nat : <<v, r, TRUE>> \in answers' => Reached(r)'
    <3> SUFFICES ASSUME NEW v \in Writers, NEW r \in Nat, <<v, r, TRUE>> \in answers' PROVE Reached(r)'
      OBVIOUS
    <3>1. CASE <<v, r, TRUE>> \in answers BY <3>1, <2>4 DEF RowInv
    <3>2. CASE <<v, r, TRUE>> = <<q.by, q.rev, Accepts(q)>>
      <4>1. r = q.rev /\ Accepts(q) BY <3>2
      <4> QED BY <4>1, <2>1, <2>2, SMT DEF Reached
    <3> QED BY <1>9, <3>1, <3>2 DEF Handle
  <2>7. \A r \in shown' : Reached(r)'
    <3>1. shown' = shown /\ shown \subseteq Nat BY <1>9, <2>0 DEF Handle, RowShape
    <3> SUFFICES ASSUME NEW r \in shown PROVE Reached(r)' BY <3>1
    <3>2. r \in Nat /\ Reached(r) BY <3>1 DEF RowInv
    <3> QED BY <3>2, <2>4
  <2> QED BY <2>3, <2>5, <2>6, <2>7 DEF RowInv
<1>10. ASSUME NEW q \in flight, Lose(q) PROVE RowInv'
  BY <1>10 DEF RowInv, RowShape, Lose, Reached
<1>11. CASE UNCHANGED projection_vars BY <1>11 DEF RowInv, RowShape, projection_vars, Reached
<1> QED BY <1>1, <1>2, <1>3, <1>4, <1>5, <1>6, <1>7, <1>8, <1>9, <1>10, <1>11 DEF ProjectionNext

\* Whatever the writers do, and whichever requests are late or lost, a call that returned a
\* record left the row at its revision or a newer one.
THEOREM ReturnedShown == ProjectionSpec => []ReturnedIsShown
<1>1. RowInv => ReturnedIsShown BY DEF RowInv, ReturnedIsShown, Reached
<1> QED BY <1>1, InitRow, NextRow, PTL DEF ProjectionSpec

\* No step takes the row away or back to an older revision.
THEOREM RowAdvances == ProjectionSpec => NeverBackwards
<1>1. RowInv /\ [ProjectionNext]_projection_vars => [row # None => row' # None /\ row' >= row]_projection_vars
  BY NextAdvances DEF RowInv
<1> QED BY <1>1, InitRow, NextRow, PTL DEF ProjectionSpec, NeverBackwards

\* ProjectionAdvances: both of the above, for any number of writers and requests.
THEOREM ProjectionsAdvance == ProjectionSpec => ProjectionAdvances
BY ReturnedShown, RowAdvances, PTL DEF ProjectionAdvances
-----------------------------------------------------------------------------
(* The panel: no identity is replaced, and a promoted copy halts the        *)
(* journal, for any number of crashes, backups, restores and promotions.    *)

Contents == Identities \cup {None, Torn, Unseeded}
Directories == [creds : Contents, brought : BOOLEAN, seed : Contents, version : Nat, marker : BOOLEAN]
Snapshots == [seed : Contents, version : Nat, manifest : BOOLEAN]
Restoring == {"restore", "credentials", "fill", "marker"}
Backing == {"backup", "manifest"}

PanelShape ==
  /\ active \in Directories
  /\ copy = None \/ copy \in Directories
  /\ backup = None \/ backup \in Snapshots
  /\ halted \in BOOLEAN /\ restored \in BOOLEAN /\ finished \in BOOLEAN

Agree(d) == ~d.brought /\ d.creds \in Identities /\ d.seed \in Identities => d.creds = d.seed

\* The start of a daemon has seen what it is about to fill, and a restore fills its own copy.
Seen ==
  /\ launch \in {"create", "write"} => active.seed = None
  /\ launch = "write" => active.creds = Torn
  /\ tool \in Restoring => copy \in Directories /\ Agree(copy)
  /\ tool = "restore" => copy.creds = None
  /\ tool = "fill" => copy.brought
  /\ tool \in Restoring \cup Backing => backup \in Snapshots

Kept == Agree(active) /\ (copy # None => Agree(copy))
IdInv == PanelShape /\ Seen /\ Kept

LEMMA InitIdInv == PocketBaseInit => IdInv
<1> SUFFICES ASSUME PocketBaseInit PROVE IdInv
  OBVIOUS
<1>1. Empty \in Directories BY DEF Empty, Directories, Contents
<1>2. Empty.creds = None BY DEF Empty
<1> QED
  BY <1>1, <1>2, DistinctAssumption
     DEF PocketBaseInit, IdInv, PanelShape, Seen, Kept, Agree, Restoring, Backing

\* A step that leaves both directories alone.
LEMMA SameFiles ==
  ASSUME IdInv, UNCHANGED <<active, copy, backup, finished, restored>>, halted' \in BOOLEAN,
         launch' \in {"create", "write"} => active.seed = None,
         launch' = "write" => active.creds = Torn,
         tool' = tool \/ tool' \notin Restoring \cup Backing
  PROVE  IdInv'
BY DEF IdInv, PanelShape, Seen, Kept, Agree, Restoring, Backing

LEMMA LaunchSteps ==
  ASSUME IdInv, Launch \/ Check \/ Create \/ Write \/ Migrate \/ Login \/ Change \/ Stop
  PROVE  IdInv'
<1> USE DistinctAssumption
<1>1. CASE Launch
  <2>1. halted' \in BOOLEAN BY <1>1, Zenon DEF Launch, IdInv, PanelShape, Directories
  <2> QED BY <1>1, <2>1, SameFiles DEF Launch, Files
<1>2. CASE Check
  <2>1. launch' = "create" => active.seed = None BY <1>2 DEF Check
  <2>2. launch' \in {"migrate", "down", "create"} BY <1>2 DEF Check
  <2> QED BY <1>2, <2>1, <2>2, SameFiles DEF Check, Files, IdInv, PanelShape
<1>3. CASE Create
  <2>1. active' = [active EXCEPT !.creds = Torn] /\ launch' = "write" /\ active.seed = None
    BY <1>3 DEF Create, IdInv, Seen
  <2>2. active' \in Directories /\ active'.creds = Torn /\ active'.seed = None
    BY <2>1 DEF IdInv, PanelShape, Directories, Contents
  <2> QED BY <1>3, <2>1, <2>2 DEF Create, IdInv, PanelShape, Seen, Kept, Agree, Restoring, Backing
<1>4. CASE Write
  <2>1. PICK i \in Identities \ used : active' = [active EXCEPT !.creds = i]
    BY <1>4 DEF Write
  <2>2. active.seed = None BY <1>4 DEF Write, IdInv, Seen
  <2>3. active' \in Directories /\ active'.seed = None
    BY <2>1, <2>2 DEF IdInv, PanelShape, Directories, Contents
  <2> QED BY <1>4, <2>3 DEF Write, IdInv, PanelShape, Seen, Kept, Agree, Restoring, Backing
<1>5. CASE Migrate
  <2>1. CASE UNCHANGED active
    <3>1. launch' \in {"down", "login"} BY <1>5 DEF Migrate
    <3> QED BY <1>5, <2>1, <3>1, SameFiles DEF Migrate, IdInv, PanelShape
  <2>2. CASE active' = [active EXCEPT !.seed = Unseeded]
    <3>1. active' \in Directories /\ active'.seed = Unseeded
      BY <2>2 DEF IdInv, PanelShape, Directories, Contents
    <3>2. launch' \in {"down", "login"} BY <1>5 DEF Migrate
    <3> QED
      BY <1>5, <3>1, <3>2 DEF Migrate, IdInv, PanelShape, Seen, Kept, Agree, Restoring, Backing
  <2>3. CASE active' = [active EXCEPT !.seed = active.creds]
    <3>1. active' \in Directories /\ active'.seed = active'.creds
      BY <2>3 DEF IdInv, PanelShape, Directories, Contents
    <3>2. launch' \in {"down", "login"} BY <1>5 DEF Migrate
    <3> QED
      BY <1>5, <3>1, <3>2 DEF Migrate, IdInv, PanelShape, Seen, Kept, Agree, Restoring, Backing
  <2> QED BY <1>5, <2>1, <2>2, <2>3 DEF Migrate
<1>6. CASE Login
  <2>1. launch' \in {"up", "down"} BY <1>6 DEF Login
  <2> QED BY <1>6, <2>1, SameFiles DEF Login, Files, IdInv, PanelShape
<1>7. CASE Change
  <2>1. active' = [active EXCEPT !.version = active.version + 1] /\ active.version \in Nat
    BY <1>7 DEF Change, IdInv, PanelShape, Directories
  <2>2. /\ active' \in Directories /\ active'.creds = active.creds
        /\ active'.seed = active.seed /\ active'.brought = active.brought
    BY <2>1 DEF IdInv, PanelShape, Directories
  <2> QED BY <1>7, <2>2 DEF Change, IdInv, PanelShape, Seen, Kept, Agree, Restoring, Backing
<1>8. CASE Stop
  BY <1>8, SameFiles DEF Stop, Files, IdInv, PanelShape
<1> QED BY <1>1, <1>2, <1>3, <1>4, <1>5, <1>6, <1>7, <1>8

LEMMA ToolSteps ==
  ASSUME IdInv, \/ BackupBegin \/ BackupCopy \/ BackupEnd
                \/ RestoreBegin \/ RestoreData \/ RestoreCredentials \/ RestoreFill
                \/ RestoreEnd \/ Promote \/ Crash
  PROVE  IdInv'
<1> USE DistinctAssumption
<1>1. CASE BackupBegin
  <2>1. backup' \in Snapshots BY <1>1 DEF BackupBegin, Snapshots, Contents
  <2>2. tool' = "backup" BY <1>1 DEF BackupBegin
  <2> QED
    BY <1>1, <2>1, <2>2 DEF BackupBegin, IdInv, PanelShape, Seen, Kept, Agree, Restoring, Backing
<1>2. CASE BackupCopy
  <2>1. backup \in Snapshots /\ active \in Directories
    BY <1>2 DEF BackupCopy, IdInv, PanelShape, Seen, Backing
  <2>2. backup' = [backup EXCEPT !.seed = active.seed, !.version = active.version]
    BY <1>2 DEF BackupCopy
  <2>3. backup' \in Snapshots BY <2>1, <2>2 DEF Snapshots, Directories
  <2>4. tool' = "manifest" BY <1>2 DEF BackupCopy
  <2> QED
    BY <1>2, <2>3, <2>4 DEF BackupCopy, IdInv, PanelShape, Seen, Kept, Agree, Restoring, Backing
<1>3. CASE BackupEnd
  <2>1. backup \in Snapshots BY <1>3 DEF BackupEnd, IdInv, Seen, Backing
  <2>2. backup' = [backup EXCEPT !.manifest = TRUE] BY <1>3 DEF BackupEnd
  <2>3. backup' \in Snapshots BY <2>1, <2>2 DEF Snapshots
  <2>4. tool' = None BY <1>3 DEF BackupEnd
  <2> QED
    BY <1>3, <2>3, <2>4 DEF BackupEnd, IdInv, PanelShape, Seen, Kept, Agree, Restoring, Backing
<1>4. CASE RestoreBegin
  <2>1. copy' = [Empty EXCEPT !.seed = Torn] BY <1>4 DEF RestoreBegin
  <2>2. copy' \in Directories /\ copy'.creds = None
    BY <2>1 DEF Empty, Directories, Contents
  <2>3. backup \in Snapshots BY <1>4 DEF RestoreBegin, Verified, IdInv, PanelShape
  <2>4. tool' = "restore" /\ finished' = FALSE BY <1>4 DEF RestoreBegin
  <2> QED
    BY <1>4, <2>2, <2>3, <2>4
       DEF RestoreBegin, IdInv, PanelShape, Seen, Kept, Agree, Restoring, Backing
<1>5. CASE RestoreData
  <2>1. copy \in Directories /\ copy.creds = None /\ backup \in Snapshots
    BY <1>5 DEF RestoreData, IdInv, Seen, Restoring
  <2>2. copy' = [copy EXCEPT !.seed = backup.seed, !.version = backup.version]
    BY <1>5 DEF RestoreData
  <2>3. copy' \in Directories /\ copy'.creds = None
    BY <2>1, <2>2 DEF Directories, Snapshots
  <2>4. tool' \in {"credentials", "marker"} BY <1>5 DEF RestoreData
  <2> QED
    BY <1>5, <2>1, <2>3, <2>4
       DEF RestoreData, IdInv, PanelShape, Seen, Kept, Agree, Restoring, Backing
<1>6. CASE RestoreCredentials
  <2>1. copy \in Directories /\ backup \in Snapshots
    BY <1>6 DEF RestoreCredentials, IdInv, Seen, Restoring
  <2>2. copy' = [copy EXCEPT !.creds = Torn, !.brought = TRUE] BY <1>6 DEF RestoreCredentials
  <2>3. copy' \in Directories /\ copy'.brought BY <2>1, <2>2 DEF Directories, Contents
  <2>4. tool' = "fill" BY <1>6 DEF RestoreCredentials
  <2> QED
    BY <1>6, <2>1, <2>3, <2>4
       DEF RestoreCredentials, IdInv, PanelShape, Seen, Kept, Agree, Restoring, Backing
<1>10. CASE RestoreFill
  <2>1. copy \in Directories /\ copy.brought /\ backup \in Snapshots
    BY <1>10 DEF RestoreFill, IdInv, Seen, Restoring
  <2>2. PICK i \in Identities : copy' = [copy EXCEPT !.creds = i] BY <1>10 DEF RestoreFill
  <2>3. copy' \in Directories /\ copy'.brought BY <2>1, <2>2 DEF Directories, Contents
  <2>4. tool' = "marker" BY <1>10 DEF RestoreFill
  <2> QED
    BY <1>10, <2>1, <2>3, <2>4
       DEF RestoreFill, IdInv, PanelShape, Seen, Kept, Agree, Restoring, Backing
<1>7. CASE RestoreEnd
  <2>1. copy \in Directories BY <1>7 DEF RestoreEnd, IdInv, Seen, Restoring
  <2>2. copy' = [copy EXCEPT !.marker = TRUE] BY <1>7 DEF RestoreEnd
  <2>3. /\ copy' \in Directories /\ copy'.creds = copy.creds
        /\ copy'.seed = copy.seed /\ copy'.brought = copy.brought
    BY <2>1, <2>2 DEF Directories
  <2>4. Agree(copy) BY <1>7 DEF RestoreEnd, IdInv, Seen, Restoring
  <2>5. Agree(copy)' BY <2>3, <2>4 DEF Agree
  <2>6. tool' = None /\ finished' = TRUE BY <1>7 DEF RestoreEnd
  <2> QED
    BY <1>7, <2>3, <2>5, <2>6
       DEF RestoreEnd, IdInv, PanelShape, Seen, Kept, Agree, Restoring, Backing
<1>8. CASE Promote
  <2>1. active' = copy /\ copy' = None /\ copy \in Directories /\ Agree(copy)
    BY <1>8 DEF Promote, IdInv, PanelShape, Kept
  <2> QED BY <1>8, <2>1 DEF Promote, IdInv, PanelShape, Seen, Kept, Agree, Restoring, Backing
<1>9. CASE Crash
  <2>1. launch' = "down" /\ tool' = None BY <1>9 DEF Crash
  <2> QED BY <1>9, <2>1, SameFiles DEF Crash, Files, IdInv, PanelShape, Restoring, Backing
<1> QED BY <1>1, <1>2, <1>3, <1>4, <1>5, <1>6, <1>7, <1>8, <1>9, <1>10

LEMMA NextIdInv == IdInv /\ [PocketBaseNext]_pocketbase_vars => IdInv'
<1> SUFFICES ASSUME IdInv, [PocketBaseNext]_pocketbase_vars PROVE IdInv'
  OBVIOUS
<1>1. CASE UNCHANGED pocketbase_vars
  BY <1>1, SameFiles DEF pocketbase_vars, IdInv, PanelShape, Seen
<1> QED BY <1>1, LaunchSteps, ToolSteps DEF PocketBaseNext

\* IdentityKept: credentials that were not brought by a restore open the database beside them,
\* whatever is created, copied, restored, promoted or cut short.
THEOREM IdentitiesKept == PocketBaseSpec => []IdentityKept
<1>1. IdInv => IdentityKept
  BY DEF IdInv, Kept, Agree, IdentityKept
<1> QED BY InitIdInv, NextIdInv, <1>1, PTL DEF PocketBaseSpec

----------------------------------------------------------------------------
\* A finished copy carries the marker, and so does what was promoted; a daemon past its first
\* look has halted the journal.
HaltInv ==
  /\ finished /\ copy # None => copy.marker
  /\ tool \in Restoring => ~finished
  /\ restored => active.marker
  /\ launch # "down" /\ restored => halted

\* RestoredHalts: where only finished restores are promoted, a daemon that comes up on a
\* restored database has halted the journal.
THEOREM RestoredStaysHalted == ASSUME ~PromoteUnfinished PROVE PocketBaseSpec => []RestoredHalts
<1>1. PocketBaseInit => HaltInv
  BY DistinctAssumption DEF PocketBaseInit, HaltInv, Restoring
<1>2. IdInv /\ HaltInv /\ [PocketBaseNext]_pocketbase_vars => HaltInv'
  <2> SUFFICES ASSUME IdInv, HaltInv, [PocketBaseNext]_pocketbase_vars PROVE HaltInv'
    OBVIOUS
  <2> USE DistinctAssumption DEF HaltInv, Restoring
  <2>1. CASE Launch BY <2>1 DEF Launch, Files
  <2>2. CASE Check BY <2>2 DEF Check, Files
  <2>3. CASE Create
    BY <2>3 DEF Create, IdInv, PanelShape, Directories
  <2>4. CASE Write
    BY <2>4 DEF Write, IdInv, PanelShape, Directories
  <2>5. CASE Migrate
    BY <2>5 DEF Migrate, IdInv, PanelShape, Directories
  <2>6. CASE Login BY <2>6 DEF Login, Files
  <2>7. CASE Change
    BY <2>7 DEF Change, IdInv, PanelShape, Directories
  <2>8. CASE Stop BY <2>8 DEF Stop, Files
  <2>9. CASE BackupBegin \/ BackupCopy \/ BackupEnd
    BY <2>9 DEF BackupBegin, BackupCopy, BackupEnd
  <2>10. CASE RestoreBegin BY <2>10 DEF RestoreBegin
  <2>11. CASE RestoreData BY <2>11 DEF RestoreData
  <2>12. CASE RestoreCredentials \/ RestoreFill
    <3>1. copy \in Directories
      BY <2>12 DEF RestoreCredentials, RestoreFill, IdInv, Seen
    <3>2. copy'.marker = copy.marker
      BY <2>12, <3>1 DEF RestoreCredentials, RestoreFill, Directories
    <3> QED BY <2>12, <3>2 DEF RestoreCredentials, RestoreFill
  <2>13. CASE RestoreEnd
    <3>1. copy \in Directories BY <2>13 DEF RestoreEnd, IdInv, Seen
    <3>2. copy'.marker BY <2>13, <3>1 DEF RestoreEnd, Directories
    <3> QED BY <2>13, <3>2 DEF RestoreEnd
  <2>14. CASE Promote BY <2>14 DEF Promote
  <2>15. CASE Crash BY <2>15 DEF Crash, Files
  <2>16. CASE UNCHANGED pocketbase_vars BY <2>16 DEF pocketbase_vars
  <2> QED BY <2>1, <2>2, <2>3, <2>4, <2>5, <2>6, <2>7, <2>8, <2>9, <2>10, <2>11, <2>12, <2>13,
       <2>14, <2>15, <2>16 DEF PocketBaseNext
<1>3. HaltInv => RestoredHalts
  BY DEF HaltInv, RestoredHalts
<1> QED BY InitIdInv, NextIdInv, <1>1, <1>2, <1>3, PTL DEF PocketBaseSpec

----------------------------------------------------------------------------
\* Where only finished restores are promoted, no database that a daemon meets is a part of a
\* copy, and what is in force was drawn by a provision.
Drawn(x) == x \in Identities => x \in used
DirectoryDrawn(d) == Drawn(d.creds) /\ Drawn(d.seed) /\ d.creds # Unseeded
Complete(x) == x # Torn /\ x # Unseeded

Launched ==
  /\ launch \in {"migrate", "login"} => active.creds # None
  /\ launch = "login" => active.seed \in Identities
  /\ launch = "up" => active.seed \in Identities /\ active.creds = active.seed

Tooled ==
  /\ tool = "manifest" => backup.seed # Torn
  /\ Verified => backup.seed # Torn
  /\ tool = "restore" => Complete(backup.seed)
  /\ tool \in {"credentials", "fill", "marker"} => Complete(copy.seed)
  /\ tool \in Restoring => ~finished /\ DirectoryDrawn(copy)
  /\ tool \in Restoring \cup Backing => Drawn(backup.seed)
  /\ finished /\ copy # None => Complete(copy.seed)

WholeInv ==
  /\ used \subseteq Identities
  /\ DirectoryDrawn(active) /\ active.seed # Torn
  /\ copy # None => DirectoryDrawn(copy)
  /\ backup # None => Drawn(backup.seed)
  /\ Launched /\ Tooled

LEMMA InitWhole == PocketBaseInit => WholeInv
BY DistinctAssumption DEF PocketBaseInit, WholeInv, DirectoryDrawn, Drawn, Complete, Launched,
   Tooled, Verified, Restoring, Backing, Empty

LEMMA LaunchWhole ==
  ASSUME IdInv, WholeInv, Launch \/ Check \/ Create \/ Write \/ Migrate \/ Login \/ Change \/ Stop
  PROVE  WholeInv'
<1> USE DistinctAssumption DEF WholeInv, Launched, Tooled, Verified, Restoring, Backing
<1>0. active \in Directories BY DEF IdInv, PanelShape
<1>1. CASE Launch
  BY <1>1 DEF Launch, Files, DirectoryDrawn, Drawn, Complete
<1>2. CASE Check
  BY <1>2 DEF Check, Files, DirectoryDrawn, Drawn, Complete
<1>3. CASE Create
  <2>1. active'.creds = Torn /\ active'.seed = active.seed BY <1>0, <1>3 DEF Create, Directories
  <2> QED BY <1>3, <2>1 DEF Create, DirectoryDrawn, Drawn, Complete
<1>4. CASE Write
  <2>1. PICK i \in Identities \ used :
          active' = [active EXCEPT !.creds = i] /\ used' = used \cup {i}
    BY <1>4 DEF Write
  <2>2. active'.creds = i /\ active'.seed = active.seed BY <1>0, <2>1 DEF Directories
  <2> QED BY <1>4, <2>1, <2>2 DEF Write, DirectoryDrawn, Drawn, Complete
<1>5. CASE Migrate
  <2>1. active'.creds = active.creds
    BY <1>0, <1>5 DEF Migrate, Directories
  <2>2. \/ active'.seed = active.seed /\ active.seed \notin {None, Unseeded} /\ launch' = "login"
        \/ active'.seed = Unseeded /\ launch' = "down"
        \/ active'.seed = active.creds /\ active.creds # Torn /\ launch' = "login"
    BY <1>0, <1>5 DEF Migrate, Directories
  <2>3. active.seed \in Contents /\ active.creds \in Contents BY <1>0 DEF Directories
  <2>4. active'.seed # Torn /\ (launch' = "login" => active'.seed \in Identities)
    BY <1>5, <2>2, <2>3 DEF Migrate, Contents, DirectoryDrawn
  <2>5. DirectoryDrawn(active)'
    BY <1>5, <2>1, <2>2 DEF Migrate, DirectoryDrawn, Drawn
  <2> QED BY <1>5, <2>1, <2>2, <2>4, <2>5 DEF Migrate, DirectoryDrawn, Drawn, Complete
<1>6. CASE Login
  BY <1>6 DEF Login, Files, DirectoryDrawn, Drawn, Complete
<1>7. CASE Change
  <2>1. active'.creds = active.creds /\ active'.seed = active.seed
    BY <1>0, <1>7 DEF Change, Directories
  <2> QED BY <1>7, <2>1 DEF Change, DirectoryDrawn, Drawn, Complete
<1>8. CASE Stop
  BY <1>8 DEF Stop, Files, DirectoryDrawn, Drawn, Complete
<1> QED BY <1>1, <1>2, <1>3, <1>4, <1>5, <1>6, <1>7, <1>8

LEMMA ToolWhole ==
  ASSUME IdInv, WholeInv, ~PromoteUnfinished,
         \/ BackupBegin \/ BackupCopy \/ BackupEnd
         \/ RestoreBegin \/ RestoreData \/ RestoreCredentials \/ RestoreFill
         \/ RestoreEnd \/ Promote \/ Crash
  PROVE  WholeInv'
<1> USE DistinctAssumption DEF WholeInv, Launched, Tooled, Verified, Restoring, Backing
<1>1. CASE BackupBegin
  BY <1>1 DEF BackupBegin, DirectoryDrawn, Drawn, Complete
<1>2. CASE BackupCopy
  <2>1. backup \in Snapshots BY <1>2 DEF BackupCopy, IdInv, PanelShape, Seen, Backing
  <2>2. backup'.seed = active.seed /\ backup'.manifest = backup.manifest
    BY <1>2, <2>1 DEF BackupCopy, Snapshots
  <2> QED BY <1>2, <2>2 DEF BackupCopy, DirectoryDrawn, Drawn, Complete
<1>3. CASE BackupEnd
  <2>1. backup \in Snapshots BY <1>3 DEF BackupEnd, IdInv, PanelShape, Seen, Backing
  <2>2. backup'.seed = backup.seed BY <1>3, <2>1 DEF BackupEnd, Snapshots
  <2> QED BY <1>3, <2>2 DEF BackupEnd, DirectoryDrawn, Drawn, Complete
<1>4. CASE RestoreBegin
  <2>1. copy'.creds = None /\ copy'.seed = Torn BY <1>4 DEF RestoreBegin, Empty
  <2> QED BY <1>4, <2>1 DEF RestoreBegin, DirectoryDrawn, Drawn, Complete
<1>5. CASE RestoreData
  <2>1. copy \in Directories /\ copy.creds = None /\ backup \in Snapshots
    BY <1>5 DEF RestoreData, IdInv, Seen
  <2>2. copy'.creds = None /\ copy'.seed = backup.seed
    BY <1>5, <2>1 DEF RestoreData, Directories
  <2> QED BY <1>5, <2>2 DEF RestoreData, DirectoryDrawn, Drawn, Complete
<1>6. CASE RestoreCredentials
  <2>1. copy \in Directories BY <1>6 DEF RestoreCredentials, IdInv, Seen
  <2>2. copy'.creds = Torn /\ copy'.seed = copy.seed
    BY <1>6, <2>1 DEF RestoreCredentials, Directories
  <2> QED BY <1>6, <2>2 DEF RestoreCredentials, DirectoryDrawn, Drawn, Complete
<1>10. CASE RestoreFill
  <2>1. copy \in Directories BY <1>10 DEF RestoreFill, IdInv, Seen
  <2>2. PICK i \in Identities : copy' = [copy EXCEPT !.creds = i] /\ used' = used \cup {i}
    BY <1>10 DEF RestoreFill
  <2>3. copy'.creds = i /\ copy'.seed = copy.seed
    BY <2>1, <2>2 DEF Directories
  <2> QED BY <1>10, <2>2, <2>3 DEF RestoreFill, DirectoryDrawn, Drawn, Complete
<1>7. CASE RestoreEnd
  <2>1. copy \in Directories BY <1>7 DEF RestoreEnd, IdInv, Seen
  <2>2. copy'.creds = copy.creds /\ copy'.seed = copy.seed
    BY <1>7, <2>1 DEF RestoreEnd, Directories
  <2> QED BY <1>7, <2>2 DEF RestoreEnd, DirectoryDrawn, Drawn, Complete
<1>8. CASE Promote
  BY <1>8 DEF Promote, DirectoryDrawn, Drawn, Complete
<1>9. CASE Crash
  BY <1>9 DEF Crash, Files, DirectoryDrawn, Drawn, Complete
<1> QED BY <1>1, <1>2, <1>3, <1>4, <1>5, <1>6, <1>7, <1>8, <1>9, <1>10

\* PanelWhole: where only finished restores are promoted, no provision replaces an identity, and
\* a daemon comes up on a whole database under the identity that began it.
THEOREM PanelStaysWhole == ASSUME ~PromoteUnfinished PROVE PocketBaseSpec => []PanelWhole
<1>1. IdInv /\ WholeInv /\ [PocketBaseNext]_pocketbase_vars => WholeInv'
  <2> SUFFICES ASSUME IdInv, WholeInv, [PocketBaseNext]_pocketbase_vars PROVE WholeInv'
    OBVIOUS
  <2>1. CASE UNCHANGED pocketbase_vars
    BY <2>1
       DEF pocketbase_vars, WholeInv, DirectoryDrawn, Drawn, Complete, Launched, Tooled, Verified
  <2> QED BY <2>1, LaunchWhole, ToolWhole DEF PocketBaseNext
<1>2. WholeInv => WholeDatabase
  BY DEF WholeInv, WholeDatabase, Launched, DirectoryDrawn, Drawn
<1>3. PocketBaseSpec => []WholeDatabase
  BY InitIdInv, NextIdInv, InitWhole, <1>1, <1>2, PTL DEF PocketBaseSpec
<1> QED BY <1>3, IdentitiesKept, PTL DEF PanelWhole

----------------------------------------------------------------------------
(* The budget of the paid models: a request that reserved keeps its row, so *)
(* the sum under the write lock bounds every bill, for any number of        *)
(* clients, requests and processes that stop.                               *)

Charges(f) == [r \in Requests |-> IF f[r] = None THEN 0 ELSE Cost]

RequestStages == {"new", "queued", "posting"} \cup Ended

BudgetShape ==
  /\ calls \in [Requests -> Rows \cup {None}]
  /\ billed \in [Requests -> 0 .. Cost]
  /\ pc \in [Requests -> RequestStages]

\* Before its reservation a request has no row, and without a row it has no bill.
RowsKept ==
  \A r \in Requests : /\ pc[r] \in {"new", "queued"} => calls[r] = None
                      /\ pc[r] = "posting" => calls[r] # None
                      /\ calls[r] = None => billed[r] = 0

BudgetInv == BudgetShape /\ RowsKept /\ Used <= Cap

LEMMA RowHeld ==
  ASSUME NEW held \in Rows
  PROVE  Held(held) = Cost
BY DEF Held, Rows

LEMMA UsedCharges ==
  ASSUME NEW f \in [Requests -> Rows \cup {None}]
  PROVE  /\ Charges(f) \in [Requests -> Nat]
         /\ Total([r \in Requests |-> IF f[r] = None THEN 0 ELSE Held(f[r])]) = Total(Charges(f))
<1>1. \A r \in Requests : f[r] # None => Held(f[r]) = Cost
  BY RowHeld
<1>2. [r \in Requests |-> IF f[r] = None THEN 0 ELSE Held(f[r])] = Charges(f)
  BY <1>1 DEF Charges
<1>3. QED
  BY <1>2, ProviderAssumption DEF Charges

\* A step that neither adds nor removes a row leaves what is held.
LEMMA UsedSame ==
  ASSUME calls \in [Requests -> Rows \cup {None}], calls' \in [Requests -> Rows \cup {None}],
         \A r \in Requests : (calls'[r] = None) <=> (calls[r] = None)
  PROVE  Used' = Used
<1>1. Used = Total(Charges(calls)) /\ Used' = Total(Charges(calls'))
  BY UsedCharges DEF Used
<1>2. Charges(calls) = Charges(calls')
  BY DEF Charges
<1>3. QED
  BY <1>1, <1>2

LEMMA BudgetInit == ProviderInit => BudgetInv
<1> SUFFICES ASSUME ProviderInit PROVE BudgetInv
  OBVIOUS
<1>1. BudgetShape
  BY ProviderAssumption DEF ProviderInit, BudgetShape, RequestStages
<1>2. RowsKept
  BY DEF ProviderInit, RowsKept
<1>3. Charges(calls) = [r \in Requests |-> 0]
  BY DEF ProviderInit, Charges
<1>4. Used = 0
  BY <1>1, <1>3, UsedCharges, TotalZero, ProviderAssumption DEF Used, BudgetShape
<1>5. QED
  BY <1>1, <1>2, <1>4, ProviderAssumption DEF BudgetInv

\* The reservation of one request, under the lock, adds its cost to the sum it has read.
LEMMA ReserveKeeps ==
  ASSUME BudgetInv, NEW r \in Requests, calls[r] = None, reserve(r), UNCHANGED billed,
         pc' \in [Requests -> RequestStages], pc'[r] = "posting",
         \A q \in Requests \ {r} : pc'[q] = pc[q]
  PROVE  BudgetInv'
<1> DEFINE reserved == [cost_cap |-> Cost, actual |-> None, status |-> "RESERVED"]
<1>1. reserved \in Rows /\ reserved # None
  BY ProviderAssumption DEF Rows
<1>2. calls' = [calls EXCEPT ![r] = reserved] /\ calls \in [Requests -> Rows \cup {None}]
  BY DEF reserve, BudgetInv, BudgetShape
<1> HIDE DEF reserved
<1>3. calls' \in [Requests -> Rows \cup {None}] /\ calls'[r] # None
  BY <1>1, <1>2
<1>4. \A q \in Requests \ {r} : calls'[q] = calls[q]
  BY <1>2
<1>5. BudgetShape'
  BY <1>3 DEF BudgetInv, BudgetShape
<1>6. RowsKept'
  BY <1>3, <1>4 DEF BudgetInv, RowsKept
<1>7. Used' = Used + Cost
  <2>1. Used = Total(Charges(calls)) /\ Used' = Total(Charges(calls'))
    BY <1>2, <1>3, UsedCharges DEF Used
  <2>2. Charges(calls) \in [Requests -> Nat] /\ Charges(calls') \in [Requests -> Nat]
    BY <1>2, <1>3, UsedCharges
  <2>3. /\ \A q \in Requests \ {r} : Charges(calls')[q] = Charges(calls)[q]
        /\ Charges(calls)[r] = 0 /\ Charges(calls')[r] = Cost
    BY <1>3, <1>4 DEF Charges
  <2>4. Total(Charges(calls')) = Total(Charges(calls)) + Charges(calls')[r] - Charges(calls)[r]
    BY <2>2, <2>3, TotalUpdate, ProviderAssumption
  <2>5. Total(Charges(calls)) \in Nat
    BY <2>2, <2>3, TotalUpdate, ProviderAssumption
  <2>6. QED
    BY <2>1, <2>3, <2>4, <2>5, ProviderAssumption
<1>8. Used' <= Cap
  BY <1>7 DEF reserve, Affords
<1>9. QED
  BY <1>5, <1>6, <1>8 DEF BudgetInv

\* An end of a call changes its row and keeps what it holds.
LEMMA FinishKeeps ==
  ASSUME BudgetInv, NEW r \in Requests, pc[r] = "posting", finish(r), UNCHANGED billed,
         pc' \in [Requests -> RequestStages], pc'[r] \in Ended,
         \A q \in Requests \ {r} : pc'[q] = pc[q]
  PROVE  BudgetInv'
<1>1. calls \in [Requests -> Rows \cup {None}] /\ calls[r] \in Rows
  BY DEF BudgetInv, BudgetShape, RowsKept
<1>2. calls'[r] = [calls[r] EXCEPT !.actual = None, !.status = "USAGE_UNKNOWN_RESERVED"]
  BY <1>1 DEF finish
<1>3. calls'[r] \in Rows /\ calls'[r] # None
  BY <1>1, <1>2, ProviderAssumption DEF Rows
<1>4. /\ calls' \in [Requests -> Rows \cup {None}]
      /\ \A q \in Requests \ {r} : calls'[q] = calls[q]
  <2>1. /\ calls' = [q \in Requests |-> IF q = r THEN calls'[r] ELSE calls[q]]
    BY <1>1 DEF finish
  <2>2. QED
    BY <2>1, <1>1, <1>3
<1>5. Used' = Used
  <2>1. calls[r] # None
    BY <1>1, ProviderAssumption
  <2>2. \A q \in Requests : (calls'[q] = None) <=> (calls[q] = None)
    BY <2>1, <1>3, <1>4
  <2>3. QED
    BY <1>1, <1>4, <2>2, UsedSame
<1>6. BudgetShape'
  BY <1>4 DEF BudgetInv, BudgetShape
<1>7. RowsKept'
  BY <1>3, <1>4 DEF BudgetInv, RowsKept, Ended
<1>8. QED
  BY <1>5, <1>6, <1>7 DEF BudgetInv

\* A step that touches no row and no bill, and begins no call.
LEMMA TurnKeeps ==
  ASSUME BudgetInv, UNCHANGED <<calls, billed>>, pc' \in [Requests -> RequestStages],
         \A q \in Requests : \/ pc'[q] = pc[q]
                             \/ pc'[q] = "queued" /\ pc[q] = "new"
                             \/ pc'[q] \in Ended
  PROVE  BudgetInv'
<1>1. Used' = Used
  BY DEF Used
<1>2. BudgetShape'
  BY DEF BudgetInv, BudgetShape
<1>3. RowsKept'
  BY DEF BudgetInv, RowsKept, Ended
<1>4. QED
  BY <1>1, <1>2, <1>3 DEF BudgetInv

LEMMA BillKeeps ==
  ASSUME BudgetInv, NEW r \in Requests, NEW amount \in 1 .. Cost, Bill(r, amount)
  PROVE  BudgetInv'
<1>1. UNCHANGED <<calls, pc>> /\ Used' = Used
  BY DEF Bill, Used
<1>2. BudgetShape'
  BY <1>1, ProviderAssumption DEF BudgetInv, BudgetShape, Bill
<1>3. RowsKept'
  BY <1>1 DEF BudgetInv, BudgetShape, RowsKept, Bill
<1>4. QED
  BY <1>1, <1>2, <1>3 DEF BudgetInv

LEMMA BudgetNext == BudgetInv /\ [ProviderNext]_provider_vars => BudgetInv'
<1> SUFFICES ASSUME BudgetInv, [ProviderNext]_provider_vars PROVE BudgetInv'
  OBVIOUS
<1>0. pc \in [Requests -> RequestStages] /\ RowsKept
  BY DEF BudgetInv, BudgetShape
<1>1. ASSUME NEW r \in Requests, Ask(r) PROVE BudgetInv'
  <2>1. /\ calls[r] = None /\ reserve(r) /\ UNCHANGED billed
        /\ pc' \in [Requests -> RequestStages] /\ pc'[r] = "posting"
        /\ \A q \in Requests \ {r} : pc'[q] = pc[q]
    BY <1>0, <1>1 DEF Ask, Turn, RowsKept, RequestStages
  <2>2. QED
    BY <2>1, ReserveKeeps
<1>2. ASSUME NEW r \in Requests, Refuse(r) PROVE BudgetInv'
  <2>1. /\ UNCHANGED <<calls, billed>> /\ pc' \in [Requests -> RequestStages]
        /\ \A q \in Requests : pc'[q] = pc[q] \/ pc'[q] \in Ended
    BY <1>0, <1>2 DEF Refuse, Turn, RequestStages, Ended
  <2>2. QED
    BY <2>1, TurnKeeps
<1>3. ASSUME NEW r \in Requests, classify(r) PROVE BudgetInv'
  <2>1. /\ UNCHANGED <<calls, billed>> /\ pc' \in [Requests -> RequestStages]
        /\ \A q \in Requests : \/ pc'[q] = pc[q]
                               \/ pc'[q] = "queued" /\ pc[q] = "new"
                               \/ pc'[q] \in Ended
    BY <1>0, <1>3 DEF classify, Turn, RequestStages, Ended
  <2>2. QED
    BY <2>1, TurnKeeps
<1>4. ASSUME NEW r \in Requests, Slot(r) PROVE BudgetInv'
  <2>1. CASE reserve(r) /\ Turn(r, "posting")
    <3>1. /\ calls[r] = None /\ UNCHANGED billed
          /\ pc' \in [Requests -> RequestStages] /\ pc'[r] = "posting"
          /\ \A q \in Requests \ {r} : pc'[q] = pc[q]
      BY <1>0, <1>4, <2>1 DEF Slot, Turn, RowsKept, RequestStages
    <3>2. QED
      BY <2>1, <3>1, ReserveKeeps
  <2>2. CASE Turn(r, "refused") /\ UNCHANGED calls
    <3>1. /\ UNCHANGED <<calls, billed>> /\ pc' \in [Requests -> RequestStages]
          /\ \A q \in Requests : pc'[q] = pc[q] \/ pc'[q] \in Ended
      BY <1>0, <1>4, <2>2 DEF Slot, Turn, RequestStages, Ended
    <3>2. QED
      BY <3>1, TurnKeeps
  <2>3. QED
    BY <1>4, <2>1, <2>2 DEF Slot
<1>5. ASSUME NEW r \in Requests, Answered(r) \/ Fails(r) PROVE BudgetInv'
  <2>1. /\ pc[r] = "posting" /\ finish(r) /\ UNCHANGED billed
        /\ pc' \in [Requests -> RequestStages] /\ pc'[r] \in Ended
        /\ \A q \in Requests \ {r} : pc'[q] = pc[q]
    BY <1>0, <1>5 DEF Answered, Fails, Turn, RequestStages, Ended
  <2>2. QED
    BY <2>1, FinishKeeps
<1>6. ASSUME NEW c \in Clients, Closes(c) \/ ProcessEnds(c) PROVE BudgetInv'
  <2>1. /\ UNCHANGED <<calls, billed>> /\ pc' \in [Requests -> RequestStages]
        /\ \A q \in Requests : pc'[q] = pc[q] \/ pc'[q] \in Ended
    BY <1>0, <1>6 DEF Closes, ProcessEnds, RequestStages, Ended
  <2>2. QED
    BY <2>1, TurnKeeps
<1>7. CASE UNCHANGED provider_vars
  <2>1. UNCHANGED <<calls, billed, pc>>
    BY <1>7 DEF provider_vars
  <2>2. QED
    BY <1>0, <2>1, TurnKeeps
<1>8. QED
  BY <1>1, <1>2, <1>3, <1>4, <1>5, <1>6, <1>7, BillKeeps DEF ProviderNext, ProviderStep

\* Every bill is of a request that holds its row.
LEMMA BillsHeld == BudgetInv => SpentWithinCap
<1> SUFFICES ASSUME BudgetInv PROVE SpentWithinCap
  OBVIOUS
<1>1. calls \in [Requests -> Rows \cup {None}] /\ billed \in [Requests -> 0 .. Cost]
  BY DEF BudgetInv, BudgetShape
<1>2. Used = Total(Charges(calls)) /\ Charges(calls) \in [Requests -> Nat]
  BY <1>1, UsedCharges DEF Used
<1>3. billed \in [Requests -> Nat]
  BY <1>1, ProviderAssumption
<1>4. \A r \in Requests : billed[r] <= Charges(calls)[r]
  BY <1>1, ProviderAssumption DEF Charges, BudgetInv, RowsKept
<1>5. /\ Total(billed) <= Total(Charges(calls))
      /\ Total(billed) \in Nat /\ Total(Charges(calls)) \in Nat
  BY <1>2, <1>3, <1>4, TotalMonotone, ProviderAssumption
<1>6. QED
  BY <1>2, <1>5, ProviderAssumption DEF BudgetInv, SpentWithinCap

\* What the provider can bill never exceeds the cap, whichever requests wait, fail, are
\* billed late or are lost with their process (CostBudget.reserve, CostBudget.finish).
THEOREM BillsStayWithinCap == ProviderSpec => []SpentWithinCap
<1>1. ProviderSpec => []BudgetInv
  BY BudgetInit, BudgetNext, PTL DEF ProviderSpec
<1>2. QED
  BY <1>1, BillsHeld, PTL

(* The paper daemon and its operator: one attempt per market, one program   *)
(* at a time, and settlements that stand, for any number of markets, fills  *)
(* of an order, launches and faults.                                        *)

DaemonStages == {"off", "starting", "wait", "resolve", "scan", "order"}

\* The records of the two programs; a running daemon has drawn its identity.
ProgramShape ==
  /\ daemon \in [pc : DaemonStages, launch : Launches \cup {None}, stop : BOOLEAN,
                 todo : SUBSET Markets, doing : Markets \cup {None}]
  /\ Running => daemon.launch \in Launches
  /\ operator \in [pc : {"off", "cancel"}, todo : SUBSET Markets]
  /\ operator.pc = "off" => operator = AtRest
  /\ stopFile \in BOOLEAN /\ lease \in Launches \cup {None}

\* The instance lock is held by exactly the program that runs.
LockHeld ==
  /\ lock \in {None, "daemon", "operator"}
  /\ lock = "daemon" <=> daemon.pc # "off"
  /\ lock = "operator" <=> operator.pc # "off"

JournalShape ==
  /\ order \in [Markets -> States] /\ filled \in [Markets -> 0 .. Size]
  /\ ordered \in [Markets -> {0, 1}] /\ settled \subseteq Markets

\* An intent was counted when its order began; both programs only work on orders that
\* began; an open order has fills to come, and a settled market has no open order.
AttemptsCounted ==
  /\ \A m \in Markets : /\ ordered[m] = 0 <=> order[m] = "NONE"
                        /\ order[m] \notin Terminal => filled[m] < Size
                        /\ m \in settled => order[m] \in Terminal
                        /\ Evaluating(m) => order[m] # "NONE"
  /\ \A m \in operator.todo : order[m] # "NONE"

DaemonInv == ProgramShape /\ LockHeld /\ JournalShape /\ AttemptsCounted

----------------------------------------------------------------------------
\* There is an identity that the lease does not have: CHOOSE finds one.
LEMMA FreshLaunch ==
  (CHOOSE n \in Launches : n # lease) \in Launches
<1>1. ASSUME \A n \in Launches : n = lease PROVE FALSE
  <2>1. Launches \subseteq {lease}
    BY <1>1
  <2>2. IsFiniteSet({lease}) /\ Cardinality({lease}) = 1
    BY FS_Singleton
  <2>3. IsFiniteSet(Launches) /\ Cardinality(Launches) <= 1
    BY <2>1, <2>2, FS_Subset
  <2>4. Cardinality(Launches) \in Nat
    BY <2>3, FS_CardinalityType
  <2>5. QED
    BY <2>3, <2>4, DaemonAssumption
<1>2. QED
  BY <1>1

LEMMA DaemonInit == Init => DaemonInv
<1> SUFFICES ASSUME Init PROVE DaemonInv
  OBVIOUS
<1>1. ProgramShape
  BY DEF Init, ProgramShape, Off, AtRest, Running, DaemonStages
<1>2. LockHeld
  BY DaemonAssumption DEF Init, LockHeld, Off, AtRest
<1>3. JournalShape
  BY DaemonAssumption DEF Init, JournalShape, States, Terminal, Working
<1>4. AttemptsCounted
  BY DaemonAssumption DEF Init, AttemptsCounted, Evaluating, At, Off, AtRest
<1>5. QED
  BY <1>1, <1>2, <1>3, <1>4 DEF DaemonInv

\* A resolution goes on with the next position, or ends the cycle; it settles a market
\* with no open order.
LEMMA ResolveStep ==
  ASSUME NEW m \in Markets, Resolve(m)
  PROVE  /\ daemon.pc = "resolve"
         /\ Advance("resolve", daemon.todo \ {m}) \/ Advance("wait", {})
         /\ settled' = settled \/ (order[m] \in Terminal /\ settled' = settled \cup {m})
         /\ UNCHANGED <<order, filled, ordered, lock, lease, stopFile, operator>>
<1>1. CASE resolution_payout(m) = None
  BY <1>1 DEF Resolve, At, control
<1>2. CASE resolution_payout(m) # None /\ Reconciled(m)
  BY <1>2 DEF Resolve, At, Reconciled, control
<1>3. CASE resolution_payout(m) # None /\ ~Reconciled(m)
  BY <1>3 DEF Resolve, Abort, At, control
<1>4. QED
  BY <1>1, <1>2, <1>3

LEMMA ProgramNext ==
  ASSUME DaemonInv, [Next]_vars
  PROVE  ProgramShape'
<1> USE DEF DaemonInv, ProgramShape, Running, DaemonStages
<1>1. ASSUME ControlLeaseExpires \/ RenewLease \/ Pause PROVE ProgramShape'
  BY <1>1 DEF ControlLeaseExpires, RenewLease, Pause, journal, AtRest
<1>2. ASSUME ExecutorLeaseExpires PROVE ProgramShape'
  BY <1>2 DEF ExecutorLeaseExpires, journal, control, AtRest
<1>3. ASSUME LaunchDaemon PROVE ProgramShape'
  BY <1>3, FreshLaunch DEF LaunchDaemon, journal, control, Off, AtRest
<1>4. ASSUME Started PROVE ProgramShape'
  BY <1>4 DEF Started, At, Advance, journal, control, AtRest
<1>5. ASSUME DaemonCrash PROVE ProgramShape'
  BY <1>5 DEF DaemonCrash, journal, control, Off, AtRest
<1>6. ASSUME Lifecycle \/ LowDisk PROVE ProgramShape'
  BY <1>6 DEF Lifecycle, LowDisk, Looping, journal, control, AtRest
<1>7. ASSUME LifecycleFails PROVE ProgramShape'
  BY <1>7 DEF LifecycleFails, Looping, journal, control, Off, AtRest
<1>8. ASSUME BeginCycle PROVE ProgramShape'
  BY <1>8 DEF BeginCycle, Positions, At, Advance, journal, control, AtRest
<1>9. ASSUME BeginScan PROVE ProgramShape'
  BY <1>9 DEF BeginScan, At, Advance, journal, control, AtRest
<1>10. ASSUME EndScan PROVE ProgramShape'
  BY <1>10 DEF EndScan, At, Advance, journal, control, AtRest
<1>11. ASSUME Finish PROVE ProgramShape'
  BY <1>11 DEF Finish, Ends, At, journal, control, Off, AtRest
<1>12. ASSUME ScanFenced \/ SourceFails PROVE ProgramShape'
  BY <1>12 DEF ScanFenced, SourceFails, Abort, At, Advance, journal, control, AtRest
<1>13. ASSUME WithdrawStop \/ RequestStop PROVE ProgramShape'
  BY <1>13 DEF WithdrawStop, RequestStop, journal, control, AtRest
<1>14. ASSUME CancelOpen PROVE ProgramShape'
  BY <1>14 DEF CancelOpen, journal, control, AtRest
<1>15. ASSUME CancelEnds \/ CancelDies PROVE ProgramShape'
  BY <1>15 DEF CancelEnds, CancelDies, journal, control, AtRest
<1>16. ASSUME NEW m \in Markets, Resolution(m) PROVE ProgramShape'
  BY <1>16 DEF Resolution, journal, control, AtRest
<1>17. ASSUME NEW m \in Markets, Resolve(m) PROVE ProgramShape'
  <2>1. ASSUME NEW stage \in {"resolve", "wait"}, NEW todo \in SUBSET Markets, Advance(stage, todo)
        PROVE  ProgramShape'
    BY <1>17, <2>1, ResolveStep DEF Advance
  <2>2. daemon.todo \ {m} \in SUBSET Markets /\ {} \in SUBSET Markets
    OBVIOUS
  <2>3. QED
    BY <1>17, <2>1, <2>2, ResolveStep
<1>18. ASSUME NEW m \in Markets, Abstain(m) PROVE ProgramShape'
  BY <1>18 DEF Abstain, At, journal, control, AtRest
<1>19. ASSUME NEW m \in Markets, Prepare(m) PROVE ProgramShape'
  BY <1>19 DEF Prepare, Attempted, At, control, AtRest
<1>20. ASSUME NEW m \in Markets, Submit(m) \/ Acknowledge(m) \/ ApplyFill(m) PROVE ProgramShape'
  BY <1>20 DEF Submit, Acknowledge, ApplyFill, Journaled, At, Evaluating, control, AtRest
<1>21. ASSUME NEW m \in Markets, OrderRefused(m) PROVE ProgramShape'
  BY <1>21 DEF OrderRefused, At, Evaluating, journal, control, AtRest
<1>22. ASSUME NEW m \in Markets, CancelRest(m) PROVE ProgramShape'
  BY <1>22 DEF CancelRest, RequestCancel, ConfirmCancel, Journaled, At, Evaluating, control, AtRest
<1>23. ASSUME NEW m \in Markets, Evaluated(m) PROVE ProgramShape'
  BY <1>23 DEF Evaluated, At, Evaluating, journal, control, AtRest
<1>24. ASSUME NEW m \in Markets, CancelNext(m) PROVE ProgramShape'
  BY <1>24 DEF CancelNext, RequestCancel, ConfirmCancel, Journaled, journal, control, AtRest
<1>25. CASE UNCHANGED vars
  BY <1>25 DEF vars, journal, control, AtRest
<1>26. QED
  BY <1>1, <1>2, <1>3, <1>4, <1>5, <1>6, <1>7, <1>8, <1>9, <1>10, <1>11, <1>12, <1>13, <1>14, <1>15,
     <1>16, <1>17, <1>18, <1>19, <1>20, <1>21, <1>22, <1>23, <1>24, <1>25
     DEF Next, CycleStep, OrderStep

LEMMA LockNext ==
  ASSUME DaemonInv, [Next]_vars
  PROVE  LockHeld'
<1> USE DEF DaemonInv, ProgramShape, LockHeld, Running, DaemonStages
<1>1. ASSUME ControlLeaseExpires \/ RenewLease \/ Pause PROVE LockHeld'
  BY <1>1, DaemonAssumption DEF ControlLeaseExpires, RenewLease, Pause, journal, AtRest
<1>2. ASSUME ExecutorLeaseExpires PROVE LockHeld'
  BY <1>2, DaemonAssumption DEF ExecutorLeaseExpires, journal, control, AtRest
<1>3. ASSUME LaunchDaemon PROVE LockHeld'
  BY <1>3, DaemonAssumption DEF LaunchDaemon, journal, control, Off, AtRest
<1>4. ASSUME Started PROVE LockHeld'
  BY <1>4, DaemonAssumption DEF Started, At, Advance, journal, control, AtRest
<1>5. ASSUME DaemonCrash PROVE LockHeld'
  BY <1>5, DaemonAssumption DEF DaemonCrash, journal, control, Off, AtRest
<1>6. ASSUME Lifecycle \/ LowDisk PROVE LockHeld'
  BY <1>6, DaemonAssumption DEF Lifecycle, LowDisk, Looping, journal, control, AtRest
<1>7. ASSUME LifecycleFails PROVE LockHeld'
  BY <1>7, DaemonAssumption DEF LifecycleFails, Looping, journal, control, Off, AtRest
<1>8. ASSUME BeginCycle PROVE LockHeld'
  BY <1>8, DaemonAssumption DEF BeginCycle, Positions, At, Advance, journal, control, AtRest
<1>9. ASSUME BeginScan PROVE LockHeld'
  BY <1>9, DaemonAssumption DEF BeginScan, At, Advance, journal, control, AtRest
<1>10. ASSUME EndScan PROVE LockHeld'
  BY <1>10, DaemonAssumption DEF EndScan, At, Advance, journal, control, AtRest
<1>11. ASSUME Finish PROVE LockHeld'
  BY <1>11, DaemonAssumption DEF Finish, Ends, At, journal, control, Off, AtRest
<1>12. ASSUME ScanFenced \/ SourceFails PROVE LockHeld'
  BY <1>12, DaemonAssumption DEF ScanFenced, SourceFails, Abort, At, Advance, journal, control, AtRest
<1>13. ASSUME WithdrawStop \/ RequestStop PROVE LockHeld'
  BY <1>13, DaemonAssumption DEF WithdrawStop, RequestStop, journal, control, AtRest
<1>14. ASSUME CancelOpen PROVE LockHeld'
  BY <1>14, DaemonAssumption DEF CancelOpen, journal, control, AtRest
<1>15. ASSUME CancelEnds \/ CancelDies PROVE LockHeld'
  BY <1>15, DaemonAssumption DEF CancelEnds, CancelDies, journal, control, AtRest
<1>16. ASSUME NEW m \in Markets, Resolution(m) PROVE LockHeld'
  BY <1>16, DaemonAssumption DEF Resolution, journal, control, AtRest
<1>17. ASSUME NEW m \in Markets, Resolve(m) PROVE LockHeld'
  BY <1>17, DaemonAssumption, ResolveStep DEF Advance
<1>18. ASSUME NEW m \in Markets, Abstain(m) PROVE LockHeld'
  BY <1>18, DaemonAssumption DEF Abstain, At, journal, control, AtRest
<1>19. ASSUME NEW m \in Markets, Prepare(m) PROVE LockHeld'
  BY <1>19, DaemonAssumption DEF Prepare, Attempted, At, control, AtRest
<1>20. ASSUME NEW m \in Markets, Submit(m) \/ Acknowledge(m) \/ ApplyFill(m) PROVE LockHeld'
  BY <1>20, DaemonAssumption
     DEF Submit, Acknowledge, ApplyFill, Journaled, At, Evaluating, control, AtRest
<1>21. ASSUME NEW m \in Markets, OrderRefused(m) PROVE LockHeld'
  BY <1>21, DaemonAssumption DEF OrderRefused, At, Evaluating, journal, control, AtRest
<1>22. ASSUME NEW m \in Markets, CancelRest(m) PROVE LockHeld'
  BY <1>22, DaemonAssumption
     DEF CancelRest, RequestCancel, ConfirmCancel, Journaled, At, Evaluating, control, AtRest
<1>23. ASSUME NEW m \in Markets, Evaluated(m) PROVE LockHeld'
  BY <1>23, DaemonAssumption DEF Evaluated, At, Evaluating, journal, control, AtRest
<1>24. ASSUME NEW m \in Markets, CancelNext(m) PROVE LockHeld'
  BY <1>24, DaemonAssumption
     DEF CancelNext, RequestCancel, ConfirmCancel, Journaled, journal, control, AtRest
<1>25. CASE UNCHANGED vars
  BY <1>25 DEF vars, journal, control, AtRest
<1>26. QED
  BY <1>1, <1>2, <1>3, <1>4, <1>5, <1>6, <1>7, <1>8, <1>9, <1>10, <1>11, <1>12, <1>13, <1>14, <1>15,
     <1>16, <1>17, <1>18, <1>19, <1>20, <1>21, <1>22, <1>23, <1>24, <1>25
     DEF Next, CycleStep, OrderStep

LEMMA JournalNext ==
  ASSUME DaemonInv, [Next]_vars
  PROVE  JournalShape'
<1> USE DEF DaemonInv, JournalShape, AttemptsCounted, States, Terminal, Working
<1>1. ASSUME ControlLeaseExpires \/ RenewLease \/ Pause PROVE JournalShape'
  BY <1>1, DaemonAssumption DEF ControlLeaseExpires, RenewLease, Pause, At, Evaluating, journal
<1>2. ASSUME ExecutorLeaseExpires PROVE JournalShape'
  BY <1>2, DaemonAssumption DEF ExecutorLeaseExpires, At, Evaluating, journal, control
<1>3. ASSUME LaunchDaemon PROVE JournalShape'
  BY <1>3, DaemonAssumption DEF LaunchDaemon, At, Evaluating, journal, control
<1>4. ASSUME Started PROVE JournalShape'
  BY <1>4, DaemonAssumption DEF Started, At, Evaluating, journal, control
<1>5. ASSUME DaemonCrash PROVE JournalShape'
  BY <1>5, DaemonAssumption DEF DaemonCrash, At, Evaluating, journal, control
<1>6. ASSUME Lifecycle \/ LowDisk PROVE JournalShape'
  BY <1>6, DaemonAssumption DEF Lifecycle, LowDisk, Looping, At, Evaluating, journal, control
<1>7. ASSUME LifecycleFails PROVE JournalShape'
  BY <1>7, DaemonAssumption DEF LifecycleFails, Looping, At, Evaluating, journal, control
<1>8. ASSUME BeginCycle PROVE JournalShape'
  BY <1>8, DaemonAssumption DEF BeginCycle, Positions, At, Evaluating, journal, control
<1>9. ASSUME BeginScan PROVE JournalShape'
  BY <1>9, DaemonAssumption DEF BeginScan, At, Evaluating, journal, control
<1>10. ASSUME EndScan PROVE JournalShape'
  BY <1>10, DaemonAssumption DEF EndScan, At, Evaluating, journal, control
<1>11. ASSUME Finish PROVE JournalShape'
  BY <1>11, DaemonAssumption DEF Finish, Ends, At, Evaluating, journal, control
<1>12. ASSUME ScanFenced \/ SourceFails PROVE JournalShape'
  BY <1>12, DaemonAssumption DEF ScanFenced, SourceFails, Abort, At, Evaluating, journal, control
<1>13. ASSUME WithdrawStop \/ RequestStop PROVE JournalShape'
  BY <1>13, DaemonAssumption DEF WithdrawStop, RequestStop, At, Evaluating, journal, control
<1>14. ASSUME CancelOpen PROVE JournalShape'
  BY <1>14, DaemonAssumption DEF CancelOpen, At, Evaluating, journal, control
<1>15. ASSUME CancelEnds \/ CancelDies PROVE JournalShape'
  BY <1>15, DaemonAssumption DEF CancelEnds, CancelDies, At, Evaluating, journal, control
<1>16. ASSUME NEW m \in Markets, Resolution(m) PROVE JournalShape'
  BY <1>16, DaemonAssumption DEF Resolution, At, Evaluating, journal, control
<1>17. ASSUME NEW m \in Markets, Resolve(m) PROVE JournalShape'
  BY <1>17, ResolveStep
<1>18. ASSUME NEW m \in Markets, Abstain(m) PROVE JournalShape'
  BY <1>18, DaemonAssumption DEF Abstain, At, Evaluating, journal, control
<1>19. ASSUME NEW m \in Markets, Prepare(m) PROVE JournalShape'
  BY <1>19, DaemonAssumption DEF Prepare, Attempted, At, Evaluating, control
<1>20. ASSUME NEW m \in Markets, Submit(m) \/ Acknowledge(m) \/ ApplyFill(m) PROVE JournalShape'
  BY <1>20, DaemonAssumption DEF Submit, Acknowledge, ApplyFill, Journaled, At, Evaluating, control
<1>21. ASSUME NEW m \in Markets, OrderRefused(m) PROVE JournalShape'
  BY <1>21, DaemonAssumption DEF OrderRefused, At, Evaluating, journal, control
<1>22. ASSUME NEW m \in Markets, CancelRest(m) PROVE JournalShape'
  BY <1>22, DaemonAssumption
     DEF CancelRest, RequestCancel, ConfirmCancel, Journaled, At, Evaluating, control
<1>23. ASSUME NEW m \in Markets, Evaluated(m) PROVE JournalShape'
  BY <1>23, DaemonAssumption DEF Evaluated, At, Evaluating, journal, control
<1>24. ASSUME NEW m \in Markets, CancelNext(m) PROVE JournalShape'
  BY <1>24, DaemonAssumption
     DEF CancelNext, RequestCancel, ConfirmCancel, Journaled, At, Evaluating, journal, control
<1>25. CASE UNCHANGED vars
  BY <1>25 DEF vars, journal, At, Evaluating, control
<1>26. QED
  BY <1>1, <1>2, <1>3, <1>4, <1>5, <1>6, <1>7, <1>8, <1>9, <1>10, <1>11, <1>12, <1>13, <1>14, <1>15,
     <1>16, <1>17, <1>18, <1>19, <1>20, <1>21, <1>22, <1>23, <1>24, <1>25
     DEF Next, CycleStep, OrderStep

LEMMA AttemptsNext ==
  ASSUME DaemonInv, [Next]_vars
  PROVE  AttemptsCounted'
<1> USE DEF DaemonInv, ProgramShape, LockHeld, JournalShape, AttemptsCounted, Terminal, Working
<1>1. ASSUME ControlLeaseExpires \/ RenewLease \/ Pause PROVE AttemptsCounted'
  BY <1>1, DaemonAssumption
     DEF ControlLeaseExpires, RenewLease, Pause, Evaluating, At, journal, AtRest
<1>2. ASSUME ExecutorLeaseExpires PROVE AttemptsCounted'
  BY <1>2, DaemonAssumption DEF ExecutorLeaseExpires, Evaluating, At, journal, control, AtRest
<1>3. ASSUME LaunchDaemon PROVE AttemptsCounted'
  BY <1>3, DaemonAssumption DEF LaunchDaemon, Evaluating, At, journal, control, Off, AtRest
<1>4. ASSUME Started PROVE AttemptsCounted'
  BY <1>4, DaemonAssumption DEF Started, Evaluating, At, Advance, journal, control, AtRest
<1>5. ASSUME DaemonCrash PROVE AttemptsCounted'
  BY <1>5, DaemonAssumption DEF DaemonCrash, Evaluating, At, journal, control, Off, AtRest
<1>6. ASSUME Lifecycle \/ LowDisk PROVE AttemptsCounted'
  BY <1>6, DaemonAssumption DEF Lifecycle, LowDisk, Looping, Evaluating, At, journal, control, AtRest
<1>7. ASSUME LifecycleFails PROVE AttemptsCounted'
  BY <1>7, DaemonAssumption DEF LifecycleFails, Looping, Evaluating, At, journal, control, Off, AtRest
<1>8. ASSUME BeginCycle PROVE AttemptsCounted'
  BY <1>8, DaemonAssumption DEF BeginCycle, Positions, Evaluating, At, Advance, journal, control, AtRest
<1>9. ASSUME BeginScan PROVE AttemptsCounted'
  BY <1>9, DaemonAssumption DEF BeginScan, Evaluating, At, Advance, journal, control, AtRest
<1>10. ASSUME EndScan PROVE AttemptsCounted'
  BY <1>10, DaemonAssumption DEF EndScan, Evaluating, At, Advance, journal, control, AtRest
<1>11. ASSUME Finish PROVE AttemptsCounted'
  BY <1>11, DaemonAssumption DEF Finish, Ends, Evaluating, At, journal, control, Off, AtRest
<1>12. ASSUME ScanFenced \/ SourceFails PROVE AttemptsCounted'
  BY <1>12, DaemonAssumption
     DEF ScanFenced, SourceFails, Abort, Evaluating, At, Advance, journal, control, AtRest
<1>13. ASSUME WithdrawStop \/ RequestStop PROVE AttemptsCounted'
  BY <1>13, DaemonAssumption DEF WithdrawStop, RequestStop, Evaluating, At, journal, control, AtRest
<1>14. ASSUME CancelOpen PROVE AttemptsCounted'
  BY <1>14, DaemonAssumption DEF CancelOpen, Evaluating, At, journal, control, AtRest
<1>15. ASSUME CancelEnds \/ CancelDies PROVE AttemptsCounted'
  BY <1>15, DaemonAssumption DEF CancelEnds, CancelDies, Evaluating, At, journal, control, AtRest
<1>16. ASSUME NEW m \in Markets, Resolution(m) PROVE AttemptsCounted'
  BY <1>16, DaemonAssumption DEF Resolution, Evaluating, At, journal, control, AtRest
<1>17. ASSUME NEW m \in Markets, Resolve(m) PROVE AttemptsCounted'
  <2>1. \A n \in Markets : Evaluating(n)' => order'[n] # "NONE"
    BY <1>17, ResolveStep DEF Evaluating, At, Advance
  <2>2. QED
    BY <1>17, <2>1, ResolveStep DEF Evaluating, At
<1>18. ASSUME NEW m \in Markets, Abstain(m) PROVE AttemptsCounted'
  BY <1>18, DaemonAssumption DEF Abstain, Evaluating, At, journal, control, AtRest
<1>19. ASSUME NEW m \in Markets, Prepare(m) PROVE AttemptsCounted'
  BY <1>19, DaemonAssumption DEF Prepare, Attempted, Evaluating, At, control, AtRest
<1>20. ASSUME NEW m \in Markets, Submit(m) \/ Acknowledge(m) \/ ApplyFill(m) PROVE AttemptsCounted'
  BY <1>20, DaemonAssumption
     DEF Submit, Acknowledge, ApplyFill, Journaled, Evaluating, At, control, AtRest
<1>21. ASSUME NEW m \in Markets, OrderRefused(m) PROVE AttemptsCounted'
  BY <1>21, DaemonAssumption DEF OrderRefused, Evaluating, At, journal, control, AtRest
<1>22. ASSUME NEW m \in Markets, CancelRest(m) PROVE AttemptsCounted'
  BY <1>22, DaemonAssumption
     DEF CancelRest, RequestCancel, ConfirmCancel, Journaled, Evaluating, At, control, AtRest
<1>23. ASSUME NEW m \in Markets, Evaluated(m) PROVE AttemptsCounted'
  BY <1>23, DaemonAssumption DEF Evaluated, Evaluating, At, journal, control, AtRest
<1>24. ASSUME NEW m \in Markets, CancelNext(m) PROVE AttemptsCounted'
  BY <1>24, DaemonAssumption
     DEF CancelNext, RequestCancel, ConfirmCancel, Journaled, Evaluating, At, journal, control, AtRest
<1>25. CASE UNCHANGED vars
  BY <1>25 DEF vars, journal, Evaluating, At, control, AtRest
<1>26. QED
  BY <1>1, <1>2, <1>3, <1>4, <1>5, <1>6, <1>7, <1>8, <1>9, <1>10, <1>11, <1>12, <1>13, <1>14, <1>15,
     <1>16, <1>17, <1>18, <1>19, <1>20, <1>21, <1>22, <1>23, <1>24, <1>25
     DEF Next, CycleStep, OrderStep

\* No step after a settlement touches the orders of the market.
LEMMA SettledNext ==
  ASSUME DaemonInv, [Next]_vars, NEW m \in settled
  PROVE  filled'[m] = filled[m] /\ order'[m] = order[m]
<1>1. order \in [Markets -> States] /\ filled \in [Markets -> 0 .. Size] /\ m \in Markets
  BY DEF DaemonInv, JournalShape
<1>2. order[m] \in Terminal
  BY <1>1 DEF DaemonInv, AttemptsCounted
<1>3. ASSUME NEW o \in Markets, o # m, NEW next,
             order' = [order EXCEPT ![o] = next], filled' = filled \/ filled' = [filled EXCEPT ![o] = @ + 1]
      PROVE  filled'[m] = filled[m] /\ order'[m] = order[m]
  BY <1>1, <1>3
<1>4. ASSUME NEW o \in Markets, Prepare(o) PROVE filled'[m] = filled[m] /\ order'[m] = order[m]
  <2>1. o # m
    BY <1>4 DEF Prepare
  <2>2. QED
    BY <1>3, <1>4, <2>1 DEF Prepare
<1>5. ASSUME NEW o \in Markets, Submit(o) \/ Acknowledge(o) \/ ApplyFill(o)
      PROVE  filled'[m] = filled[m] /\ order'[m] = order[m]
  <2>1. o # m
    BY <1>2, <1>5 DEF Submit, Acknowledge, ApplyFill, Terminal
  <2>2. QED
    BY <1>3, <1>5, <2>1 DEF Submit, Acknowledge, ApplyFill, Journaled
<1>6. ASSUME NEW o \in Markets, RequestCancel(o) \/ ConfirmCancel(o), UNCHANGED filled
      PROVE  filled'[m] = filled[m] /\ order'[m] = order[m]
  <2>1. o # m
    BY <1>2, <1>6 DEF RequestCancel, ConfirmCancel, Terminal
  <2>2. QED
    BY <1>3, <1>6, <2>1 DEF RequestCancel, ConfirmCancel, Journaled
<1>7. CASE UNCHANGED <<order, filled>>
  BY <1>7
<1>8. ASSUME NEW o \in Markets, Resolve(o) PROVE UNCHANGED <<order, filled>>
  BY <1>8, ResolveStep
<1>9. ASSUME NEW o \in Markets, CancelNext(o) \/ CancelRest(o)
      PROVE  filled'[m] = filled[m] /\ order'[m] = order[m]
  BY <1>6, <1>7, <1>9 DEF CancelNext, CancelRest, journal
<1>10. ASSUME NEW o \in Markets, Resolution(o) \/ Abstain(o) \/ OrderRefused(o) \/ Evaluated(o)
       PROVE  UNCHANGED <<order, filled>>
  BY <1>10 DEF Resolution, Abstain, OrderRefused, Evaluated, journal
<1>11. CASE \/ ControlLeaseExpires \/ ExecutorLeaseExpires
            \/ LaunchDaemon \/ Started \/ DaemonCrash \/ Lifecycle \/ LifecycleFails \/ LowDisk \/ RenewLease
            \/ CycleStep \/ SourceFails
            \/ WithdrawStop \/ RequestStop \/ Pause \/ CancelOpen \/ CancelEnds \/ CancelDies
  BY <1>7, <1>11
     DEF ControlLeaseExpires, ExecutorLeaseExpires, LaunchDaemon, Started, DaemonCrash, Lifecycle, LifecycleFails,
         LowDisk, RenewLease, CycleStep, BeginCycle, BeginScan, EndScan, Finish, Ends, ScanFenced,
         SourceFails, WithdrawStop, RequestStop, Pause, CancelOpen, CancelEnds, CancelDies, journal
<1>12. CASE UNCHANGED vars
  BY <1>7, <1>12 DEF vars, journal
<1>13. QED
  BY <1>4, <1>5, <1>7, <1>8, <1>9, <1>10, <1>11, <1>12 DEF Next, OrderStep

LEMMA DaemonNext == DaemonInv /\ [Next]_vars => DaemonInv'
BY ProgramNext, LockNext, JournalNext, AttemptsNext DEF DaemonInv

\* What the invariant says of the states a run checks.
LEMMA InvariantHolds == DaemonInv => TypeOK /\ OneAttempt
<1> SUFFICES ASSUME DaemonInv PROVE TypeOK /\ OneAttempt
  OBVIOUS
<1>1. operator # AtRest <=> operator.pc # "off"
  BY DEF DaemonInv, ProgramShape, AtRest
<1>2. TypeOK
  BY <1>1 DEF DaemonInv, ProgramShape, LockHeld, JournalShape, Running, TypeOK
<1>3. OneAttempt
  BY DEF DaemonInv, JournalShape, OneAttempt
<1>4. QED
  BY <1>2, <1>3

\* A market is attempted once and by one program at a time, and what is settled stays as it
\* was, across faults, launches, halts and cancellations (run_daemon, PaperCandidate.evaluate,
\* resolve_positions, cancel-open).
THEOREM AttemptsAreFinal == Spec => AttemptsFinal
<1>1. Spec => []DaemonInv
  BY DaemonInit, DaemonNext, PTL DEF Spec
<1>2. DaemonInv /\ [Next]_vars => [\A m \in settled : filled'[m] = filled[m] /\ order'[m] = order[m]]_vars
  BY SettledNext
<1>3. QED
  BY <1>1, <1>2, InvariantHolds, PTL DEF Spec, AttemptsFinal, SettledFinal

==============================================================================
