------------------------------ MODULE PublicHTTP ------------------------------
(***************************************************************************)
(* The public client of the sources (ingestion/http.py): get of several    *)
(* tasks, with the semaphore, the lock of the rate, the retries and their   *)
(* backoff.  asyncio wakes the waiters of both in the order they came.      *)
(* Time runs in ticks; the delay of the rate is Interval of them.           *)
(***************************************************************************)
EXTENDS Integers, Sequences, FiniteSets, FiniteSetsExt

CONSTANTS Tasks, Slots,        \* asyncio.Semaphore(Slots)
          Attempts,            \* range(Attempts)
          Interval             \* of the rate

VARIABLES at,         \* of a task: where its get is
          attempt,    \* of a task, from 0
          waiting,    \* the waiters of the semaphore, in order
          queue,      \* the waiters of the lock, in order; its holder is the first
          delay,      \* of a task that holds the lock: ticks left to sleep
          idle        \* ticks since _last_request, at most Interval

vars == <<at, attempt, waiting, queue, delay, idle>>

InSlot == {t \in Tasks : at[t] \notin {"out", "waiting"}}

Init ==
  /\ at = [t \in Tasks |-> "out"] /\ attempt = [t \in Tasks |-> 0]
  /\ waiting = <<>> /\ queue = <<>> /\ delay = [t \in Tasks |-> 0]
  /\ idle = Interval

Goto(t, place) == at' = [at EXCEPT ![t] = place]

\* A refused URL never waits; it is not part of the model.
get(t) ==
  /\ at[t] = "out" /\ Goto(t, "waiting") /\ waiting' = Append(waiting, t)
  /\ attempt' = [attempt EXCEPT ![t] = 0] /\ UNCHANGED <<queue, delay, idle>>

Enter(t) ==
  /\ waiting # <<>> /\ t = Head(waiting) /\ Cardinality(InSlot) < Slots
  /\ waiting' = Tail(waiting) /\ Goto(t, "queued") /\ queue' = Append(queue, t)
  /\ UNCHANGED <<attempt, delay, idle>>

\* The lock is taken, the delay is computed, and slept while the lock is held.
Measure(t) ==
  /\ at[t] = "queued" /\ t = Head(queue) /\ Goto(t, "paced")
  /\ delay' = [delay EXCEPT ![t] = Interval - idle]
  /\ UNCHANGED <<attempt, waiting, queue, idle>>

Pass(t) ==
  /\ at[t] = "paced" /\ delay[t] = 0 /\ t = Head(queue)
  /\ Goto(t, "requesting") /\ queue' = Tail(queue) /\ idle' = 0
  /\ UNCHANGED <<attempt, waiting, delay>>

\* Mutant: the last attempt is retried too.
RetryForEver(t) ==
  /\ at[t] = "requesting" /\ Goto(t, "backoff") /\ UNCHANGED <<attempt, waiting, queue, delay, idle>>

\* 429, 5xx or a transport error before the last attempt; the slot is kept while it sleeps.
Retry(t) ==
  /\ at[t] = "requesting" /\ attempt[t] < Attempts - 1 /\ Goto(t, "backoff")
  /\ attempt' = [attempt EXCEPT ![t] = @ + 1] /\ UNCHANGED <<waiting, queue, delay, idle>>

Awake(t) ==
  /\ at[t] = "backoff" /\ Goto(t, "queued") /\ queue' = Append(queue, t)
  /\ UNCHANGED <<attempt, waiting, delay, idle>>

\* A body, or a SourceError.
End(t) == at[t] = "requesting" /\ Goto(t, "out") /\ UNCHANGED <<attempt, waiting, queue, delay, idle>>

Tick ==
  /\ idle < Interval \/ \E t \in Tasks : delay[t] > 0
  /\ idle' = Min({idle + 1, Interval})
  /\ delay' = [t \in Tasks |-> Max({delay[t] - 1, 0})]
  /\ UNCHANGED <<at, attempt, waiting, queue>>

Step(t) == Enter(t) \/ Measure(t) \/ Pass(t) \/ Awake(t) \/ Retry(t) \/ End(t)
Next == Tick \/ \E t \in Tasks : get(t) \/ Step(t)

Spec == Init /\ [][Next]_vars
\* Every sleep and every request ends (timeout=20); nobody has to call get.
Fairness == WF_vars(Tick) /\ \A t \in Tasks : WF_vars(Step(t))
FairSpec == Spec /\ Fairness

----------------------------------------------------------------------------
(* Properties. *)

\* Tasks and attempts stay in their sets, and no more tasks than slots are between the
\* semaphore's two ends (asyncio.Semaphore).
TypeOK ==
  /\ at \in [Tasks -> {"out", "waiting", "queued", "paced", "requesting", "backoff"}]
  /\ attempt \in [Tasks -> 0 .. Attempts - 1] /\ Cardinality(InSlot) <= Slots
  /\ {queue[i] : i \in DOMAIN queue} = {t \in Tasks : at[t] \in {"queued", "paced"}}

\* Two requests are never let through within one interval of each other, also when several
\* tasks wait for the rate at once or come back from a backoff.
Paced == [][\A t \in Tasks : at[t] = "paced" /\ at'[t] = "requesting" => idle = Interval]_vars

\* Every get ends, though the others call it again for ever and every source may fail: the
\* attempts are bounded and both queues are served in order.
EveryGetEnds == \A t \in Tasks : at[t] = "waiting" ~> at[t] = "out"
=============================================================================
