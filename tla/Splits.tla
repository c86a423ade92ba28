-------------------------------- MODULE Splits --------------------------------
(***************************************************************************)
(* The three ways the research cuts a history in time: chronological_split *)
(* (research/robust_intraday.py), temporal_split and walk_forward          *)
(* (research/evaluation.py).  A step cuts one history chosen at the start. *)
(***************************************************************************)
EXTENDS NoValue, Integers, FiniteSets, FiniteSetsExt

CONSTANTS Epochs,                \* the epochs a chronological history is made of
          Decisions, Clusters,   \* the events of the other kind of history ...
          Longest,               \* ... the longest time from decision to settlement ...
          MaxEvents,             \* ... and their number
          Embargoes

ASSUME SplitAssumption ==
  /\ IsFiniteSet(Epochs) /\ Epochs \cup Decisions \subseteq Int
  /\ Longest \in Nat /\ Embargoes \subseteq Nat
  /\ None \notin Epochs

VARIABLES epochs, events, embargo, cut, parts

split_vars == <<epochs, events, embargo, cut, parts>>

SplitInit ==
  /\ embargo \in Embargoes /\ cut = None /\ parts = None
  /\ \/ epochs \in SUBSET Epochs /\ events = {}
     \/ epochs = {} /\ events \in kSubset(MaxEvents,
          [decision_at : Decisions, lasts : 1 .. Longest, cluster_id : Clusters])

settlement_at(e) == e.decision_at + e.lasts

----------------------------------------------------------------------------
(* chronological_split, at its default fractions. *)

AtLeastOne(n) == Max({1, n})

TrainCount(n) == AtLeastOne((6 * n) \div 10)
ValidationCount(n) == Min({AtLeastOne((2 * n) \div 10), n - TrainCount(n) - 1})

\* The float 0.6 / 0.8 lies below 3/4: a whole number of quarters loses one.
FixedTrainCount(n) == Min({AtLeastOne((3 * n - 1) \div 4), n - 1})

\* The elements of ranks from .. to, in order of time.
Slice(S, from, to) == {e \in S : Cardinality({x \in S : x <= e}) \in from .. to}

RawSplit(start) ==
  LET n == Cardinality(epochs)
      t == TrainCount(n)
      v == ValidationCount(n)
      before == {e \in epochs : e < start}
      f == FixedTrainCount(Cardinality(before))
  IN IF start = None
     THEN [train |-> Slice(epochs, 1, t), validation |-> Slice(epochs, t + 1, t + v),
           test |-> Slice(epochs, t + v + 1, n)]
     ELSE [train |-> Slice(before, 1, f), validation |-> Slice(before, f + 1, Cardinality(before)),
           test |-> epochs \ before]

Splittable(start) ==
  /\ Cardinality(epochs) >= 3
  /\ IF start = None THEN ValidationCount(Cardinality(epochs)) >= 1
     ELSE Cardinality({e \in epochs : e < start}) >= 2 /\ \E e \in epochs : e >= start

\* An epoch is so much earlier than all of them, or later than the first.
Before(e, S, gap) == \A x \in S : e < x - gap
After(e, S, gap) == \E x \in S : e >= x + gap

Embargoed(raw) ==
  [train |-> {e \in raw.train : Before(e, raw.validation, embargo)},
   validation |-> {e \in raw.validation : /\ After(e, raw.validation, embargo)
                                          /\ Before(e, raw.test, embargo)},
   test |-> {e \in raw.test : After(e, raw.test, embargo)}]

chronological_split(start) ==
  /\ parts = None /\ epochs # {} /\ Splittable(start)
  /\ cut' = [kind |-> "chronological", start |-> start]
  /\ parts' = Embargoed(RawSplit(start))
  /\ {} \notin {parts'.train, parts'.validation, parts'.test}
  /\ UNCHANGED <<epochs, events, embargo>>

----------------------------------------------------------------------------
(* temporal_split and walk_forward. *)

\* Mutant: a label settled by the boundary needs no embargo.
SettledBefore(e, time) == settlement_at(e) < time

KnownBefore(e, time) == settlement_at(e) + embargo < time

Parts == {"train", "validation", "test"}
Spanning(raw) ==
  {c \in Clusters : \E p, q \in Parts : /\ p # q
                                      /\ \E a \in raw[p], b \in raw[q] : {a.cluster_id, b.cluster_id} = {c}}

RawEvents(train_end, validation_end) ==
  [train |-> {e \in events : e.decision_at < train_end /\ KnownBefore(e, train_end)},
   validation |-> {e \in events : /\ train_end <= e.decision_at /\ e.decision_at < validation_end
                                  /\ KnownBefore(e, validation_end)},
   test |-> {e \in events : e.decision_at >= validation_end}]

temporal_split(train_end, validation_end) ==
  LET raw == RawEvents(train_end, validation_end)
  IN /\ parts = None /\ events # {} /\ train_end < validation_end
     /\ cut' = [kind |-> "temporal", train_end |-> train_end, validation_end |-> validation_end]
     /\ parts' = [p \in Parts |-> {e \in raw[p] : e.cluster_id \notin Spanning(raw)}]
     /\ UNCHANGED <<epochs, events, embargo>>

TrainingOf(test, start) ==
  {e \in events : KnownBefore(e, start) /\ \A t \in test : t.cluster_id # e.cluster_id}

\* One fold of walk_forward.
walk_forward(start, end) ==
  LET test == {e \in events : start <= e.decision_at /\ e.decision_at < end}
  IN /\ parts = None /\ events # {} /\ start < end
     /\ cut' = [kind |-> "fold", start |-> start, end |-> end]
     /\ parts' = [train |-> TrainingOf(test, start), validation |-> {}, test |-> test]
     /\ UNCHANGED <<epochs, events, embargo>>

SplitNext ==
  \/ \E start \in {None} \cup Epochs : chronological_split(start)
  \/ \E a, b \in Decisions : temporal_split(a, b) \/ walk_forward(a, b)

SplitSpec == SplitInit /\ [][SplitNext]_split_vars

----------------------------------------------------------------------------
(* Properties. *)

Chronological == parts # None /\ cut.kind = "chronological"
OfEvents == parts # None /\ cut.kind # "chronological"
Ordered == <<<<"train", "validation">>, <<"validation", "test">>, <<"train", "test">>>>

\* Whatever the history and the fixed start, the epochs of two parts of a
\* chronological split are more than two embargoes apart, and the parts stand in
\* order: no instant, and no label of a market that still runs, leaks.
TwoEmbargoesApart ==
  Chronological => \A i \in DOMAIN Ordered :
    \A a \in parts[Ordered[i][1]], b \in parts[Ordered[i][2]] : a + 2 * embargo <= b /\ a # b

\* A chronological split drops no epoch but between two parts, and there less than two
\* embargoes of time; a fixed holdout is all of the epochs from its start but those of
\* one embargo (raw_test, test_epochs).
DroppedForCause ==
  Chronological =>
    LET Gap(a, b) == {e \in epochs : (\A x \in parts[a] : x < e) /\ (\A y \in parts[b] : e < y)}
        Gaps == {Gap("train", "validation"), Gap("validation", "test")}
    IN /\ \A gap \in Gaps : \A a, b \in gap : b - a < 2 * embargo
       /\ epochs = parts.train \cup parts.validation \cup parts.test \cup UNION Gaps
       /\ cut.start # None =>
            {e \in epochs : After(e, {x \in epochs : x >= cut.start}, embargo)} = parts.test

\* A part learns only from events settled, with the embargo, before any decision of a
\* later part, and no cluster stands on both sides (temporal_split, walk_forward).
LabelsKnown ==
  OfEvents => \A i \in DOMAIN Ordered :
    \A a \in parts[Ordered[i][1]], b \in parts[Ordered[i][2]] :
      settlement_at(a) + embargo < b.decision_at /\ a.cluster_id # b.cluster_id

\* temporal_split purges an event only for its label, or for its cluster that other
\* events with known labels hold in another part.
PurgedForCause ==
  parts # None /\ cut.kind = "temporal" =>
    LET Boundaries == {cut.train_end, cut.validation_end}
        Timely(e) == \A b \in Boundaries : e.decision_at < b => settlement_at(e) + embargo < b
    IN \A e \in events \ (parts.train \cup parts.validation \cup parts.test) :
         \/ ~Timely(e)
         \/ \E o \in events : /\ Timely(o) /\ o.cluster_id = e.cluster_id
                             /\ \E b \in Boundaries : (o.decision_at < b) # (e.decision_at < b)

\* A part of a split learns only from labels known before a later one decides, is two
\* embargoes away from it, and loses nothing else (chronological_split, temporal_split,
\* walk_forward).
PartsApart == TwoEmbargoesApart /\ DroppedForCause /\ LabelsKnown /\ PurgedForCause
=============================================================================
