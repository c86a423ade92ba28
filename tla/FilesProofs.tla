------------------------------ MODULE FilesProofs ------------------------------
(***************************************************************************)
(* Theorems about the programs that go on over what a torn or a failed     *)
(* write left in their files: the two traders, for any number of markets   *)
(* and errors, and the resumable download, for any window, number of       *)
(* shards and catalog of the venue, restarts and torn lines.               *)
(***************************************************************************)
EXTENDS Traders, HistoryDownload, TotalProofs, SequenceTheorems, FiniteSetTheorems,
        WellFoundedInduction, TLAPS

----------------------------------------------------------------------------
(* What a write does to the lines of a file. *)

AtMostOne(places) == \A i, j \in places : i = j

LEMMA PlacesFinite ==
  ASSUME NEW S, NEW lines \in Seq(S), NEW kinds, NEW m
  PROVE  /\ IsFiniteSet(Places(lines, kinds, m))
         /\ Cardinality(Places(lines, kinds, m)) \in Nat
         /\ Places(lines, kinds, m) = {} => Cardinality(Places(lines, kinds, m)) = 0
         /\ Places(lines, kinds, m) # {} => Cardinality(Places(lines, kinds, m)) > 0
         /\ AtMostOne(Places(lines, kinds, m)) => Cardinality(Places(lines, kinds, m)) <= 1
<1> DEFINE P == Places(lines, kinds, m)
<1>1. IsFiniteSet(P)
  <2>1. P \subseteq 1 .. Len(lines)
    BY DEF Places
  <2>2. IsFiniteSet(1 .. Len(lines))
    BY FS_Interval
  <2>3. QED
    BY <2>1, <2>2, FS_Subset
<1>2. Cardinality(P) \in Nat /\ (Cardinality(P) = 0 <=> P = {})
  BY <1>1, FS_CardinalityType, FS_EmptySet
<1>3. ASSUME AtMostOne(P), P # {} PROVE Cardinality(P) = 1
  <2>1. PICK i \in P : TRUE
    BY <1>3
  <2>2. P = {i}
    BY <1>3, <2>1 DEF AtMostOne
  <2>3. QED
    BY <2>2, FS_Singleton
<1>4. QED
  BY <1>1, <1>2, <1>3

\* The place of a new line, if it is of these kinds and this market.
NewPlace(lines, line, kinds, m) ==
  {i \in {Len(lines) + 1} : line # Garbage /\ line.type \in kinds /\ line.market = m}

LEMMA PlacesAppend ==
  ASSUME NEW S, NEW lines \in Seq(S), NEW line \in S, NEW kinds, NEW m
  PROVE  Places(Append(lines, line), kinds, m) = Places(lines, kinds, m) \cup NewPlace(lines, line, kinds, m)
<1> DEFINE more == Append(lines, line)
<1>1. /\ DOMAIN more = 1 .. Len(lines) + 1 /\ DOMAIN lines = 1 .. Len(lines) /\ Len(lines) \in Nat
      /\ \A i \in 1 .. Len(lines) : more[i] = lines[i]
      /\ more[Len(lines) + 1] = line
  OBVIOUS
<1>2. \A i \in DOMAIN more : i \in DOMAIN lines \/ i = Len(lines) + 1
  BY <1>1
<1>3. DOMAIN lines \subseteq DOMAIN more /\ Len(lines) + 1 \in DOMAIN more
  BY <1>1
<1> HIDE DEF more
<1>4. QED
  BY <1>1, <1>2, <1>3 DEF Places, NewPlace

FilesOf(S) == [lines : Seq(S), tail : S \cup {NoTail}]

\* A file after a write, whole or interrupted: its lines are kept, or one is added.
LEMMA WrittenFile ==
  ASSUME NEW S, Garbage \in S, NEW old \in FilesOf(S), NEW record \in S,
         NEW f \in Interrupted(old, record)
  PROVE  /\ f \in FilesOf(S)
         /\ \/ f.lines = old.lines
            \/ \E line \in {record, Garbage} : f.lines = Append(old.lines, line)
<1>1. CASE f = old
  BY <1>1
<1>2. CASE f = Written(old, record)
  BY <1>2 DEF Written, FilesOf
<1>3. CASE \E t \in {Garbage, IF old.tail = NoTail THEN record ELSE Garbage} : f = [old EXCEPT !.tail = t]
  BY <1>3 DEF FilesOf
<1>4. QED
  BY <1>1, <1>2, <1>3 DEF Interrupted

\* Of no kind and market it has more than the places it had and the place of the record.
LEMMA PlacesWritten ==
  ASSUME NEW S, Garbage \in S, NEW old \in FilesOf(S), NEW record \in S,
         NEW f \in Interrupted(old, record), NEW kinds, NEW m
  PROVE  \/ Places(f.lines, kinds, m) = Places(old.lines, kinds, m)
         \/ Places(f.lines, kinds, m) = Places(old.lines, kinds, m) \cup NewPlace(old.lines, record, kinds, m)
<1>1. CASE f.lines = old.lines
  BY <1>1
<1>2. ASSUME NEW line \in {record, Garbage}, f.lines = Append(old.lines, line)
      PROVE  \/ Places(f.lines, kinds, m) = Places(old.lines, kinds, m)
             \/ Places(f.lines, kinds, m)
                  = Places(old.lines, kinds, m) \cup NewPlace(old.lines, record, kinds, m)
  <2>1. line \in S /\ old.lines \in Seq(S)
    BY DEF FilesOf
  <2>2. Places(f.lines, kinds, m) = Places(old.lines, kinds, m) \cup NewPlace(old.lines, line, kinds, m)
    BY <1>2, <2>1, PlacesAppend
  <2>3. NewPlace(old.lines, Garbage, kinds, m) = {}
    BY DEF NewPlace
  <2>4. QED
    BY <2>2, <2>3
<1>3. QED
  BY <1>1, <1>2, WrittenFile

\* An uninterrupted write is one of them; behind a newline it adds its record.
LEMMA WholeWrite ==
  ASSUME NEW S, NEW old \in FilesOf(S), NEW record \in S
  PROVE  /\ Written(old, record) \in Interrupted(old, record) /\ Written(old, record).tail = NoTail
         /\ old.tail = NoTail => \A kinds, m :
              Places(Written(old, record).lines, kinds, m)
                = Places(old.lines, kinds, m) \cup NewPlace(old.lines, record, kinds, m)
<1>1. old.tail = NoTail => Written(old, record).lines = Append(old.lines, record)
  BY DEF Written
<1>2. old.lines \in Seq(S)
  BY DEF FilesOf
<1>3. QED
  BY <1>1, <1>2, PlacesAppend DEF Written, Interrupted

\* The record is placed once, behind the others.
LEMMA OneNewPlace ==
  ASSUME NEW S, NEW lines \in Seq(S), NEW record, NEW kinds, NEW m
  PROVE  /\ Places(lines, kinds, m) = {} => AtMostOne(Places(lines, kinds, m) \cup NewPlace(lines, record, kinds, m))
         /\ NewPlace(lines, record, kinds, m) # {} <=>
              record # Garbage /\ record.type \in kinds /\ record.market = m
BY DEF AtMostOne, NewPlace

\* A record of another kind or market has no place here.
LEMMA OtherPlaces ==
  ASSUME NEW S, Garbage \in S, NEW old \in FilesOf(S), NEW record \in S, record # Garbage,
         NEW f \in Interrupted(old, record), NEW kinds, NEW m,
         record.type \notin kinds \/ record.market # m
  PROVE  Places(f.lines, kinds, m) = Places(old.lines, kinds, m)
<1>1. NewPlace(old.lines, record, kinds, m) = {}
  BY DEF NewPlace
<1>2. \/ Places(f.lines, kinds, m) = Places(old.lines, kinds, m)
      \/ Places(f.lines, kinds, m) = Places(old.lines, kinds, m) \cup NewPlace(old.lines, record, kinds, m)
  BY PlacesWritten
<1>3. QED
  BY <1>1, <1>2

----------------------------------------------------------------------------
(* The lag experiment: one bet per market. *)

LagStages == {"down", "top", "settling", "observing", "candidate", "signalled", "reporting"}
Lines == LagEvents \cup {Garbage}

LagShape ==
  /\ now \in 0 .. MaxTime /\ result \in [Markets -> {Null} \cup 0 .. 2]
  /\ lag_pc \in LagStages /\ lag_pending \in LagEvents \cup {Null} /\ lag_at \in {0} \cup Markets
  /\ lag_todo \subseteq {0} \cup Markets /\ lag_file \in FilesOf(Lines)

Signals(lines, m) == Places(lines, {"SIGNAL"}, m)
Replies(lines, m) == Places(lines, {"PAPER_FILL", "NO_FILL"}, m)
Settlements(lines, m) == Places(lines, {"SETTLEMENT"}, m)

BetsCounted(lines) ==
  \A m \in Markets :
    /\ AtMostOne(Signals(lines, m)) /\ AtMostOne(Replies(lines, m)) /\ AtMostOne(Settlements(lines, m))
    /\ Signals(lines, m) = {} => Replies(lines, m) = {}

\* The record may follow: it is the first of its kind for its market.
Fresh(lines, record) ==
  /\ record.type = "SIGNAL" => Signals(lines, record.market) = {}
  /\ record.type \in {"PAPER_FILL", "NO_FILL"} =>
       Signals(lines, record.market) # {} /\ Replies(lines, record.market) = {}
  /\ record.type = "SETTLEMENT" => Settlements(lines, record.market) = {}

\* Where the cycle is tells what its market has, and that the signal is not glued to a tail.
CandidateClear ==
  lag_pc = "candidate" =>
    /\ lag_at \in Markets /\ Signals(lag_file.lines, lag_at) = {}
    /\ IF lag_pending = Null THEN lag_file.tail = NoTail ELSE lag_pending.type = "OBSERVATION"

SignalPlaced ==
  lag_pc = "signalled" =>
    /\ lag_at \in Markets /\ lag_file.tail = NoTail /\ Replies(lag_file.lines, lag_at) = {}
    /\ IF lag_pending = Null THEN Signals(lag_file.lines, lag_at) # {} ELSE lag_pending = LagEvent("SIGNAL", lag_at)

\* What is being written was decided on what the file holds.
PendingFresh ==
  lag_pending # Null =>
    /\ Fresh(lag_file.lines, lag_pending)
    /\ lag_pending.type = "SETTLEMENT" => lag_pending.market \notin lag_todo

TodoUnsettled == \A m \in lag_todo : Settlements(lag_file.lines, m) = {}

LagInv ==
  LagShape /\ BetsCounted(lag_file.lines) /\ CandidateClear /\ SignalPlaced /\ PendingFresh /\ TodoUnsettled

\* What is in a line of the file is in what the program loads.
LEMMA LoadsLines ==
  ASSUME LagShape, NEW m, NEW kind, Places(lag_file.lines, {kind}, m) # {}
  PROVE  m \in Having(load_events, kind)
<1>1. PICK i \in DOMAIN lag_file.lines : lag_file.lines[i].type = kind /\ lag_file.lines[i].market = m
  BY DEF Places
<1>2. lag_file.lines \in Seq(Lines) /\ lag_file.tail \in Lines \cup {NoTail}
  BY DEF LagShape, FilesOf
<1>3. i \in DOMAIN load_events /\ load_events[i] = lag_file.lines[i]
  <2>1. CASE lag_file.tail = NoTail
    BY <1>1, <1>2, <2>1 DEF load_events, AllLines
  <2>2. CASE lag_file.tail # NoTail
    BY <1>1, <1>2, <2>2 DEF load_events, AllLines
  <2>3. QED
    BY <2>1, <2>2
<1>4. lag_file.lines[i] \in ToSet(load_events)
  BY <1>3 DEF ToSet
<1>5. QED
  BY <1>1, <1>4 DEF Having

LEMMA LoadedEvents == LagShape /\ Loads => \A e \in ToSet(load_events) : e \in LagEvents
<1> SUFFICES ASSUME LagShape, Loads, NEW e \in ToSet(load_events) PROVE e \in LagEvents
  OBVIOUS
<1>1. lag_file.lines \in Seq(Lines) /\ lag_file.tail \in Lines \cup {NoTail}
  BY DEF LagShape, FilesOf
<1>2. load_events \in Seq(Lines)
  BY <1>1 DEF load_events, AllLines
<1>3. PICK i \in DOMAIN load_events : e = load_events[i]
  BY <1>2 DEF ToSet
<1>4. e \in Lines /\ e # Garbage
  BY <1>2, <1>3 DEF Loads
<1>5. QED
  BY <1>4 DEF Lines

LEMMA InitLag == LagInit => LagInv
<1> SUFFICES ASSUME LagInit PROVE LagInv
  OBVIOUS
<1>1. LagShape
  BY LagAssumption, MarketsAssumption
     DEF LagShape, LagInit, WorldInit, LagStages, EmptyFile, FilesOf, Lines
<1>2. \A kinds, m : Places(lag_file.lines, kinds, m) = {}
  BY DEF LagInit, EmptyFile, Places
<1>3. QED
  BY <1>1, <1>2 DEF LagInit, LagInv, BetsCounted, CandidateClear, SignalPlaced, PendingFresh, TodoUnsettled,
     Signals, Replies, Settlements, AtMostOne

\* A fresh record is written, or its write is interrupted: the counts stay.
LEMMA CountsStay ==
  ASSUME NEW old \in FilesOf(Lines), NEW record \in LagEvents, NEW f \in Interrupted(old, record),
         BetsCounted(old.lines), Fresh(old.lines, record)
  PROVE  BetsCounted(f.lines)
<1>1. record \in Lines /\ record # Garbage /\ Garbage \in Lines /\ old.lines \in Seq(Lines)
  BY LagAssumption DEF Lines, FilesOf
<1> DEFINE Old(kinds, m) == Places(old.lines, kinds, m)
           Added(kinds, m) == NewPlace(old.lines, record, kinds, m)
<1>2. ASSUME NEW kinds, NEW m
      PROVE  /\ Places(f.lines, kinds, m) = Old(kinds, m) \/ Places(f.lines, kinds, m) = Old(kinds, m) \cup Added(kinds, m)
             /\ Old(kinds, m) = {} => AtMostOne(Old(kinds, m) \cup Added(kinds, m))
             /\ Added(kinds, m) # {} => record.type \in kinds /\ record.market = m
  <2>1. Places(f.lines, kinds, m) = Old(kinds, m) \/ Places(f.lines, kinds, m) = Old(kinds, m) \cup Added(kinds, m)
    <3>1. /\ old \in FilesOf(Lines) /\ f \in Interrupted(old, record)
          /\ Garbage \in Lines /\ record \in Lines
      BY <1>1
    <3> HIDE DEF Old, Added
    <3>2. \/ Places(f.lines, kinds, m) = Places(old.lines, kinds, m)
          \/ Places(f.lines, kinds, m) = Places(old.lines, kinds, m) \cup NewPlace(old.lines, record, kinds, m)
      BY ONLY <3>1, PlacesWritten
    <3>3. QED
      BY <3>2 DEF Old, Added
  <2>2. Old(kinds, m) = {} => AtMostOne(Old(kinds, m) \cup Added(kinds, m))
    BY <1>1, OneNewPlace
  <2>3. Added(kinds, m) # {} => record.type \in kinds /\ record.market = m
    BY DEF NewPlace
  <2>4. QED
    BY <2>1, <2>2, <2>3
<1> HIDE DEF Added, Old
<1>3. ASSUME NEW m \in Markets PROVE AtMostOne(Signals(f.lines, m))
  <2>1. /\ Signals(f.lines, m) = Signals(old.lines, m) \/ Signals(f.lines, m) = Signals(old.lines, m) \cup Added({"SIGNAL"}, m)
        /\ Signals(old.lines, m) = {} => AtMostOne(Signals(old.lines, m) \cup Added({"SIGNAL"}, m))
        /\ Added({"SIGNAL"}, m) # {} => record.type \in {"SIGNAL"} /\ record.market = m
    BY <1>2 DEF Signals, Old
  <2>2. Added({"SIGNAL"}, m) # {} => Signals(old.lines, m) = {}
    BY <2>1 DEF Fresh
  <2>3. AtMostOne(Signals(old.lines, m))
    BY DEF BetsCounted
  <2>4. QED
    BY <2>1, <2>2, <2>3
<1>4. ASSUME NEW m \in Markets
      PROVE  AtMostOne(Replies(f.lines, m)) /\ (Signals(f.lines, m) = {} => Replies(f.lines, m) = {})
  <2> DEFINE New == Added({"PAPER_FILL", "NO_FILL"}, m)
  <2>1. /\ Replies(f.lines, m) = Replies(old.lines, m) \/ Replies(f.lines, m) = Replies(old.lines, m) \cup New
        /\ Replies(old.lines, m) = {} => AtMostOne(Replies(old.lines, m) \cup New)
        /\ New # {} => record.type \in {"PAPER_FILL", "NO_FILL"} /\ record.market = m
    BY <1>2 DEF Replies, Old
  <2>2. Signals(f.lines, m) = Signals(old.lines, m) \/ Signals(f.lines, m) = Signals(old.lines, m) \cup Added({"SIGNAL"}, m)
    BY <1>2 DEF Signals, Old
  <2> HIDE DEF New
  <2>3. New # {} => Replies(old.lines, m) = {} /\ Signals(old.lines, m) # {}
    BY <2>1 DEF Fresh
  <2>4. AtMostOne(Replies(old.lines, m)) /\ (Signals(old.lines, m) = {} => Replies(old.lines, m) = {})
    BY DEF BetsCounted
  <2>5. QED
    BY <2>1, <2>2, <2>3, <2>4
<1>5. ASSUME NEW m \in Markets PROVE AtMostOne(Settlements(f.lines, m))
  <2> DEFINE New == Added({"SETTLEMENT"}, m)
  <2>1. /\ Settlements(f.lines, m) = Settlements(old.lines, m) \/ Settlements(f.lines, m) = Settlements(old.lines, m) \cup New
        /\ Settlements(old.lines, m) = {} => AtMostOne(Settlements(old.lines, m) \cup New)
        /\ New # {} => record.type \in {"SETTLEMENT"} /\ record.market = m
    BY <1>2 DEF Settlements, Old
  <2> HIDE DEF New
  <2>2. New # {} => Settlements(old.lines, m) = {}
    BY <2>1 DEF Fresh
  <2>3. AtMostOne(Settlements(old.lines, m))
    BY DEF BetsCounted
  <2>4. QED
    BY <2>1, <2>2, <2>3
<1>6. QED
  BY <1>3, <1>4, <1>5 DEF BetsCounted

\* The file is kept, and what the cycle knows of it.
LEMMA WorldKeepsLag == ASSUME LagInv, World, UNCHANGED lag_state PROVE LagInv'
<1>1. UNCHANGED <<lag_file, lag_pc, lag_pending, lag_at, lag_todo>>
  BY DEF lag_state
<1>2. now' \in 0 .. MaxTime /\ result' \in [Markets -> {Null} \cup 0 .. 2]
  BY MarketsAssumption DEF World, Tick, Resolve, LagInv, LagShape
<1>3. QED
  BY <1>1, <1>2 DEF LagInv, LagShape, CandidateClear, SignalPlaced, PendingFresh, TodoUnsettled

LEMMA LagAppendedKeeps == ASSUME LagInv, LagAppended, UNCHANGED world PROVE LagInv'
<1> DEFINE record == lag_pending
<1>1. /\ record \in LagEvents /\ lag_file \in FilesOf(Lines) /\ record \in Lines /\ Garbage \in Lines
      /\ lag_file' = Written(lag_file, record) /\ lag_pending' = Null
      /\ UNCHANGED <<lag_pc, lag_at, lag_todo, now, result>>
  BY DEF LagInv, LagShape, LagAppended, world, Lines
<1>2. lag_file' \in Interrupted(lag_file, record) /\ lag_file'.tail = NoTail
  BY <1>1, WholeWrite
<1>3. Fresh(lag_file.lines, record)
  BY DEF LagInv, PendingFresh, LagAppended
<1>4. lag_file' \in FilesOf(Lines) /\ BetsCounted(lag_file'.lines)
  BY <1>1, <1>2, <1>3, WrittenFile, CountsStay DEF LagInv
<1>5. LagShape'
  BY <1>1, <1>4 DEF LagInv, LagShape
<1>6. CandidateClear'
  <2>1. SUFFICES ASSUME lag_pc' = "candidate"
                 PROVE  lag_at' \in Markets /\ Signals(lag_file'.lines, lag_at') = {} /\ lag_file'.tail = NoTail
    BY <1>1 DEF CandidateClear
  <2>2. lag_at \in Markets /\ Signals(lag_file.lines, lag_at) = {} /\ record.type = "OBSERVATION"
    BY <1>1, <2>1 DEF LagInv, CandidateClear, LagAppended
  <2>3. Signals(lag_file'.lines, lag_at) = Signals(lag_file.lines, lag_at)
    BY <1>1, <1>2, <2>2, LagAssumption, OtherPlaces DEF Signals
  <2>4. QED
    BY <1>1, <1>2, <2>2, <2>3
<1>7. SignalPlaced'
  <2>1. SUFFICES ASSUME lag_pc' = "signalled"
                 PROVE  /\ lag_at' \in Markets /\ lag_file'.tail = NoTail
                        /\ Replies(lag_file'.lines, lag_at') = {} /\ Signals(lag_file'.lines, lag_at') # {}
    BY <1>1 DEF SignalPlaced
  <2>2. /\ lag_at \in Markets /\ lag_file.tail = NoTail /\ Replies(lag_file.lines, lag_at) = {}
        /\ record.type = "SIGNAL" /\ record.market = lag_at
    BY <1>1, <2>1 DEF LagInv, SignalPlaced, LagAppended, LagEvent
  <2>3. Replies(lag_file'.lines, lag_at) = Replies(lag_file.lines, lag_at)
    BY <1>1, <1>2, <2>2, LagAssumption, OtherPlaces DEF Replies
  <2>4. NewPlace(lag_file.lines, record, {"SIGNAL"}, lag_at) # {}
    BY <1>1, <2>2, LagAssumption DEF NewPlace
  <2>5. Signals(lag_file'.lines, lag_at)
          = Signals(lag_file.lines, lag_at) \cup NewPlace(lag_file.lines, record, {"SIGNAL"}, lag_at)
    BY <1>1, <2>2, WholeWrite DEF Signals
  <2>6. QED
    BY <1>1, <1>2, <2>2, <2>3, <2>4, <2>5
<1>8. TodoUnsettled'
  <2>1. SUFFICES ASSUME NEW m \in lag_todo PROVE Settlements(lag_file'.lines, m) = {}
    BY <1>1 DEF TodoUnsettled
  <2>2. record.type \notin {"SETTLEMENT"} \/ record.market # m
    BY DEF LagInv, PendingFresh, LagAppended
  <2>3. Settlements(lag_file'.lines, m) = Settlements(lag_file.lines, m)
    BY <1>1, <1>2, <2>2, LagAssumption, OtherPlaces DEF Settlements
  <2>4. QED
    BY <2>3 DEF LagInv, TodoUnsettled
<1>9. QED
  BY <1>1, <1>4, <1>5, <1>6, <1>7, <1>8 DEF LagInv, PendingFresh

LEMMA LagCrashKeeps == ASSUME LagInv, LagCrash, UNCHANGED world PROVE LagInv'
<1>1. /\ lag_pending' = Null /\ lag_pc' = "down" /\ lag_at' = 0 /\ lag_todo' = {}
      /\ lag_file \in FilesOf(Lines) /\ UNCHANGED <<now, result>>
  BY DEF LagInv, LagShape, LagCrash, world
<1>2. lag_file' \in FilesOf(Lines) /\ BetsCounted(lag_file'.lines)
  <2>1. CASE lag_pending = Null
    BY <2>1 DEF LagInv, LagShape, LagCrash
  <2>2. CASE lag_pending # Null
    <3>1. /\ lag_pending \in LagEvents /\ lag_pending \in Lines /\ Garbage \in Lines
          /\ lag_file' \in Interrupted(lag_file, lag_pending) /\ Fresh(lag_file.lines, lag_pending)
      BY <2>2 DEF LagInv, LagShape, LagCrash, PendingFresh, Lines
    <3>2. QED
      BY <1>1, <3>1, WrittenFile, CountsStay DEF LagInv
  <2>3. QED
    BY <2>1, <2>2
<1>3. QED
  BY <1>1, <1>2 DEF LagInv, LagShape, LagStages, CandidateClear, SignalPlaced, PendingFresh, TodoUnsettled

\* The steps of the program that leave the file alone, with what they begin to write.
LEMMA LagProgramKeeps ==
  ASSUME LagInv, Start \/ Cycle, UNCHANGED world
  PROVE  LagInv'
<1>1. /\ LagShape /\ UNCHANGED <<now, result, lag_file>>
      /\ BetsCounted(lag_file.lines) /\ LagEvents \subseteq LagEvents
  BY DEF LagInv, world, Start, Cycle, Load, LoadRaises, Reload, observe_once, Signal, FillOrNot, CycleRaises, Report,
         Skip, settle_pending, append_event
<1>2. CASE Start
  BY <1>1, <1>2 DEF Start, LagInv, LagShape, LagStages, CandidateClear, SignalPlaced, PendingFresh, TodoUnsettled
<1>3. CASE Load
  <2>1. \A m \in lag_todo' : Settlements(lag_file.lines, m) = {}
    BY <1>1, <1>3, LoadsLines DEF Load, Settlements
  <2>2. lag_todo' \subseteq {0} \cup Markets
    <3>1. \A e \in ToSet(load_events) : e \in LagEvents
      BY <1>1, <1>3, LoadedEvents DEF Load
    <3>2. \A e \in LagEvents : e.market \in {0} \cup Markets
      BY DEF LagEvents
    <3>3. QED
      BY <1>3, <3>1, <3>2 DEF Load, Having
  <2>3. QED
    BY <1>1, <1>3, <2>1, <2>2
       DEF Load, LagReady, LagInv, LagShape, LagStages, CandidateClear, SignalPlaced, PendingFresh, TodoUnsettled
<1>4. CASE LoadRaises \/ Reload \/ Report
  BY <1>1, <1>4
     DEF LoadRaises, Reload, Report, LagReady, LagInv, LagShape, LagStages, CandidateClear, SignalPlaced,
         PendingFresh, TodoUnsettled
<1>5. CASE observe_once
  <2>1. PICK m \in Markets : m = Current(now)
    BY <1>5 DEF observe_once
  <2>2. /\ lag_pending' = LagEvent("OBSERVATION", m) /\ lag_pc' \in {"reporting", "candidate"}
        /\ lag_at' = m /\ UNCHANGED lag_todo
    BY <1>5, <2>1 DEF observe_once, append_event
  <2>3. lag_pending' \in LagEvents
    BY <2>2 DEF LagEvent, LagEvents, Notes
  <2>4. lag_pc' = "candidate" => Signals(lag_file.lines, m) = {}
    BY <1>1, <1>5, <2>1, LoadsLines DEF observe_once, Signalled, Signals
  <2>5. QED
    BY <1>1, <2>2, <2>3, <2>4, LagAssumption
       DEF LagEvent, LagInv, LagShape, LagStages, CandidateClear, SignalPlaced, PendingFresh, Fresh, TodoUnsettled
<1>6. CASE Signal
  <2>1. /\ lag_pending = Null /\ lag_pc = "candidate" /\ lag_pc' = "signalled"
        /\ lag_pending' = LagEvent("SIGNAL", lag_at) /\ UNCHANGED <<lag_at, lag_todo>>
    BY <1>6 DEF Signal, append_event, LagReady
  <2>2. lag_at \in Markets /\ Signals(lag_file.lines, lag_at) = {} /\ lag_file.tail = NoTail
    BY <2>1 DEF LagInv, CandidateClear
  <2>3. Replies(lag_file.lines, lag_at) = {}
    BY <2>2 DEF LagInv, BetsCounted
  <2>4. lag_pending' \in LagEvents
    BY <2>1, <2>2 DEF LagEvent, LagEvents
  <2>5. QED
    BY <1>1, <2>1, <2>2, <2>3, <2>4, LagAssumption
       DEF LagEvent, LagInv, LagShape, LagStages, CandidateClear, SignalPlaced, PendingFresh, Fresh, TodoUnsettled
<1>7. CASE FillOrNot
  BY <1>1, <1>7, LagAssumption
     DEF FillOrNot, append_event, LagEvent, LagEvents, Notes, LagReady, LagInv, LagShape, LagStages, CandidateClear,
         SignalPlaced, PendingFresh, Fresh, TodoUnsettled
<1>8. CASE CycleRaises
  BY <1>1, <1>8
     DEF CycleRaises, append_event, LagEvent, LagEvents, Notes, LagReady, LagInv, LagShape, LagStages, CandidateClear,
         SignalPlaced, PendingFresh, Fresh, TodoUnsettled
<1>9. ASSUME NEW m \in Markets, Skip(m) PROVE LagInv'
  BY <1>1, <1>9
     DEF Skip, NextToSettle, LagLeave, LagReady, LagInv, LagShape, LagStages, CandidateClear,
         SignalPlaced, PendingFresh, TodoUnsettled
<1>10. ASSUME NEW m \in Markets, settle_pending(m) PROVE LagInv'
  <2>1. /\ lag_pc = "settling" /\ m \in lag_todo /\ result[m] \in 0 .. 2
        /\ lag_pending' = [LagEvent("SETTLEMENT", m) EXCEPT !.payout = result[m]]
        /\ lag_todo' = lag_todo \ {m} /\ UNCHANGED <<lag_pc, lag_at>>
    BY <1>1, <1>10 DEF settle_pending, append_event, NextToSettle, LagReady, LagLeave, LagShape
  <2>2. Settlements(lag_file.lines, m) = {}
    BY <2>1 DEF LagInv, TodoUnsettled
  <2>3. lag_pending' \in LagEvents /\ lag_pending'.type = "SETTLEMENT" /\ lag_pending'.market = m
    BY <2>1 DEF LagEvent, LagEvents
  <2>4. QED
    BY <1>1, <2>1, <2>2, <2>3, LagAssumption
       DEF LagInv, LagShape, LagStages, CandidateClear, SignalPlaced, PendingFresh, Fresh, TodoUnsettled
<1>11. QED
  BY <1>2, <1>3, <1>4, <1>5, <1>6, <1>7, <1>8, <1>9, <1>10 DEF Cycle

LEMMA NextLag == LagInv /\ ((LagStep /\ UNCHANGED world) \/ (World /\ UNCHANGED lag_state)) => LagInv'
BY LagAppendedKeeps, LagCrashKeeps, LagProgramKeeps, WorldKeepsLag DEF LagStep

LEMMA LagHolds == LagInv => LagTypeOK /\ OneBetPerMarket
<1> SUFFICES ASSUME LagInv PROVE LagTypeOK /\ OneBetPerMarket
  OBVIOUS
<1>1. lag_file.lines \in Seq(Lines) /\ lag_file.tail \in Lines \cup {NoTail}
  BY DEF LagInv, LagShape, FilesOf
<1>2. LagTypeOK
  BY <1>1 DEF LagInv, LagShape, LagStages, LagTypeOK, Lines
<1>3. ASSUME NEW m \in Markets
      PROVE  /\ HowMany({"SIGNAL"}, m) <= 1 /\ HowMany({"SETTLEMENT"}, m) <= 1
             /\ HowMany({"PAPER_FILL", "NO_FILL"}, m) <= HowMany({"SIGNAL"}, m)
  <2>1. /\ AtMostOne(Signals(lag_file.lines, m)) /\ AtMostOne(Replies(lag_file.lines, m))
        /\ AtMostOne(Settlements(lag_file.lines, m))
        /\ Signals(lag_file.lines, m) = {} => Replies(lag_file.lines, m) = {}
    BY DEF LagInv, BetsCounted
  <2>2. /\ HowMany({"SIGNAL"}, m) \in Nat /\ HowMany({"SIGNAL"}, m) <= 1
        /\ Signals(lag_file.lines, m) # {} => HowMany({"SIGNAL"}, m) > 0
    BY <1>1, <2>1, PlacesFinite DEF HowMany, Signals
  <2>3. /\ HowMany({"PAPER_FILL", "NO_FILL"}, m) \in Nat /\ HowMany({"PAPER_FILL", "NO_FILL"}, m) <= 1
        /\ Replies(lag_file.lines, m) = {} => HowMany({"PAPER_FILL", "NO_FILL"}, m) = 0
    BY <1>1, <2>1, PlacesFinite DEF HowMany, Replies
  <2>4. HowMany({"SETTLEMENT"}, m) <= 1
    BY <1>1, <2>1, PlacesFinite DEF HowMany, Settlements
  <2>5. QED
    BY <2>1, <2>2, <2>3, <2>4
<1>4. QED
  BY <1>2, <1>3 DEF OneBetPerMarket

\* The lag runner alone, which reads its file again in every cycle, over crashes and torn lines:
\* one signal of a market, at most one answer to it and one settlement (run_btc_paper.py).
THEOREM BetsStayOne == LagSpec => [](LagTypeOK /\ OneBetPerMarket)
<1>1. LagInv /\ [LagNext]_lag_vars => LagInv'
  <2> SUFFICES ASSUME LagInv, [LagNext]_lag_vars PROVE LagInv'
    OBVIOUS
  <2>1. CASE LagNext
    BY <2>1, NextLag DEF LagNext
  <2>2. CASE UNCHANGED lag_vars
    BY <2>2 DEF lag_vars, world, lag_state, LagInv, LagShape, CandidateClear, SignalPlaced, PendingFresh, TodoUnsettled
  <2>3. QED
    BY <2>1, <2>2
<1>2. QED
  BY <1>1, InitLag, LagHolds, PTL DEF LagSpec

----------------------------------------------------------------------------
(* The JEV runner: a market is decided and filled once, and the fills the   *)
(* program counts are covered by its cash.                                  *)

JevStages == {"down", "idle", "missed", "claimed", "deciding", "passing", "entering", "raised", "settling"}
JevLines == JevEvents \cup {Garbage}

JevShape ==
  /\ now \in 0 .. MaxTime /\ result \in [Markets -> {Null} \cup 0 .. 2]
  /\ pc \in JevStages /\ at \in {0} \cup Markets /\ order \in 0 .. MaxStake /\ todo \subseteq Markets
  /\ mem \in Seq(JevEvents) /\ pending \in JevEvents \cup {Null}
  /\ file \in FilesOf(JevLines)
  /\ errors \in 0 .. MaxWriteErrors

Final == {"JEV_DECISION", "PAPER_FILL"}
Finals(lines, kind, m) == Places(lines, {kind}, m)

DecisionsCounted(lines) == \A m \in Markets, kind \in Final : AtMostOne(Finals(lines, kind, m))

\* A running program remembers the attempt behind every decision of the file, whoever wrote it;
\* a program that reads the file finds it there.
Remembered == pc # "down" => \A m \in Markets, kind \in Final : Finals(file.lines, kind, m) # {} => Attempted(mem, m)
Recorded(lines) ==
  Parses(lines) => \A m \in Markets, kind \in Final : Finals(lines, kind, m) # {} => Attempted(lines, m)
MemoryWritten == pc # "down" /\ Parses(file.lines) => ToSet(mem) \subseteq ToSet(file.lines)

\* What is being written was decided by the one attempt of its market.
WritingFirst ==
  pending # Null =>
    /\ pc # "down"
    /\ pending.type = "OPPORTUNITY" => pc \in {"claimed", "missed"} /\ pending.market = at
    /\ pending.type = "JEV_DECISION" => pc \in {"passing", "entering"} /\ pending.market = at
    /\ pending.type \in Final \cup {"NO_FILL"} => at \in Markets
    /\ pending.type \in Final => Attempted(mem, pending.market) /\ Finals(file.lines, pending.type, pending.market) = {}

\* The attempt a program is in has no decision yet, or none but the one it has just made.
AttemptOpen ==
  /\ pc \in {"claimed", "missed", "deciding", "passing", "entering", "raised"} => at \in Markets
  /\ pc \in {"claimed", "deciding"} =>
       /\ \A kind \in Final : Finals(file.lines, kind, at) = {}
       /\ IF pending = Null THEN Attempted(mem, at) ELSE pc = "claimed" /\ pending.type = "OPPORTUNITY"
  /\ pc = "entering" =>
       /\ Attempted(mem, at) /\ Finals(file.lines, "PAPER_FILL", at) = {}
       /\ pending # Null => pending.type = "JEV_DECISION"

JevInv ==
  /\ JevShape /\ DecisionsCounted(file.lines) /\ Remembered /\ Recorded(file.lines) /\ MemoryWritten
  /\ WritingFirst /\ AttemptOpen

\* As long as no write has failed, the memory is the file of a program that runs, and
\* what it is about to pay is in its cash.
CashInv ==
  errors = 0 =>
    /\ balances(mem) >= 0
    /\ Parses(file.lines) => balances(file.lines) >= 0 /\ (pc # "down" => file.lines = mem)
    /\ pending # Null => pending.cost <= balances(mem)
    /\ pc = "entering" => order <= balances(mem) /\ (pending # Null => pending.cost = 0 /\ pending.payout = 0)

LEMMA AppendedSet ==
  ASSUME NEW S, NEW events \in Seq(S), NEW e \in S
  PROVE  ToSet(Append(events, e)) = ToSet(events) \cup {e}
<1>1. /\ Append(events, e) \in Seq(S) /\ DOMAIN Append(events, e) = 1 .. Len(events) + 1
      /\ DOMAIN events = 1 .. Len(events) /\ Len(events) \in Nat
      /\ \A i \in 1 .. Len(events) : Append(events, e)[i] = events[i]
      /\ Append(events, e)[Len(events) + 1] = e
  OBVIOUS
<1>2. QED
  BY <1>1 DEF ToSet

LEMMA AttemptedGrows ==
  ASSUME NEW events, NEW more, ToSet(events) \subseteq ToSet(more), NEW m, Attempted(events, m)
  PROVE  Attempted(more, m)
BY DEF Attempted, Kinds

\* What the file holds after a write, whole or interrupted.
LEMMA LinesAfter ==
  ASSUME NEW old \in FilesOf(JevLines), NEW record \in JevEvents, NEW f \in Interrupted(old, record)
  PROVE  /\ f \in FilesOf(JevLines) /\ ToSet(old.lines) \subseteq ToSet(f.lines)
         /\ Parses(f.lines) => Parses(old.lines) /\ f.lines \in {old.lines, Append(old.lines, record)}
<1>1. Garbage \in JevLines /\ record \in JevLines /\ old.lines \in Seq(JevLines)
  BY DEF JevLines, FilesOf
<1>2. f \in FilesOf(JevLines) /\ (f.lines = old.lines \/ \E line \in {record, Garbage} : f.lines = Append(old.lines, line))
  BY <1>1, WrittenFile
<1>3. ASSUME NEW line \in {record, Garbage}, f.lines = Append(old.lines, line)
      PROVE  /\ ToSet(old.lines) \subseteq ToSet(f.lines)
             /\ Parses(f.lines) => Parses(old.lines) /\ f.lines \in {old.lines, Append(old.lines, record)}
  <2>1. ToSet(f.lines) = ToSet(old.lines) \cup {line}
    BY <1>1, <1>3, AppendedSet
  <2>2. /\ DOMAIN f.lines = 1 .. Len(old.lines) + 1 /\ DOMAIN old.lines = 1 .. Len(old.lines)
        /\ Len(old.lines) \in Nat
        /\ \A i \in 1 .. Len(old.lines) : f.lines[i] = old.lines[i]
        /\ f.lines[Len(old.lines) + 1] = line
    BY <1>1, <1>3
  <2>3. Parses(f.lines) => Parses(old.lines) /\ line # Garbage
    BY <2>2 DEF Parses
  <2>4. QED
    BY <1>3, <2>1, <2>3
<1>4. QED
  BY <1>2, <1>3

LEMMA FinalsAfter ==
  ASSUME NEW old \in FilesOf(JevLines), NEW record \in JevEvents, NEW f \in Interrupted(old, record),
         NEW kind, NEW m
  PROVE  /\ Finals(f.lines, kind, m) # {} => Finals(old.lines, kind, m) # {} \/ (record.type = kind /\ record.market = m)
         /\ record.type # kind \/ record.market # m => Finals(f.lines, kind, m) = Finals(old.lines, kind, m)
         /\ AtMostOne(Finals(old.lines, kind, m)) /\ (record.type = kind /\ record.market = m => Finals(old.lines, kind, m) = {})
              => AtMostOne(Finals(f.lines, kind, m))
<1>1. Garbage \in JevLines /\ record \in JevLines /\ record # Garbage /\ old.lines \in Seq(JevLines)
  BY JevAssumption DEF JevLines, FilesOf
<1> DEFINE kinds == {kind}
           Added == NewPlace(old.lines, record, kinds, m)
<1>2. kinds = {kind}
  OBVIOUS
<1> HIDE DEF kinds
<1>3. \/ Places(f.lines, kinds, m) = Places(old.lines, kinds, m)
      \/ Places(f.lines, kinds, m) = Places(old.lines, kinds, m) \cup Added
  <2>1. /\ old \in FilesOf(JevLines) /\ f \in Interrupted(old, record)
        /\ Garbage \in JevLines /\ record \in JevLines
    BY <1>1
  <2>2. QED
    BY ONLY <2>1, PlacesWritten
<1>4. Added # {} => record.type = kind /\ record.market = m
  BY <1>2 DEF NewPlace
<1>5. Places(old.lines, kinds, m) = {} => AtMostOne(Places(old.lines, kinds, m) \cup Added)
  BY <1>1, OneNewPlace
<1>6. /\ Finals(f.lines, kind, m) = Places(f.lines, kinds, m)
      /\ Finals(old.lines, kind, m) = Places(old.lines, kinds, m)
  BY <1>2 DEF Finals
<1> HIDE DEF Added
<1>7. QED
  BY <1>3, <1>4, <1>5, <1>6

\* A write keeps what is known of the decisions, whoever's it is and however it ends.
LEMMA JevWriting ==
  ASSUME JevInv, pending # Null, NEW f \in Interrupted(file, pending)
  PROVE  /\ f \in FilesOf(JevLines) /\ DecisionsCounted(f.lines) /\ Recorded(f.lines)
         /\ \A m \in Markets, kind \in Final : Finals(f.lines, kind, m) # {} => Attempted(mem, m)
         /\ Parses(f.lines) => ToSet(mem) \subseteq ToSet(f.lines)
<1>1. /\ pending \in JevEvents /\ file \in FilesOf(JevLines) /\ pc # "down"
      /\ pending.type \in Final => Attempted(mem, pending.market) /\ Finals(file.lines, pending.type, pending.market) = {}
  BY DEF JevInv, JevShape, WritingFirst
<1>2. /\ f \in FilesOf(JevLines) /\ ToSet(file.lines) \subseteq ToSet(f.lines)
      /\ Parses(f.lines) => Parses(file.lines)
  BY <1>1, LinesAfter
<1>3. ASSUME NEW m \in Markets, NEW kind \in Final
      PROVE  /\ AtMostOne(Finals(f.lines, kind, m))
             /\ Finals(f.lines, kind, m) # {} => Attempted(mem, m)
  <2>1. AtMostOne(Finals(file.lines, kind, m)) /\ (Finals(file.lines, kind, m) # {} => Attempted(mem, m))
    BY <1>1 DEF JevInv, DecisionsCounted, Remembered
  <2>2. /\ Finals(f.lines, kind, m) # {} => Finals(file.lines, kind, m) # {} \/ (pending.type = kind /\ pending.market = m)
        /\ AtMostOne(Finals(file.lines, kind, m)) /\ (pending.type = kind /\ pending.market = m => Finals(file.lines, kind, m) = {})
              => AtMostOne(Finals(f.lines, kind, m))
    BY <1>1, FinalsAfter
  <2>3. QED
    BY <1>1, <2>1, <2>2
<1>4. Parses(f.lines) => ToSet(mem) \subseteq ToSet(f.lines)
  BY <1>1, <1>2 DEF JevInv, MemoryWritten
<1>5. Recorded(f.lines)
  BY <1>3, <1>4, AttemptedGrows DEF Recorded
<1>6. QED
  BY <1>2, <1>3, <1>4, <1>5 DEF DecisionsCounted

Costs(events) == [i \in DOMAIN events |-> events[i].cost]
Payouts(events) == [i \in DOMAIN events |-> events[i].payout]

LEMMA EmptyBalance == balances(<<>>) = Capital
<1>1. DOMAIN (<<>>) = {}
  OBVIOUS
<1>2. Total([i \in {} |-> 0]) = 0
  BY FS_EmptySet, TotalZero
<1>3. [i \in DOMAIN (<<>>) |-> (<<>>)[i].payout] = [i \in {} |-> 0] /\ [i \in DOMAIN (<<>>) |-> (<<>>)[i].cost] = [i \in {} |-> 0]
  BY <1>1
<1>4. QED
  BY <1>2, <1>3, JevAssumption DEF balances

LEMMA AppendedBalance ==
  ASSUME NEW events \in Seq(JevEvents), NEW e \in JevEvents
  PROVE  balances(events) \in Int /\ balances(Append(events, e)) = balances(events) + e.payout - e.cost
<1> DEFINE more == Append(events, e)
           n == Len(events) + 1
<1>1. /\ DOMAIN more = 1 .. n /\ DOMAIN events = 1 .. Len(events) /\ Len(events) \in Nat
      /\ \A i \in 1 .. Len(events) : more[i] = events[i] /\ events[i] \in JevEvents
      /\ more[n] = e
  OBVIOUS
<1>2. \A x \in JevEvents : x.cost \in Nat /\ x.payout \in Nat
  BY DEF JevEvents
<1>3. DOMAIN more = DOMAIN events \cup {n} /\ n \notin DOMAIN events
  BY <1>1
<1>4. IsFiniteSet(DOMAIN events)
  BY <1>1, FS_Interval
<1> DEFINE S == DOMAIN events
<1> HIDE DEF more, n
<1>5. /\ Costs(events) \in [S -> Nat] /\ Payouts(events) \in [S -> Nat]
      /\ Costs(more) \in [S \cup {n} -> Nat] /\ Payouts(more) \in [S \cup {n} -> Nat]
      /\ \A i \in S : Costs(more)[i] = Costs(events)[i] /\ Payouts(more)[i] = Payouts(events)[i]
      /\ Costs(more)[n] = e.cost /\ Payouts(more)[n] = e.payout
  BY <1>1, <1>2, <1>3 DEF Costs, Payouts
<1>6. IsFiniteSet(S) /\ n \notin S
  BY <1>3, <1>4
<1> HIDE DEF S
<1>7. Total(Costs(more)) = Total(Costs(events)) + Costs(more)[n] /\ Total(Costs(events)) \in Nat
  <2> DEFINE f == Costs(more)
             g == Costs(events)
  <2>1. f \in [S \cup {n} -> Nat] /\ g \in [S -> Nat] /\ \A i \in S : f[i] = g[i]
    BY <1>5
  <2> HIDE DEF f, g
  <2>2. Total(f) = Total(g) + f[n] /\ Total(g) \in Nat
    BY <1>6, <2>1, TotalInsert
  <2>3. QED
    BY <2>2 DEF f, g
<1>8. Total(Payouts(more)) = Total(Payouts(events)) + Payouts(more)[n] /\ Total(Payouts(events)) \in Nat
  <2> DEFINE f == Payouts(more)
             g == Payouts(events)
  <2>1. f \in [S \cup {n} -> Nat] /\ g \in [S -> Nat] /\ \A i \in S : f[i] = g[i]
    BY <1>5
  <2> HIDE DEF f, g
  <2>2. Total(f) = Total(g) + f[n] /\ Total(g) \in Nat
    BY <1>6, <2>1, TotalInsert
  <2>3. QED
    BY <2>2 DEF f, g
<1>9. /\ balances(events) = Capital + Total(Payouts(events)) - Total(Costs(events))
      /\ balances(more) = Capital + Total(Payouts(more)) - Total(Costs(more))
  BY DEF balances, Costs, Payouts
<1>10. Capital \in Nat /\ e.cost \in Nat /\ e.payout \in Nat
  BY <1>2, JevAssumption
<1>11. balances(more) = balances(events) + e.payout - e.cost /\ balances(events) \in Int
  BY <1>5, <1>7, <1>8, <1>9, <1>10
<1>12. QED
  BY <1>11 DEF more

LEMMA InitJev == JevInit => JevInv /\ CashInv
<1> SUFFICES ASSUME JevInit PROVE JevInv /\ CashInv
  OBVIOUS
<1>1. JevShape
  BY JevAssumption, MarketsAssumption DEF JevShape, JevInit, WorldInit, JevStages, EmptyFile, FilesOf, JevLines
<1>2. file.lines = <<>> /\ mem = <<>> /\ pending = Null /\ pc = "down"
  BY DEF JevInit, EmptyFile
<1>3. \A kind, m : Finals(<<>>, kind, m) = {}
  BY DEF Finals, Places
<1>4. balances(<<>>) = Capital
  BY EmptyBalance
<1>5. QED
  BY <1>1, <1>2, <1>3, <1>4, JevAssumption
     DEF JevInv, CashInv, DecisionsCounted, Remembered, Recorded, MemoryWritten, WritingFirst, AttemptOpen, AtMostOne

LEMMA WorldKeepsJev == ASSUME JevInv, World, UNCHANGED jev_state PROVE JevInv'
<1>1. UNCHANGED <<file, pc, mem, pending, at, order, todo, errors>>
  BY DEF jev_state
<1>2. now' \in 0 .. MaxTime /\ result' \in [Markets -> {Null} \cup 0 .. 2]
  BY MarketsAssumption DEF World, Tick, Resolve, JevInv, JevShape
<1>3. QED
  BY <1>1, <1>2 DEF JevInv, JevShape, Remembered, MemoryWritten, WritingFirst, AttemptOpen

LEMMA JevAppendedKeeps == ASSUME JevInv, Appended, UNCHANGED world PROVE JevInv'
<1>1. /\ pending \in JevEvents /\ pending # Null /\ pending' = Null /\ pc # "down"
      /\ file' = Written(file, pending) /\ mem' = Append(mem, pending)
      /\ mem \in Seq(JevEvents) /\ file \in FilesOf(JevLines)
      /\ UNCHANGED <<pc, at, order, todo, errors, now, result>>
  BY DEF JevInv, JevShape, Appended, attempt, world, WritingFirst
<1>2. file' \in Interrupted(file, pending)
  BY <1>1 DEF Interrupted
<1>3. /\ file' \in FilesOf(JevLines) /\ DecisionsCounted(file'.lines) /\ Recorded(file'.lines)
      /\ \A m \in Markets, kind \in Final : Finals(file'.lines, kind, m) # {} => Attempted(mem, m)
      /\ Parses(file'.lines) => ToSet(mem) \subseteq ToSet(file'.lines)
  BY <1>1, <1>2, JevWriting
<1>4. mem' \in Seq(JevEvents) /\ ToSet(mem') = ToSet(mem) \cup {pending}
  BY <1>1, AppendedSet
<1>5. Remembered'
  BY <1>3, <1>4, AttemptedGrows DEF Remembered
<1>6. MemoryWritten'
  <2>1. Parses(file'.lines) => pending \in ToSet(file'.lines)
    <3>1. CASE file.tail = NoTail
      <4>1. file'.lines = Append(file.lines, pending) /\ file.lines \in Seq(JevLines) /\ pending \in JevLines
        BY <1>1, <3>1 DEF Written, FilesOf, JevLines
      <4>2. QED
        BY <4>1, AppendedSet
    <3>2. CASE file.tail # NoTail
      <4>1. file'.lines = Append(file.lines, Garbage) /\ file.lines \in Seq(JevLines)
        BY <1>1, <3>2 DEF Written, FilesOf
      <4>2. Len(file.lines) + 1 \in DOMAIN file'.lines /\ file'.lines[Len(file.lines) + 1] = Garbage
        BY <4>1
      <4>3. QED
        BY <4>2 DEF Parses
    <3>3. QED
      BY <3>1, <3>2
  <2>2. QED
    BY <1>3, <1>4, <2>1 DEF MemoryWritten
<1>7. WritingFirst'
  BY <1>1 DEF WritingFirst
<1>8. AttemptOpen'
  <2>1. pc \in {"claimed", "missed", "deciding", "passing", "entering", "raised"} => at \in Markets
    BY DEF JevInv, AttemptOpen
  <2>2. ASSUME pc \in {"claimed", "deciding"}
        PROVE  Attempted(mem', at) /\ \A kind \in Final : Finals(file'.lines, kind, at) = {}
    <3>1. pending.type = "OPPORTUNITY" /\ pending.market = at /\ \A kind \in Final : Finals(file.lines, kind, at) = {}
      BY <1>1, <2>2 DEF JevInv, AttemptOpen, WritingFirst
    <3>2. Attempted(mem', at)
      BY <1>4, <3>1 DEF Attempted, Kinds
    <3>3. \A kind \in Final : Finals(file'.lines, kind, at) = {}
      BY <1>1, <1>2, <3>1, FinalsAfter DEF Final
    <3>4. QED
      BY <3>2, <3>3
  <2>3. ASSUME pc = "entering"
        PROVE  Attempted(mem', at) /\ Finals(file'.lines, "PAPER_FILL", at) = {}
    <3>1. pending.type = "JEV_DECISION" /\ Attempted(mem, at) /\ Finals(file.lines, "PAPER_FILL", at) = {}
      BY <1>1, <2>3 DEF JevInv, AttemptOpen
    <3>2. Finals(file'.lines, "PAPER_FILL", at) = Finals(file.lines, "PAPER_FILL", at)
      <4>1. pending.type # "PAPER_FILL" /\ file \in FilesOf(JevLines) /\ pending \in JevEvents
        BY <1>1, <3>1
      <4>2. QED
        BY <1>2, <4>1, FinalsAfter
    <3>3. Attempted(mem', at)
      BY <1>4, <3>1, AttemptedGrows
    <3>4. QED
      BY <3>1, <3>2, <3>3
  <2>4. QED
    BY <1>1, <2>1, <2>2, <2>3 DEF AttemptOpen
<1>9. QED
  BY <1>1, <1>3, <1>4, <1>5, <1>6, <1>7, <1>8 DEF JevInv, JevShape

LEMMA JevRaisesKeeps == ASSUME JevInv, AppendRaises, UNCHANGED world PROVE JevInv'
<1>1. /\ pending \in JevEvents /\ pending # Null /\ pending' = Null /\ pc # "down"
      /\ file' \in Interrupted(file, pending) /\ pc' \in {"settling", "raised", "idle"} /\ pc' # "down"
      /\ pc' = "raised" => pending.type \in {"JEV_DECISION", "PAPER_FILL", "NO_FILL"}
      /\ errors' \in 0 .. MaxWriteErrors /\ todo' \subseteq Markets /\ pc' \in JevStages
      /\ UNCHANGED <<mem, at, order, now, result>>
  BY JevAssumption DEF JevInv, JevShape, AppendRaises, attempt, world, WritingFirst, JevStages
<1>2. /\ file' \in FilesOf(JevLines) /\ DecisionsCounted(file'.lines) /\ Recorded(file'.lines)
      /\ \A m \in Markets, kind \in Final : Finals(file'.lines, kind, m) # {} => Attempted(mem, m)
      /\ Parses(file'.lines) => ToSet(mem) \subseteq ToSet(file'.lines)
  BY <1>1, JevWriting
<1>3. Remembered' /\ MemoryWritten' /\ WritingFirst'
  BY <1>1, <1>2 DEF Remembered, MemoryWritten, WritingFirst
<1>4. AttemptOpen'
  BY <1>1 DEF JevInv, WritingFirst, AttemptOpen, Final
<1>5. QED
  BY <1>1, <1>2, <1>3, <1>4 DEF JevInv, JevShape

LEMMA JevEndKeeps == ASSUME JevInv, Crash \/ Stop, UNCHANGED world PROVE JevInv'
<1>1. /\ pc' = "down" /\ mem' = <<>> /\ pending' = Null /\ at' = 0 /\ order' = 0 /\ todo' \subseteq Markets
      /\ UNCHANGED <<errors, now, result>>
  BY DEF JevInv, JevShape, Crash, Stop, Ready, world
<1>2. file' \in FilesOf(JevLines) /\ DecisionsCounted(file'.lines) /\ Recorded(file'.lines)
  <2>1. CASE UNCHANGED file
    BY <2>1 DEF JevInv, JevShape
  <2>2. CASE pending # Null /\ file' \in Interrupted(file, pending)
    BY <2>2, JevWriting
  <2>3. QED
    BY <2>1, <2>2 DEF Crash, Stop
<1>3. QED
  BY <1>1, <1>2, JevAssumption
     DEF JevInv, JevShape, JevStages, Remembered, MemoryWritten, WritingFirst, AttemptOpen

LEMMA JevEnterKeeps == ASSUME JevInv, Enter, UNCHANGED world PROVE JevInv'
<1>1. /\ pc = "down" /\ pc' = "idle" /\ mem' = file.lines /\ Parses(file.lines)
      /\ UNCHANGED <<file, pending, at, order, todo, errors, now, result>>
  BY DEF Enter, attempt, world
<1>2. file.lines \in Seq(JevEvents)
  <2>1. file.lines \in Seq(JevLines) /\ \A i \in 1 .. Len(file.lines) : file.lines[i] # Garbage
    BY <1>1 DEF JevInv, JevShape, FilesOf, Parses
  <2>2. \A i \in 1 .. Len(file.lines) : file.lines[i] \in JevEvents
    BY <2>1 DEF JevLines
  <2>3. QED
    BY <2>1, <2>2
<1>3. pending = Null
  BY <1>1 DEF JevInv, WritingFirst
<1>4. QED
  BY <1>1, <1>2, <1>3
     DEF JevInv, JevShape, JevStages, Remembered, Recorded, MemoryWritten, WritingFirst, AttemptOpen

\* A step of a running program that only begins to write leaves the rest as it is.
LEMMA JevBegins ==
  ASSUME JevInv, UNCHANGED <<now, result, file, mem, errors>>, pc # "down", pc' \in JevStages, pc' # "down",
         at' \in {0} \cup Markets, order' \in 0 .. MaxStake, todo' \subseteq Markets,
         pending' \in JevEvents \cup {Null}, WritingFirst', AttemptOpen'
  PROVE  JevInv'
BY DEF JevInv, JevShape, Remembered, MemoryWritten

LEMMA EventTyped ==
  ASSUME NEW kind \in JevKind, NEW m \in Markets
  PROVE  /\ Event(kind, m) \in JevEvents /\ Event(kind, m) # Null
         /\ Event(kind, m).type = kind /\ Event(kind, m).market = m /\ Event(kind, m).cost = 0 /\ Event(kind, m).payout = 0
BY JevAssumption DEF Event, JevEvents

LEMMA JevAttemptKeeps == ASSUME JevInv, Attempting, UNCHANGED world PROVE JevInv'
<1>1. /\ UNCHANGED <<now, result, file, mem, errors>> /\ pending = Null
      /\ pc \in {"idle", "claimed", "missed", "deciding", "passing", "entering", "raised"}
  BY DEF Attempting, Claim, Missed, Inputs, Decided, Pass, PaperFill, Raises, Ready, Writes, world
<1>2. JevShape /\ AttemptOpen /\ Remembered
  BY DEF JevInv
<1>3. at \in {0} \cup Markets /\ order \in 0 .. MaxStake /\ todo \subseteq Markets
  BY <1>2 DEF JevShape
<1>4. CASE Claim
  <2>1. PICK m \in Markets : m = Current(now)
    BY <1>4 DEF Claim
  <2>2. /\ pending' = Event("OPPORTUNITY", m) /\ pc' \in {"claimed", "missed"} /\ at' = m
        /\ UNCHANGED <<order, todo>> /\ ~Attempted(mem, m)
    BY <1>4, <2>1 DEF Claim, Writes
  <2>3. \A kind \in Final : Finals(file.lines, kind, m) = {}
    BY <1>1, <1>2, <2>2 DEF Remembered
  <2>4. pending' \in JevEvents /\ pending' # Null /\ pending'.type = "OPPORTUNITY" /\ pending'.market = m
    BY <2>2, EventTyped DEF JevKind
  <2>5. WritingFirst' /\ AttemptOpen'
    BY <1>1, <2>2, <2>3, <2>4 DEF WritingFirst, AttemptOpen, Final
  <2>6. QED
    BY <1>1, <1>3, <2>2, <2>4, <2>5, JevBegins DEF JevStages
<1>5. CASE Missed \/ Pass \/ Raises
  <2>1. PICK kind \in {"REJECTION", "NO_FILL", "ERROR"} : pending' = Event(kind, at)
    BY <1>5 DEF Missed, Pass, Raises, Writes
  <2>2. at \in Markets /\ pc' = "idle" /\ UNCHANGED <<at, order, todo>>
    BY <1>2, <1>5 DEF Missed, Pass, Raises, Ready, attempt, AttemptOpen
  <2>3. pending' \in JevEvents /\ pending'.type = kind
    BY <2>1, <2>2, EventTyped DEF JevKind
  <2>4. WritingFirst' /\ AttemptOpen'
    BY <2>1, <2>2, <2>3 DEF WritingFirst, AttemptOpen, Final
  <2>5. QED
    BY <1>1, <1>3, <2>2, <2>3, <2>4, JevBegins DEF JevStages
<1>6. CASE Inputs
  <2>1. pc = "claimed" /\ pc' = "deciding" /\ UNCHANGED <<pending, at, order, todo>>
    BY <1>6 DEF Inputs, Ready, attempt
  <2>2. WritingFirst' /\ AttemptOpen'
    BY <1>1, <1>2, <2>1 DEF WritingFirst, AttemptOpen
  <2>3. QED
    BY <1>1, <1>3, <2>1, <2>2, JevBegins DEF JevStages
<1>7. CASE Decided
  <2>1. /\ pc = "deciding" /\ pc' \in {"passing", "entering"} /\ order' \in 0 .. MaxStake
        /\ pending' = Event("JEV_DECISION", at) /\ UNCHANGED <<at, todo>>
    BY <1>7 DEF Decided, Ready, Writes
  <2>2. at \in Markets /\ Attempted(mem, at) /\ \A kind \in Final : Finals(file.lines, kind, at) = {}
    BY <1>1, <1>2, <2>1 DEF AttemptOpen
  <2>3. pending' \in JevEvents /\ pending'.type = "JEV_DECISION" /\ pending'.market = at
    BY <2>1, <2>2, EventTyped DEF JevKind
  <2>4. WritingFirst' /\ AttemptOpen'
    BY <1>1, <2>1, <2>2, <2>3 DEF WritingFirst, AttemptOpen, Final
  <2>5. QED
    BY <1>1, <1>3, <2>1, <2>3, <2>4, JevBegins DEF JevStages
<1>8. CASE PaperFill
  <2>1. /\ pc = "entering" /\ pc' = "idle" /\ UNCHANGED <<at, order, todo>>
        /\ pending' = [Event("PAPER_FILL", at) EXCEPT !.cost = order]
    BY <1>8 DEF PaperFill, Ready, Writes, attempt
  <2>2. at \in Markets /\ Attempted(mem, at) /\ Finals(file.lines, "PAPER_FILL", at) = {} /\ order \in Nat
    BY <1>2, <1>3, <2>1, JevAssumption DEF AttemptOpen
  <2>3. pending' \in JevEvents /\ pending'.type = "PAPER_FILL" /\ pending'.market = at
    BY <2>1, <2>2, JevAssumption DEF Event, JevEvents, JevKind
  <2>4. WritingFirst' /\ AttemptOpen'
    BY <1>1, <2>1, <2>2, <2>3 DEF WritingFirst, AttemptOpen, Final
  <2>5. QED
    BY <1>1, <1>3, <2>1, <2>3, <2>4, JevBegins DEF JevStages
<1>9. QED
  BY <1>4, <1>5, <1>6, <1>7, <1>8 DEF Attempting

\* What a settlement writes is an event.
LEMMA SettlementTyped ==
  ASSUME JevInv, NEW m \in Markets, RecordSettlement(m)
  PROVE  pending' = Null \/ (pending' \in JevEvents /\ pending'.type = "SETTLEMENT")
<1> DEFINE Owed == {"PAPER_FILL", "SETTLEMENT"} \cap Kinds(mem, m) = {"PAPER_FILL"}
<1>1. CASE ~ Owed
  BY <1>1 DEF RecordSettlement, Answered, Visits, Ready
<1>2. CASE Owed
  <2>1. pending' = [Event("SETTLEMENT", m) EXCEPT !.payout = result[m] * TheFill(mem, m).cost]
    BY <1>2 DEF RecordSettlement, Writes
  <2>2. \E e \in ToSet(mem) : e.market = m /\ e.type = "PAPER_FILL"
    <3>1. "PAPER_FILL" \in Kinds(mem, m)
      BY <1>2
    <3>2. QED
      BY <3>1 DEF Kinds
  <2>3. TheFill(mem, m) \in ToSet(mem)
    BY <2>2 DEF TheFill
  <2>4. ToSet(mem) \subseteq JevEvents
    BY DEF JevInv, JevShape, ToSet
  <2>5. TheFill(mem, m).cost \in Nat
    BY <2>3, <2>4 DEF JevEvents
  <2>6. result[m] \in {0, 1, 2}
    BY DEF RecordSettlement, Answered, JevInv, JevShape
  <2>7. result[m] * TheFill(mem, m).cost \in Nat
    BY <2>5, <2>6
  <2>8. QED
    BY <2>1, <2>7, JevAssumption DEF Event, JevEvents, JevKind
<1>3. QED
  BY <1>1, <1>2

LEMMA JevSettleKeeps == ASSUME JevInv, Settling, UNCHANGED world PROVE JevInv'
<1>1. /\ UNCHANGED <<now, result, file, mem, errors, order>> /\ pending = Null /\ pc \in {"idle", "settling"}
      /\ pc' \in {"idle", "settling"}
  BY DEF Settling, Settle, SettleEnds, PassOver, RecordOutcome, RecordSettlement, Answered, Visits, Ready, Writes,
         world, attempt
<1>2. JevShape
  BY DEF JevInv
<1>3. at' \in {0} \cup Markets /\ order' \in 0 .. MaxStake
  BY <1>1, <1>2 DEF JevShape, Settling, Settle, SettleEnds, PassOver, RecordOutcome, RecordSettlement, attempt
<1>4. todo' \subseteq Markets
  <2>1. CASE Settle
    <3>1. \A e \in ToSet(mem) : e.market \in Markets
      <4>1. \A e \in ToSet(mem) : e \in JevEvents
        BY <1>2 DEF JevShape, ToSet
      <4>2. QED
        BY <4>1 DEF JevEvents
    <3>2. QED
      BY <2>1, <3>1 DEF Settle, Having
  <2>2. CASE ~Settle
    BY <1>2, <2>2 DEF JevShape, Settling, SettleEnds, PassOver, RecordOutcome, RecordSettlement
  <2>3. QED
    BY <2>1, <2>2
<1>5. pending' = Null \/ (pending' \in JevEvents /\ pending'.type \in {"OUTCOME", "SETTLEMENT"})
  <2>1. ASSUME NEW m \in Markets, RecordOutcome(m) PROVE pending' \in JevEvents /\ pending'.type = "OUTCOME"
    BY <2>1, EventTyped DEF RecordOutcome, Writes, JevKind
  <2>2. QED
    BY <1>1, <2>1, SettlementTyped DEF Settling, Settle, SettleEnds, PassOver
<1>6. WritingFirst' /\ AttemptOpen'
  BY <1>1, <1>5 DEF WritingFirst, AttemptOpen, Final
<1>7. QED
  BY <1>1, <1>3, <1>4, <1>5, <1>6, JevBegins DEF JevStages

LEMMA NextJev == JevInv /\ ((JevStep /\ UNCHANGED world) \/ (World /\ UNCHANGED jev_state)) => JevInv'
BY JevEnterKeeps, JevAttemptKeeps, JevSettleKeeps, JevAppendedKeeps, JevRaisesKeeps, JevEndKeeps, WorldKeepsJev
   DEF JevStep

LEMMA JevHolds == JevInv => JevTypeOK /\ DecidedOnce
<1> SUFFICES ASSUME JevInv PROVE JevTypeOK /\ DecidedOnce
  OBVIOUS
<1>1. file.lines \in Seq(JevLines) /\ file.tail \in JevLines \cup {NoTail}
  BY DEF JevInv, JevShape, FilesOf
<1>2. JevTypeOK
  BY <1>1 DEF JevInv, JevShape, JevStages, JevTypeOK, JevLines
<1>3. ASSUME NEW m \in Markets, NEW kind \in {"JEV_DECISION", "PAPER_FILL"}
      PROVE  Cardinality(Places(file.lines, {kind}, m)) <= 1
  <2>1. AtMostOne(Places(file.lines, {kind}, m))
    BY DEF JevInv, DecisionsCounted, Finals, Final
  <2>2. QED
    BY <1>1, <2>1, PlacesFinite
<1>4. QED
  BY <1>2, <1>3 DEF DecidedOnce

\* What the program counts and what it would count from the file, after an event.
LEMMA CashAfter ==
  ASSUME JevInv, CashInv, errors = 0, pending # Null, NEW f \in Interrupted(file, pending)
  PROVE  /\ balances(Append(mem, pending)) >= 0
         /\ Parses(f.lines) => balances(f.lines) >= 0 /\ f.lines \in {mem, Append(mem, pending)}
<1>1. /\ mem \in Seq(JevEvents) /\ pending \in JevEvents /\ file \in FilesOf(JevLines) /\ pc # "down"
  BY DEF JevInv, JevShape, WritingFirst
<1>2. /\ balances(mem) \in Int /\ balances(Append(mem, pending)) = balances(mem) + pending.payout - pending.cost
  BY <1>1, AppendedBalance
<1>3. pending.cost \in Nat /\ pending.payout \in Nat
  BY <1>1 DEF JevEvents
<1>4. balances(mem) >= 0 /\ pending.cost <= balances(mem) /\ (Parses(file.lines) => file.lines = mem)
  BY <1>1 DEF CashInv
<1>5. balances(Append(mem, pending)) >= 0
  BY <1>2, <1>3, <1>4
<1>6. Parses(f.lines) => Parses(file.lines) /\ f.lines \in {file.lines, Append(file.lines, pending)}
  BY <1>1, LinesAfter
<1>7. QED
  BY <1>4, <1>5, <1>6

LEMMA CashAppended == ASSUME JevInv, CashInv, Appended PROVE CashInv'
<1>1. /\ pending # Null /\ pending' = Null /\ file' = Written(file, pending) /\ mem' = Append(mem, pending)
      /\ UNCHANGED <<pc, order, errors>>
  BY DEF Appended, attempt
<1> SUFFICES ASSUME errors = 0
             PROVE  /\ balances(mem') >= 0
                    /\ Parses(file'.lines) => balances(file'.lines) >= 0 /\ file'.lines = mem'
                    /\ pc = "entering" => order <= balances(mem')
  BY <1>1 DEF CashInv
<1>2. file' \in Interrupted(file, pending)
  BY <1>1 DEF Interrupted
<1>3. /\ balances(mem') >= 0
      /\ Parses(file'.lines) => balances(file'.lines) >= 0 /\ file'.lines \in {mem, Append(mem, pending)}
  BY <1>1, <1>2, CashAfter
<1>4. Parses(file'.lines) => file'.lines # mem
  <2>1. /\ pending \in JevEvents /\ file \in FilesOf(JevLines) /\ pc # "down" /\ (Parses(file.lines) => file.lines = mem)
    BY <1>1 DEF JevInv, JevShape, WritingFirst, CashInv
  <2>2. Parses(file'.lines) => Parses(file.lines)
    BY <1>2, <2>1, LinesAfter
  <2>3. Len(file'.lines) = Len(file.lines) + 1 /\ Len(file.lines) \in Nat
    BY <1>1, <2>1 DEF Written, FilesOf, JevLines
  <2>4. QED
    BY <2>1, <2>2, <2>3
<1>5. pc = "entering" => order <= balances(mem')
  <2>1. mem \in Seq(JevEvents) /\ pending \in JevEvents
    BY <1>1 DEF JevInv, JevShape
  <2>2. /\ balances(mem) \in Int /\ balances(mem') = balances(mem) + pending.payout - pending.cost
    BY <1>1, <2>1, AppendedBalance
  <2>3. pc = "entering" => order <= balances(mem) /\ pending.cost = 0 /\ pending.payout = 0
    BY <1>1 DEF CashInv
  <2>4. QED
    BY <2>2, <2>3
<1>6. QED
  BY <1>1, <1>3, <1>4, <1>5

LEMMA CashEnds == ASSUME JevInv, CashInv, Crash \/ Stop \/ Enter \/ AppendRaises PROVE CashInv'
<1>1. errors \in Nat /\ balances(<<>>) = Capital /\ Capital >= 0
  BY EmptyBalance, JevAssumption DEF JevInv, JevShape
<1>2. CASE AppendRaises
  BY <1>1, <1>2 DEF AppendRaises, CashInv
<1>3. CASE Enter
  <2>1. pending = Null
    BY <1>3 DEF Enter, JevInv, WritingFirst
  <2>2. QED
    BY <1>3, <2>1 DEF Enter, CashInv, attempt
<1>4. CASE Stop
  BY <1>1, <1>4 DEF Stop, Ready, CashInv
<1>5. CASE Crash
  <2>1. CASE pending = Null
    BY <1>1, <1>5, <2>1 DEF Crash, CashInv
  <2>2. CASE pending # Null
    <3>1. file' \in Interrupted(file, pending)
      BY <1>5, <2>2 DEF Crash
    <3>2. errors = 0 => (Parses(file'.lines) => balances(file'.lines) >= 0)
      BY <2>2, <3>1, CashAfter
    <3>3. QED
      BY <1>1, <1>5, <3>2 DEF Crash, CashInv
  <2>3. QED
    BY <2>1, <2>2
<1>6. QED
  BY <1>2, <1>3, <1>4, <1>5

LEMMA CashBegins == ASSUME JevInv, CashInv, Attempting \/ Settling PROVE CashInv'
<1>1. UNCHANGED <<file, mem, errors>> /\ pc # "down" /\ pending = Null
  BY DEF Attempting, Claim, Missed, Inputs, Decided, Pass, PaperFill, Raises, Settling, Settle, SettleEnds, PassOver,
         RecordOutcome, RecordSettlement, Answered, Visits, Ready, Writes
<1>2. CASE PaperFill
  <2>1. /\ pending' = [Event("PAPER_FILL", at) EXCEPT !.cost = order] /\ pc = "entering" /\ pc' = "idle"
    BY <1>2 DEF PaperFill, Writes, Ready
  <2>2. pending'.cost = order
    BY <2>1 DEF Event
  <2>3. QED
    BY <1>1, <2>1, <2>2 DEF CashInv
<1>3. CASE Decided
  <2>1. /\ pending'.cost = 0 /\ pending'.payout = 0 /\ pc' = IF order' = 0 THEN "passing" ELSE "entering"
        /\ order' \in Nat /\ (order' > 0 => order' <= balances(mem))
    BY <1>3, JevAssumption DEF Decided, Writes, Event
  <2>2. QED
    BY <1>1, <2>1 DEF CashInv
<1>4. CASE (Attempting /\ ~PaperFill /\ ~Decided) \/ Settling
  <2>1. pc' # "entering"
    BY <1>4 DEF Attempting, Claim, Missed, Inputs, Pass, Raises, Settling, Settle, SettleEnds, PassOver,
         RecordOutcome, RecordSettlement, Answered, Visits, Ready
  <2>2. pending' # Null => pending'.cost = 0
    <3>1. \A kind, m, n : Event(kind, m).cost = 0 /\ [Event(kind, m) EXCEPT !.payout = n].cost = 0
      BY DEF Event
    <3>2. CASE Claim \/ Missed \/ Pass \/ Raises
      BY <3>1, <3>2 DEF Claim, Missed, Pass, Raises, Writes
    <3>3. CASE \E m \in Markets : RecordOutcome(m) \/ RecordSettlement(m)
      <4>1. PICK m \in Markets : RecordOutcome(m) \/ RecordSettlement(m)
        BY <3>3
      <4>2. CASE RecordOutcome(m)
        BY <3>1, <4>2 DEF RecordOutcome, Writes
      <4>3. CASE RecordSettlement(m)
        <5>1. \/ pending' = [Event("SETTLEMENT", m) EXCEPT !.payout = result[m] * TheFill(mem, m).cost]
              \/ pending' = Null
          BY <1>1, <4>3 DEF RecordSettlement, Writes
        <5>2. QED
          BY <5>1 DEF Event
      <4>4. QED
        BY <4>1, <4>2, <4>3
    <3>4. CASE Inputs \/ Settle \/ SettleEnds \/ \E m \in Markets : PassOver(m)
      BY <1>1, <3>4 DEF Inputs, Settle, SettleEnds, PassOver
    <3>5. QED
      BY <1>4, <3>2, <3>3, <3>4 DEF Attempting, Settling
  <2>3. QED
    BY <1>1, <2>1, <2>2 DEF CashInv
<1>5. QED
  BY <1>2, <1>3, <1>4

LEMMA NextCash == JevInv /\ CashInv /\ ((JevStep /\ UNCHANGED world) \/ (World /\ UNCHANGED jev_state)) => CashInv'
<1> SUFFICES ASSUME JevInv, CashInv, (JevStep /\ UNCHANGED world) \/ (World /\ UNCHANGED jev_state) PROVE CashInv'
  OBVIOUS
<1>1. CASE JevStep
  BY <1>1, CashAppended, CashEnds, CashBegins DEF JevStep
<1>2. CASE UNCHANGED jev_state
  BY <1>2 DEF jev_state, CashInv
<1>3. QED
  BY <1>1, <1>2

\* The runner alone, with any number of markets, crashes and failed writes: one decision and
\* one fill of a market in its journal.
THEOREM DecisionsStayOne == JevSpec => [](JevTypeOK /\ DecidedOnce)
<1>1. JevInv /\ [JevNext]_jev_vars => JevInv'
  <2> SUFFICES ASSUME JevInv, [JevNext]_jev_vars PROVE JevInv'
    OBVIOUS
  <2>1. CASE JevNext
    BY <2>1, NextJev DEF JevNext
  <2>2. CASE UNCHANGED jev_vars
    BY <2>2 DEF jev_vars, world, jev_state, JevInv, JevShape, Remembered, MemoryWritten, WritingFirst, AttemptOpen
  <2>3. QED
    BY <2>1, <2>2
<1>2. QED
  BY <1>1, InitJev, JevHolds, PTL DEF JevSpec

\* As long as no write raised, the fills it counts are paid from capital and settlements that
\* are there (balances).
THEOREM FillsAreCovered == JevSpec => []JevCashCovered
<1>1. JevInv /\ CashInv /\ [JevNext]_jev_vars => JevInv' /\ CashInv'
  <2> SUFFICES ASSUME JevInv, CashInv, [JevNext]_jev_vars PROVE JevInv' /\ CashInv'
    OBVIOUS
  <2>1. CASE JevNext
    BY <2>1, NextJev, NextCash DEF JevNext
  <2>2. CASE UNCHANGED jev_vars
    BY <2>2 DEF jev_vars, world, jev_state, JevInv, JevShape, Remembered, MemoryWritten, WritingFirst, AttemptOpen, CashInv
  <2>3. QED
    BY <2>1, <2>2
<1>2. JevInv /\ CashInv => JevCashCovered
  BY DEF CashInv, JevCashCovered
<1>3. QED
  BY <1>1, <1>2, InitJev, PTL DEF JevSpec

----------------------------------------------------------------------------
(* A market is scored and settled once, as long as no write has failed. *)

Terminals == {"OUTCOME", "SETTLEMENT"}

\* What the file has of a market is remembered, and what is being written is not there yet.
SettleInv ==
  errors = 0 =>
    /\ \A m \in Markets, kind \in Terminals :
         /\ AtMostOne(Finals(file.lines, kind, m))
         /\ pc # "down" /\ Finals(file.lines, kind, m) # {} => kind \in Kinds(mem, m)
    /\ pending # Null /\ pending.type \in Terminals => pending.type \notin Kinds(mem, pending.market)

\* A write adds what the memory lacked, however it ends.
LEMMA SettleWriting ==
  ASSUME JevInv, SettleInv, errors = 0, pending # Null, NEW f \in Interrupted(file, pending),
         NEW m \in Markets, NEW kind \in Terminals
  PROVE  /\ AtMostOne(Finals(f.lines, kind, m))
         /\ Finals(f.lines, kind, m) # {} => kind \in Kinds(Append(mem, pending), m)
<1>1. /\ mem \in Seq(JevEvents) /\ pending \in JevEvents /\ file \in FilesOf(JevLines) /\ pc # "down"
  BY DEF JevInv, JevShape, WritingFirst
<1>2. /\ AtMostOne(Finals(file.lines, kind, m))
      /\ Finals(file.lines, kind, m) # {} => kind \in Kinds(mem, m)
      /\ pending.type = kind /\ pending.market = m => kind \notin Kinds(mem, m)
  BY <1>1 DEF SettleInv
<1>3. /\ Finals(f.lines, kind, m) # {} => Finals(file.lines, kind, m) # {} \/ (pending.type = kind /\ pending.market = m)
      /\ AtMostOne(Finals(file.lines, kind, m)) /\ (pending.type = kind /\ pending.market = m => Finals(file.lines, kind, m) = {})
           => AtMostOne(Finals(f.lines, kind, m))
  BY <1>1, FinalsAfter
<1>4. ToSet(Append(mem, pending)) = ToSet(mem) \cup {pending}
  BY <1>1, AppendedSet
<1>5. /\ Kinds(mem, m) \subseteq Kinds(Append(mem, pending), m)
      /\ pending.market = m => pending.type \in Kinds(Append(mem, pending), m)
  BY <1>4 DEF Kinds
<1>6. QED
  BY <1>2, <1>3, <1>5

LEMMA SettleAppends == ASSUME JevInv, SettleInv, Appended PROVE SettleInv'
<1>1. /\ pending # Null /\ pending' = Null /\ file' = Written(file, pending) /\ mem' = Append(mem, pending)
      /\ UNCHANGED errors
  BY DEF Appended
<1>2. file' \in Interrupted(file, pending)
  BY <1>1 DEF Interrupted
<1>3. QED
  BY <1>1, <1>2, SettleWriting DEF SettleInv

LEMMA SettleStops == ASSUME JevInv, SettleInv, Crash \/ Stop \/ AppendRaises PROVE SettleInv'
<1>1. CASE AppendRaises
  <2>1. errors' = errors + 1 /\ errors \in Nat
    BY <1>1, JevAssumption DEF AppendRaises, JevInv, JevShape
  <2>2. errors' # 0
    BY <2>1
  <2>3. QED
    BY <2>2 DEF SettleInv
<1>2. CASE Crash \/ Stop
  <2>1. pc' = "down" /\ pending' = Null /\ UNCHANGED errors
    BY <1>2 DEF Crash, Stop, Ready
  <2>2. ASSUME errors = 0, NEW m \in Markets, NEW kind \in Terminals PROVE AtMostOne(Finals(file'.lines, kind, m))
    <3>1. CASE UNCHANGED file
      BY <2>2, <3>1 DEF SettleInv
    <3>2. CASE pending # Null /\ file' \in Interrupted(file, pending)
      BY <2>2, <3>2, SettleWriting
    <3>3. QED
      BY <1>2, <3>1, <3>2 DEF Crash, Stop
  <2>3. QED
    BY <2>1, <2>2 DEF SettleInv
<1>3. QED
  BY <1>1, <1>2

\* A program that starts reads every event of the file.
LEMMA SettleEnters == ASSUME JevInv, SettleInv, Enter PROVE SettleInv'
<1>1. /\ pc = "down" /\ mem' = file.lines /\ UNCHANGED <<file, pending, errors>>
  BY DEF Enter
<1>2. pending = Null
  BY <1>1 DEF JevInv, WritingFirst
<1>3. ASSUME NEW m \in Markets, NEW kind \in Terminals, Finals(file.lines, kind, m) # {}
      PROVE  kind \in Kinds(file.lines, m)
  <2>1. PICK i \in DOMAIN file.lines : file.lines[i].type = kind /\ file.lines[i].market = m
    BY <1>3 DEF Finals, Places
  <2>2. QED
    BY <2>1 DEF Kinds, ToSet
<1>4. QED
  BY <1>1, <1>2, <1>3 DEF SettleInv

LEMMA SettleBegins == ASSUME JevInv, SettleInv, Attempting \/ Settling PROVE SettleInv'
<1>1. /\ UNCHANGED <<file, mem, errors>> /\ pending = Null /\ pc # "down"
  BY DEF Attempting, Claim, Missed, Inputs, Decided, Pass, PaperFill, Raises, Settling, Settle, SettleEnds, PassOver,
         RecordOutcome, RecordSettlement, Answered, Visits, Ready, Writes
<1>2. pending' # Null /\ pending'.type \in Terminals => pending'.type \notin Kinds(mem, pending'.market)
  <2>1. ASSUME NEW m \in Markets, RecordOutcome(m) PROVE pending'.type \notin Kinds(mem, pending'.market)
    <3>1. pending' = Event("OUTCOME", m) /\ "OUTCOME" \notin Kinds(mem, m)
      BY <2>1 DEF RecordOutcome, Writes
    <3>2. QED
      BY <3>1 DEF Event
  <2>2. ASSUME NEW m \in Markets, RecordSettlement(m), pending' # Null
        PROVE  pending'.type \notin Kinds(mem, pending'.market)
    <3>1. {"PAPER_FILL", "SETTLEMENT"} \cap Kinds(mem, m) = {"PAPER_FILL"}
      BY <1>1, <2>2 DEF RecordSettlement
    <3>2. "SETTLEMENT" \notin Kinds(mem, m)
      BY <3>1
    <3>3. pending'.type = "SETTLEMENT" /\ pending'.market = m
      BY <2>2, <3>1 DEF RecordSettlement, Writes, Event
    <3>4. QED
      BY <3>2, <3>3
  <2>3. ASSUME Attempting, pending' # Null PROVE pending'.type \notin Terminals
    BY <1>1, <2>3 DEF Attempting, Claim, Missed, Inputs, Decided, Pass, PaperFill, Raises, Writes, Event, Terminals
  <2>4. ASSUME Settle \/ SettleEnds \/ \E m \in Markets : PassOver(m) PROVE pending' = Null
    BY <1>1, <2>4 DEF Settle, SettleEnds, PassOver
  <2>5. QED
    BY <2>1, <2>2, <2>3, <2>4 DEF Settling
<1>3. QED
  BY <1>1, <1>2 DEF SettleInv

LEMMA NextSettle == JevInv /\ SettleInv /\ ((JevStep /\ UNCHANGED world) \/ (World /\ UNCHANGED jev_state)) => SettleInv'
<1>1. World /\ UNCHANGED jev_state /\ SettleInv => SettleInv'
  BY DEF jev_state, SettleInv
<1>2. QED
  BY <1>1, SettleEnters, SettleAppends, SettleStops, SettleBegins DEF JevStep

LEMMA SettleHolds == JevInv /\ SettleInv => SettledOnce
<1> SUFFICES ASSUME JevInv, SettleInv, errors = 0, NEW m \in Markets, NEW kind \in {"OUTCOME", "SETTLEMENT"}
             PROVE  Cardinality(Places(file.lines, {kind}, m)) <= 1
  BY DEF SettledOnce
<1>1. file.lines \in Seq(JevLines)
  BY DEF JevInv, JevShape, FilesOf
<1>2. AtMostOne(Places(file.lines, {kind}, m))
  BY DEF SettleInv, Finals, Terminals
<1>3. QED
  BY <1>1, <1>2, PlacesFinite

LEMMA InitSettle == JevInit => SettleInv
<1> SUFFICES ASSUME JevInit PROVE SettleInv
  OBVIOUS
<1>1. file.lines = <<>> /\ pending = Null /\ pc = "down"
  BY DEF JevInit, EmptyFile
<1>2. \A kind, m : Finals(<<>>, kind, m) = {}
  BY DEF Finals, Places
<1>3. QED
  BY <1>1, <1>2 DEF SettleInv, AtMostOne

----------------------------------------------------------------------------
(* Both traders beside each other. *)

TradersInv == JevInv /\ SettleInv /\ LagInv

LEMMA TradersKeep == TradersInv /\ [TradersNext]_traders_vars => TradersInv'
<1> SUFFICES ASSUME JevInv, SettleInv, LagInv, [TradersNext]_traders_vars PROVE JevInv' /\ SettleInv' /\ LagInv'
  BY DEF TradersInv
<1>1. UNCHANGED <<world, jev_state>> => JevInv' /\ SettleInv'
  BY DEF world, jev_state, SettleInv, JevInv, JevShape, Remembered, MemoryWritten, WritingFirst, AttemptOpen
<1>2. UNCHANGED <<world, lag_state>> => LagInv'
  BY DEF world, lag_state, LagInv, LagShape, CandidateClear, SignalPlaced, PendingFresh, TodoUnsettled
<1>3. CASE World /\ UNCHANGED <<jev_state, lag_state>>
  BY <1>3, NextJev, NextSettle, NextLag
<1>4. CASE JevStep /\ UNCHANGED <<world, lag_state>>
  BY <1>2, <1>4, NextJev, NextSettle
<1>5. CASE LagStep /\ UNCHANGED <<world, jev_state>>
  BY <1>1, <1>5, NextLag
<1>6. CASE UNCHANGED traders_vars
  BY <1>1, <1>2, <1>6 DEF traders_vars
<1>7. QED
  BY <1>3, <1>4, <1>5, <1>6 DEF TradersNext

\* Whichever of the two traders moves, crashes or fails to write, for any number of markets:
\* a market is decided and filled once in the journal of JEV, and scored and settled once there
\* while no append of it has raised; it has one bet and one settlement in that of the lag runner.
THEOREM JournalsStayTrue == TradersSpec => []JournalsAgree
<1>1. TradersInit => TradersInv
  BY InitJev, InitSettle, InitLag DEF TradersInit, TradersInv
<1>2. TradersInv => JournalsAgree
  BY JevHolds, SettleHolds, LagHolds DEF JournalsAgree, TradersInv
<1>3. QED
  BY <1>1, <1>2, TradersKeep, PTL DEF TradersSpec

----------------------------------------------------------------------------
(* Numbers, sets and sequences. *)

LEMMA WholeQuotient ==
  ASSUME NEW n \in Nat, NEW d \in Nat \ {0}
  PROVE  n \div d \in Nat /\ d * (n \div d) <= n /\ n < d * (n \div d) + d
OBVIOUS

\* A larger dividend has no smaller quotient.
LEMMA QuotientGrows ==
  ASSUME NEW m \in Nat, NEW n \in Nat, m <= n, NEW d \in Nat \ {0}
  PROVE  m \div d <= n \div d
<1> DEFINE a == m \div d
           b == n \div d
<1>1. a \in Nat /\ b \in Nat /\ d * a <= m /\ n < d * b + d
  BY WholeQuotient
<1>2. ASSUME b < a PROVE FALSE
  <2>1. PICK k \in Nat : a = b + 1 + k
    <3>1. a = b + 1 + (a - b - 1) /\ a - b - 1 \in Nat
      BY <1>1, <1>2
    <3>2. QED
      BY <3>1
  <2> HIDE DEF a, b
  <2>2. d * a = d * b + d + d * k
    BY <1>1, <2>1
  <2>3. d * k >= 0 /\ d * b \in Nat /\ d * k \in Nat
    BY <1>1, <2>1
  <2>4. QED
    BY <1>1, <2>2, <2>3
<1>3. QED
  BY <1>1, <1>2

\* A set of numbers up to a bound has a greatest one.
LEMMA Greatest ==
  ASSUME NEW n \in Nat, NEW T \in SUBSET (0 .. n), T # {}
  PROVE  Max(T) \in T /\ \A x \in T : x <= Max(T)
<1> DEFINE U == {n - x : x \in T}
           Less == {ss \in Nat \X Nat : ss[1] < ss[2]}
<1>1. U \in SUBSET Nat /\ U # {}
  <2>1. \A x \in T : n - x \in Nat
    OBVIOUS
  <2>2. QED
    BY <2>1
<1>2. IsWellFoundedOn(Less, Nat)
  BY NatLessThanWellFounded DEF OpToRel
<1>3. PICK u \in U : \A v \in U : ~ (<<v, u>> \in Less)
  <2> HIDE DEF Less, U
  <2>1. QED
    BY <1>1, <1>2, WFMin
<1>4. PICK x \in T : u = n - x
  BY <1>3
<1>5. ASSUME NEW y \in T PROVE x >= y
  <2>1. n - y \in U /\ n - y \in Nat /\ u \in Nat
    BY <1>1, <1>3
  <2>2. ~ (n - y < u)
    BY <1>3, <2>1
  <2>3. QED
    BY <1>4, <2>2
<1>6. QED
  BY <1>4, <1>5 DEF Max

\* A finite set written as a sequence: each element once.
LEMMA EachOnce ==
  ASSUME NEW S, IsFiniteSet(S)
  PROVE  /\ SetToSeq(S) \in Seq(S) /\ DOMAIN SetToSeq(S) = 1 .. Len(SetToSeq(S)) /\ ToSet(SetToSeq(S)) = S
         /\ \A i, k \in DOMAIN SetToSeq(S) : SetToSeq(S)[i] = SetToSeq(S)[k] => i = k
<1> DEFINE D == 1 .. Cardinality(S)
<1>1. Cardinality(S) \in Nat /\ ExistsBijection(D, S)
  BY FS_CardinalityType
<1>2. IsFiniteSet(D) /\ Cardinality(D) = Cardinality(S)
  BY <1>1, FS_Interval
<1>3. \E f \in [D -> S] : IsInjective(f)
  BY <1>1 DEF ExistsBijection, Bijection, Injection, IsInjective
<1>4. SetToSeq(S) \in [D -> S] /\ IsInjective(SetToSeq(S))
  BY <1>3 DEF SetToSeq
<1> DEFINE f == SetToSeq(S)
<1>5. f \in Seq(S) /\ DOMAIN f = 1 .. Len(f)
  BY <1>1, <1>4
<1>6. f \in Surjection(D, S)
  <2>1. f \in Injection(D, S)
    BY <1>4 DEF Injection, IsInjective
  <2> HIDE DEF f, D
  <2>2. QED
    BY <2>1, <1>2, FS_Injection
<1>7. ToSet(f) = S
  <2>1. DOMAIN f = D /\ \A y \in S : \E x \in D : f[x] = y
    BY <1>4, <1>6 DEF Surjection
  <2>2. QED
    BY <1>4, <2>1 DEF ToSet
<1>8. QED
  BY <1>4, <1>5, <1>7 DEF IsInjective

\* One element taken out of a sequence.
LEMMA OneOut ==
  ASSUME NEW S, NEW seq \in Seq(S), NEW i \in DOMAIN seq
  PROVE  /\ RemoveAt(seq, i) \in Seq(S) /\ Len(RemoveAt(seq, i)) = Len(seq) - 1
         /\ \A k \in 1 .. Len(seq) - 1 : RemoveAt(seq, i)[k] = seq[IF k < i THEN k ELSE k + 1]
<1>1. i \in 1 .. Len(seq) /\ Len(seq) \in Nat
  OBVIOUS
<1> DEFINE a == SubSeq(seq, 1, i - 1)
           b == SubSeq(seq, i + 1, Len(seq))
<1>2. a \in Seq(S) /\ Len(a) = i - 1 /\ \A k \in 1 .. i - 1 : a[k] = seq[k]
  BY <1>1
<1>3. b \in Seq(S) /\ Len(b) = Len(seq) - i /\ \A k \in 1 .. Len(seq) - i : b[k] = seq[i + k]
  <2>1. CASE i < Len(seq)
    BY <1>1, <2>1
  <2>2. CASE i = Len(seq)
    BY <1>1, <2>2
  <2>3. QED
    BY <1>1, <2>1, <2>2
<1> HIDE DEF a, b
<1>4. RemoveAt(seq, i) = a \o b
  BY DEF RemoveAt, a, b
<1>5. a \o b \in Seq(S) /\ Len(a \o b) = Len(seq) - 1
  BY <1>1, <1>2, <1>3
<1>6. ASSUME NEW k \in 1 .. Len(seq) - 1
      PROVE  (a \o b)[k] = seq[IF k < i THEN k ELSE k + 1]
  <2>1. CASE k < i
    BY <1>1, <1>2, <1>3, <2>1
  <2>2. CASE ~(k < i)
    <3>1. (a \o b)[k] = b[k - (i - 1)]
      BY <1>1, <1>2, <1>3, <2>2
    <3>2. k - (i - 1) \in 1 .. Len(seq) - i /\ i + (k - (i - 1)) = k + 1
      BY <1>1, <2>2
    <3>3. QED
      BY <1>1, <1>3, <2>2, <3>1, <3>2
  <2>3. QED
    BY <1>1, <2>1, <2>2
<1>7. QED
  BY <1>4, <1>5, <1>6

----------------------------------------------------------------------------
(* The cuts of a window and the events of a shard. *)

EventType == [slot : Int, good : BOOLEAN]
ShardsOf(j) == 0 .. j.count - 1

LEMMA ShapeOfJob ==
  ASSUME NEW j \in Jobs
  PROVE  /\ j.start \in Nat /\ j.end \in Nat /\ j.asOf \in Nat /\ j.start < j.end
         /\ j.count \in Nat \ {0} /\ j.batch \in Nat \ {0} /\ j.workers \in Nat \ {0} /\ j.span \in Nat \ {0}
         /\ j.warmup \in Nat /\ j.maxTorn \in Nat
         /\ \A s \in ShardsOf(j) : j.feed[s] \in Seq(Seq(EventType)) /\ Len(j.feed[s]) \in Nat \ {0}
<1>1. /\ j.start \in Nat /\ j.end \in Nat /\ j.asOf \in Nat /\ j.start < j.end
      /\ j.count \in Nat \ {0} /\ j.batch \in Nat \ {0} /\ j.workers \in Nat \ {0} /\ j.span \in Nat \ {0}
      /\ j.warmup \in Nat /\ j.maxTorn \in Nat
  BY JobsAssumption
<1>2. ASSUME NEW s \in ShardsOf(j)
      PROVE  j.feed[s] \in Seq(Seq(EventType)) /\ Len(j.feed[s]) \in Nat \ {0}
  <2>1. j.feed[s] \in Seq(Seq(EventType)) \ {<<>>}
    BY JobsAssumption DEF ShardsOf, EventType
  <2>2. QED
    BY <2>1
<1>3. QED
  BY <1>1, <1>2

LEMMA CutsGrow ==
  ASSUME NEW j \in Jobs, NEW s \in 0 .. j.count, NEW t \in 0 .. j.count, s <= t
  PROVE  CutAt(j, s) \in Nat /\ CutAt(j, s) <= CutAt(j, t)
<1>1. j.start \in Nat /\ j.end - j.start \in Nat /\ j.count \in Nat \ {0} /\ s \in Nat /\ t \in Nat
  BY ShapeOfJob
<1> DEFINE width == j.end - j.start
           m == width * s
           n == width * t
<1>2. m \in Nat /\ n \in Nat /\ m <= n
  <2>1. PICK k \in Nat : t = s + k
    <3>1. t = s + (t - s) /\ t - s \in Nat
      BY <1>1
    <3>2. QED
      BY <3>1
  <2>2. width \in Nat
    BY <1>1
  <2> HIDE DEF width
  <2>3. width * t = width * s + width * k
    BY <1>1, <2>1, <2>2
  <2>4. width * k \in Nat /\ width * s \in Nat
    BY <1>1, <2>2
  <2>5. QED
    BY <2>3, <2>4
<1> HIDE DEF m, n
<1>3. m \div j.count \in Nat /\ n \div j.count \in Nat /\ m \div j.count <= n \div j.count
  BY <1>1, <1>2, QuotientGrows, WholeQuotient
<1>4. CutAt(j, s) = j.start + m \div j.count /\ CutAt(j, t) = j.start + n \div j.count
  BY DEF CutAt, m, n
<1>5. QED
  BY <1>1, <1>3, <1>4

LEMMA CutEnds ==
  ASSUME NEW j \in Jobs
  PROVE  CutAt(j, 0) = j.start /\ CutAt(j, j.count) = j.end
<1>1. j.start \in Nat /\ j.end \in Nat /\ j.end - j.start \in Nat /\ j.count \in Nat \ {0}
  BY ShapeOfJob
<1>2. \A w \in Nat, n \in Nat \ {0} : (w * n) \div n = w /\ (w * 0) \div n = 0
  OBVIOUS
<1>3. ((j.end - j.start) * j.count) \div j.count = j.end - j.start /\ ((j.end - j.start) * 0) \div j.count = 0
  BY <1>1, <1>2
<1>4. QED
  BY <1>1, <1>3 DEF CutAt

\* Every slot of the window is in one of the shards.
LEMMA CutsCover ==
  ASSUME NEW j \in Jobs, NEW x \in j.start .. j.end - 1
  PROVE  \E s \in ShardsOf(j) : CutAt(j, s) <= x /\ x < CutAt(j, s + 1)
<1>1. j.start \in Nat /\ j.end \in Nat /\ j.count \in Nat \ {0} /\ x \in Nat
  BY ShapeOfJob
<1> DEFINE T == {t \in 0 .. j.count - 1 : CutAt(j, t) <= x}
<1>2. 0 \in T
  BY <1>1, CutEnds
<1>3. Max(T) \in T /\ \A t \in T : t <= Max(T)
  <2>1. T \in SUBSET (0 .. j.count - 1) /\ T # {} /\ j.count - 1 \in Nat
    BY <1>1, <1>2
  <2> HIDE DEF T
  <2>2. QED
    BY <2>1, Greatest
<1> DEFINE s == Max(T)
<1>4. s \in 0 .. j.count - 1 /\ CutAt(j, s) <= x
  BY <1>3
<1>5. x < CutAt(j, s + 1)
  <2>1. CASE s = j.count - 1
    <3>1. s + 1 = j.count
      BY <1>1, <2>1
    <3>2. QED
      BY <1>1, <3>1, CutEnds
  <2>2. CASE s # j.count - 1
    <3>1. s + 1 \in 0 .. j.count - 1 /\ ~(s + 1 <= s)
      BY <1>1, <1>4, <2>2
    <3>2. s + 1 \notin T
      BY <1>3, <3>1
    <3>3. CutAt(j, s + 1) \in Nat
      <4>1. s + 1 \in 0 .. j.count
        BY <1>1, <3>1
      <4> HIDE DEF s
      <4>2. QED
        BY <4>1, CutsGrow
    <3>4. QED
      BY <1>1, <3>1, <3>2, <3>3
  <2>3. QED
    BY <2>1, <2>2
<1>6. QED
  BY <1>4, <1>5 DEF ShardsOf

\* The events selected from pages, and from all of them.
ChosenOf(j, s, pages) ==
  {e.slot : e \in {e \in UNION {ToSet(j.feed[s][k]) : k \in pages} :
     e.good /\ CutAt(j, s) <= e.slot /\ e.slot < CutAt(j, s + 1) /\ e.slot + 1 <= j.asOf}}
AllOf(j, s) == ChosenOf(j, s, DOMAIN j.feed[s])

LEMMA ChosenInRange ==
  ASSUME NEW j \in Jobs, NEW s \in ShardsOf(j), NEW x \in AllOf(j, s)
  PROVE  /\ x \in Int /\ CutAt(j, s) <= x /\ x < CutAt(j, s + 1) /\ x \in j.start .. j.end - 1
         /\ \E e \in Offered(j, s) : e.slot = x /\ e.good /\ x + 1 <= j.asOf
<1>1. PICK e : /\ \E k \in DOMAIN j.feed[s] : e \in ToSet(j.feed[s][k])
               /\ x = e.slot /\ e.good /\ CutAt(j, s) <= e.slot /\ e.slot < CutAt(j, s + 1) /\ e.slot + 1 <= j.asOf
  BY DEF AllOf, ChosenOf
<1>2. e \in EventType
  <2>1. j.feed[s] \in Seq(Seq(EventType))
    BY ShapeOfJob
  <2>2. PICK k \in DOMAIN j.feed[s] : e \in ToSet(j.feed[s][k])
    BY <1>1
  <2>3. j.feed[s][k] \in Seq(EventType)
    BY <2>1, <2>2
  <2>4. QED
    BY <2>2, <2>3 DEF ToSet
<1>3. x \in Int
  BY <1>1, <1>2 DEF EventType
<1>4. j.start <= CutAt(j, s) /\ CutAt(j, s + 1) <= j.end /\ CutAt(j, s) \in Nat /\ CutAt(j, s + 1) \in Nat
  <2>1. j.count \in Nat \ {0} /\ s \in 0 .. j.count /\ s + 1 \in 0 .. j.count /\ 0 \in 0 .. j.count /\ j.count \in 0 .. j.count
        /\ 0 <= s /\ s + 1 <= j.count
    BY ShapeOfJob DEF ShardsOf
  <2>2. CutAt(j, 0) <= CutAt(j, s) /\ CutAt(j, s) \in Nat
    BY <2>1, CutsGrow
  <2>3. CutAt(j, s + 1) <= CutAt(j, j.count) /\ CutAt(j, s + 1) \in Nat
    BY <2>1, CutsGrow
  <2>4. QED
    BY <2>2, <2>3, CutEnds
<1>5. e \in Offered(j, s)
  BY <1>1 DEF Offered
<1>6. j.start \in Nat /\ j.end \in Nat
  BY ShapeOfJob
<1>7. QED
  BY <1>1, <1>3, <1>4, <1>5, <1>6

\* An event is in the range of one shard.
LEMMA RangesApart ==
  ASSUME NEW j \in Jobs, NEW s \in ShardsOf(j), NEW t \in ShardsOf(j), s # t
  PROVE  AllOf(j, s) \cap AllOf(j, t) = {}
<1>1. SUFFICES ASSUME NEW a \in ShardsOf(j), NEW b \in ShardsOf(j), a < b, NEW x \in AllOf(j, a), x \in AllOf(j, b)
               PROVE  FALSE
  <2>1. j.count \in Nat \ {0} /\ (s < t \/ t < s)
    BY ShapeOfJob DEF ShardsOf
  <2>2. QED
    BY <1>1, <2>1
<1>2. x \in Int /\ x < CutAt(j, a + 1) /\ CutAt(j, b) <= x
  BY <1>1, ChosenInRange
<1>3. a + 1 \in 0 .. j.count /\ b \in 0 .. j.count /\ a + 1 <= b
  BY <1>1, ShapeOfJob DEF ShardsOf
<1>4. CutAt(j, a + 1) <= CutAt(j, b) /\ CutAt(j, a + 1) \in Nat
  BY <1>3, CutsGrow
<1>5. CutAt(j, b) \in Nat
  BY <1>3, CutsGrow
<1>6. QED
  BY <1>2, <1>4, <1>5

\* A resolved event of a page of the range is chosen, and no other; pages add up.
LEMMA ChosenOfPages ==
  ASSUME NEW j \in Jobs, NEW s \in ShardsOf(j), NEW n \in 0 .. Len(j.feed[s])
  PROVE  /\ ChosenOf(j, s, 1 .. n) \subseteq AllOf(j, s)
         /\ ChosenOf(j, s, 1 .. 0) = {}
         /\ ChosenOf(j, s, 1 .. Len(j.feed[s])) = AllOf(j, s)
         /\ n > 0 => ChosenOf(j, s, 1 .. n) = ChosenOf(j, s, 1 .. n - 1) \cup ChosenOf(j, s, {n})
<1>1. Len(j.feed[s]) \in Nat /\ DOMAIN j.feed[s] = 1 .. Len(j.feed[s])
  <2>1. j.feed[s] \in Seq(Seq(EventType))
    BY ShapeOfJob
  <2>2. QED
    BY <2>1
<1>2. \A p, q : p \subseteq q => ChosenOf(j, s, p) \subseteq ChosenOf(j, s, q)
  BY DEF ChosenOf
<1>3. 1 .. n \subseteq DOMAIN j.feed[s]
  BY <1>1
<1>4. \A p, q : ChosenOf(j, s, p \cup q) = ChosenOf(j, s, p) \cup ChosenOf(j, s, q)
  BY DEF ChosenOf
<1>5. n > 0 => 1 .. n = 1 .. n - 1 \cup {n}
  BY <1>1
<1>6. ChosenOf(j, s, {}) = {} /\ 1 .. 0 = {}
  BY DEF ChosenOf
<1>7. QED
  BY <1>1, <1>2, <1>3, <1>4, <1>5, <1>6 DEF AllOf

----------------------------------------------------------------------------
(* Files and the rows read from them. *)

Real(rows) == ToSet(rows) \ {Garbage}

\* What a write, whole or cut off, makes of the rows a reader finds.
LEMMA RowsAfter ==
  ASSUME NEW S, NEW old \in FilesOf(S \cup {Garbage}), NEW row \in S, NEW f \in Interrupted(old, row),
         NoTail \notin S \cup {Garbage}
  PROVE  /\ f \in FilesOf(S \cup {Garbage})
         /\ AllLines(old) \in Seq(S \cup {Garbage}) /\ AllLines(f) \in Seq(S \cup {Garbage})
         /\ Len(AllLines(f)) \in {Len(AllLines(old)), Len(AllLines(old)) + 1}
         /\ \A i \in 1 .. Len(AllLines(f)) :
              IF i <= Len(AllLines(old)) THEN AllLines(f)[i] \in {AllLines(old)[i], Garbage}
              ELSE AllLines(f)[i] \in {row, Garbage}
<1> DEFINE T == S \cup {Garbage}
<1>1. old.lines \in Seq(T) /\ old.tail \in T \cup {NoTail} /\ row \in T /\ Garbage \in T
      /\ old = [lines |-> old.lines, tail |-> old.tail] /\ Len(old.lines) \in Nat
  BY DEF FilesOf
<1> DEFINE whole == IF old.tail = NoTail THEN row ELSE Garbage
<1>2. whole \in T
  BY <1>1
<1>3. \/ f = old
      \/ f = [lines |-> Append(old.lines, whole), tail |-> NoTail]
      \/ \E t \in {Garbage, whole} : f = [lines |-> old.lines, tail |-> t]
  BY <1>1 DEF Interrupted, Written
<1>4. f.lines \in Seq(T) /\ f.tail \in T \cup {NoTail} /\ f \in FilesOf(T)
  BY <1>1, <1>2, <1>3 DEF FilesOf
<1>5. ASSUME NEW g \in FilesOf(T)
      PROVE  /\ AllLines(g) \in Seq(T)
             /\ Len(AllLines(g)) = IF g.tail = NoTail THEN Len(g.lines) ELSE Len(g.lines) + 1
             /\ \A i \in 1 .. Len(g.lines) : AllLines(g)[i] = g.lines[i]
             /\ g.tail # NoTail => AllLines(g)[Len(g.lines) + 1] = g.tail
  <2>1. g.lines \in Seq(T) /\ g.tail \in T \cup {NoTail}
    BY DEF FilesOf
  <2>2. CASE g.tail = NoTail
    <3>1. AllLines(g) = g.lines
      BY <2>1, <2>2 DEF AllLines
    <3>2. QED
      BY <2>1, <2>2, <3>1
  <2>3. CASE g.tail # NoTail
    <3>1. AllLines(g) = g.lines \o <<g.tail>> /\ g.tail \in T
      BY <2>1, <2>3 DEF AllLines
    <3> HIDE DEF T
    <3>2. QED
      BY <2>1, <2>3, <3>1
  <2>4. QED
    BY <2>2, <2>3
<1>6. NoTail \notin T
  OBVIOUS
<1> DEFINE n == Len(old.lines)
<1>7. n \in Nat /\ AllLines(old) \in Seq(T) /\ \A i \in 1 .. n : AllLines(old)[i] = old.lines[i]
  BY <1>1, <1>5
<1>8. old.tail = NoTail => Len(AllLines(old)) = n /\ whole = row
  BY <1>1, <1>5
<1>9. old.tail # NoTail => Len(AllLines(old)) = n + 1 /\ whole = Garbage
  BY <1>1, <1>5
<1> HIDE DEF T, whole, n
<1>10. SUFFICES ASSUME f # old
                PROVE  /\ AllLines(f) \in Seq(T) /\ Len(AllLines(f)) = n + 1
                       /\ \A i \in 1 .. n : AllLines(f)[i] = old.lines[i]
                       /\ AllLines(f)[n + 1] \in {whole, Garbage}
  <2>1. CASE f = old
    <3>1. Len(AllLines(old)) \in Nat
      BY <1>7
    <3>2. QED
      BY <1>4, <1>7, <2>1, <3>1 DEF T
  <2>2. CASE f # old
    <3>1. /\ AllLines(f) \in Seq(T) /\ Len(AllLines(f)) = n + 1
          /\ \A i \in 1 .. n : AllLines(f)[i] = AllLines(old)[i]
          /\ AllLines(f)[n + 1] \in {whole, Garbage}
      BY <1>7, <1>10, <2>2
    <3>2. CASE old.tail = NoTail
      BY <1>4, <1>7, <1>8, <3>1, <3>2 DEF T
    <3>3. CASE old.tail # NoTail
      BY <1>4, <1>7, <1>9, <3>1, <3>3 DEF T
    <3>4. QED
      BY <3>2, <3>3
  <2>3. QED
    BY <2>1, <2>2
<1>11. CASE f = [lines |-> Append(old.lines, whole), tail |-> NoTail]
  <2>1. f.tail = NoTail /\ f.lines = Append(old.lines, whole)
    BY <1>11
  <2>2. Len(f.lines) = n + 1 /\ f.lines[n + 1] = whole /\ \A i \in 1 .. n : f.lines[i] = old.lines[i]
    BY <1>1, <1>2, <2>1 DEF n
  <2>3. QED
    BY <1>4, <1>5, <1>7, <2>1, <2>2
<1>12. ASSUME NEW t \in {Garbage, whole}, f = [lines |-> old.lines, tail |-> t]
       PROVE  /\ AllLines(f) \in Seq(T) /\ Len(AllLines(f)) = n + 1
              /\ \A i \in 1 .. n : AllLines(f)[i] = old.lines[i]
              /\ AllLines(f)[n + 1] \in {whole, Garbage}
  <2>1. t # NoTail /\ f.lines = old.lines /\ f.tail = t
    BY <1>1, <1>2, <1>6, <1>12
  <2>2. QED
    BY <1>4, <1>5, <1>7, <1>12, <2>1 DEF n
<1>13. QED
  BY <1>3, <1>10, <1>11, <1>12

----------------------------------------------------------------------------
(* What is true of a shard, in terms of its disk d, the writes planned, its stage and memory. *)

Stages == {"down", "config", "reading", "catalog", "prices", "fetching", "finished"}
Up == {"catalog", "prices", "fetching", "finished"}

PricesOf(j, s) == [slot : AllOf(j, s), full : BOOLEAN]
ChecksOf(j, s) ==
  {r \in CheckpointRows :
     r.phase = "catalog" => IF r.done THEN r.at = 0 ELSE r.at \in 0 .. Len(j.feed[s]) - 1}
WritesOf(j, s) ==
  [file : {"events"}, row : AllOf(j, s)] \cup [file : {"prices"}, row : PricesOf(j, s)]
    \cup [file : {"candles"}, row : Int] \cup [file : {"checkpoint"}, row : ChecksOf(j, s)]

DiskShape(j, s, d) ==
  /\ DOMAIN d = Files
  /\ d["events"] \in FilesOf(AllOf(j, s) \cup {Garbage}) /\ d["prices"] \in FilesOf(PricesOf(j, s) \cup {Garbage})
  /\ d["candles"] \in FilesOf(Int \cup {Garbage}) /\ d["checkpoint"] \in FilesOf(ChecksOf(j, s) \cup {Garbage})

MemoryShape(j, s, step, known, cur, had, q, min) ==
  /\ step \in Stages /\ known \subseteq AllOf(j, s) /\ had \subseteq AllOf(j, s)
  /\ cur \in 0 .. Len(j.feed[s]) /\ (step = "catalog" => cur < Len(j.feed[s]))
  /\ q \in Seq(SUBSET AllOf(j, s)) /\ min \in Int /\ min <= CutAt(j, s + 1)

\* Every event is on file once, and one that will be written is neither there nor written twice.
Planned(plan, name) == {plan[i].row : i \in {i \in DOMAIN plan : plan[i].file = name}}

Apart(rows) == \A i, k \in DOMAIN rows : rows[i] = rows[k] => i = k \/ rows[i] = Garbage

PlannedOnce(plan) ==
  \A i, k \in DOMAIN plan :
    plan[i].file = plan[k].file /\ i # k =>
      /\ plan[i].file = "events" => plan[i].row # plan[k].row
      /\ plan[i].file = "prices" => plan[i].row.slot # plan[k].row.slot

NewEvents(rows, plan, step, known) ==
  /\ Planned(plan, "events") \cap Real(rows) = {} /\ Planned(plan, "events") \subseteq known
  /\ step \in Up => Real(rows) \subseteq known

\* A record that covers every horizon is the last but for others that do, and no event that
\* has one is asked for again.
NeverWorse(rows) ==
  \A i, k \in DOMAIN rows :
    i < k /\ rows[i] # Garbage /\ rows[k] # Garbage /\ rows[i].slot = rows[k].slot /\ rows[i].full => rows[k].full

Full(rows) == {r.slot : r \in {r \in Real(rows) : r.full}}

Unasked(rows, plan, q) ==
  /\ \A r \in Planned(plan, "prices") : r.slot \notin Full(rows) /\ \A k \in DOMAIN q : r.slot \notin q[k]
  /\ \A k \in DOMAIN q : q[k] \cap Full(rows) = {} /\ \A l \in DOMAIN q : l # k => q[k] \cap q[l] = {}

ShardKept(j, s, d, plan, step, known, cur, had, q, min, seen) ==
  /\ DiskShape(j, s, d) /\ plan \in Seq(WritesOf(j, s)) /\ MemoryShape(j, s, step, known, cur, had, q, min)
  /\ seen \subseteq AllOf(j, s)
  /\ Apart(AllLines(d["events"])) /\ NeverWorse(AllLines(d["prices"]))
  /\ PlannedOnce(plan) /\ NewEvents(AllLines(d["events"]), plan, step, known)
  /\ Unasked(AllLines(d["prices"]), plan, q)

----------------------------------------------------------------------------
(* While no line was torn: what the checkpoint says is on the disk, or will be before it says so. *)

IsWhole(f) == f.tail = NoTail /\ \A i \in DOMAIN f.lines : f.lines[i] # Garbage
Catalogs(rows) == {r \in rows : r.phase = "catalog"}
Complete(rows) == \E r \in Catalogs(rows) : r.done
PagesOf(j, s, r) == IF r.done THEN Len(j.feed[s]) ELSE r.at

\* No catalog row behind one that is complete; one planned, behind the events of its page.
DoneIsLast(rows) ==
  \A i, k \in DOMAIN rows :
    rows[i].phase = "catalog" /\ rows[i].done /\ rows[k].phase = "catalog" => k <= i
IsCatalog(w) == w.file = "checkpoint" /\ w.row.phase = "catalog"
EventsFirst(plan) ==
  \A i, k \in DOMAIN plan : IsCatalog(plan[k]) /\ (plan[i].file = "events" \/ IsCatalog(plan[i])) => i <= k

\* e, c, p are the events, checkpoint rows and prices on the disk, pe, pk, pp those planned.
CatalogTrue(j, s, e, c, pe, pk, step, known, cur) ==
  /\ \A r \in Catalogs(c) : ChosenOf(j, s, 1 .. PagesOf(j, s, r)) \subseteq e
  /\ \A r \in Catalogs(pk) : ChosenOf(j, s, 1 .. PagesOf(j, s, r)) \subseteq e \cup pe
  /\ step \in Up => known = e \cup pe
  /\ step = "catalog" => ChosenOf(j, s, 1 .. cur) \subseteq known
  /\ Complete(c) => step # "catalog" /\ pe = {} /\ Catalogs(pk) = {}
  /\ Complete(pk) => step = "prices"
  /\ step = "prices" => Complete(c) \/ Complete(pk)
  /\ step \in {"fetching", "finished"} => Complete(c)

PricesTrue(e, c, p, pk, pp, had, q, seen) ==
  /\ \A r \in p \cup pp : r.slot \in e
  /\ \A k \in DOMAIN q : q[k] \subseteq e
  /\ \A x \in had : \E r \in p \cup pp : r.slot = x
  /\ (\E r \in c \cup pk : r.phase = "complete") => Complete(c) /\ \A x \in e : \E r \in p : r.slot = x
  /\ seen \subseteq e

ShardTrue(j, s, d, plan, step, known, cur, had, q, seen) ==
  /\ \A name \in Files : IsWhole(d[name])
  /\ DoneIsLast(AllLines(d["checkpoint"])) /\ EventsFirst(plan)
  /\ CatalogTrue(j, s, Real(AllLines(d["events"])), Real(AllLines(d["checkpoint"])),
                  Planned(plan, "events"), Planned(plan, "checkpoint"), step, known, cur)
  /\ PricesTrue(Real(AllLines(d["events"])), Real(AllLines(d["checkpoint"])), Real(AllLines(d["prices"])),
                 Planned(plan, "checkpoint"), Planned(plan, "prices"), had, q, seen)

Kept(s) ==
  ShardKept(job, s, disk[s], script[s], stage[s], existing[s], cursor[s], completed[s], queue[s], minute[s],
            observations[s])
True(s) ==
  ShardTrue(job, s, disk[s], script[s], stage[s], existing[s], cursor[s], completed[s], queue[s], observations[s])

Tables ==
  /\ job \in Jobs /\ torn \in 0 .. job.maxTorn
  /\ DOMAIN disk = Shards /\ DOMAIN config = Shards /\ DOMAIN observations = Shards /\ DOMAIN stage = Shards
  /\ DOMAIN script = Shards /\ DOMAIN existing = Shards /\ DOMAIN cursor = Shards /\ DOMAIN completed = Shards
  /\ DOMAIN queue = Shards /\ DOMAIN minute = Shards
  /\ \A s \in Shards : config[s] \in {Null, "written", Garbage}

DownloadInv == Tables /\ \A s \in Shards : Kept(s) /\ (torn = 0 => True(s))

----------------------------------------------------------------------------
(* Plans. *)

LEMMA TailOfPlan ==
  ASSUME NEW W, NEW plan \in Seq(W), plan # <<>>
  PROVE  /\ Head(plan) = plan[1] /\ plan[1] \in W /\ 1 \in DOMAIN plan /\ Tail(plan) \in Seq(W)
         /\ \A i \in DOMAIN Tail(plan) : i \in Nat /\ i + 1 \in DOMAIN plan /\ i + 1 # 1 /\ Tail(plan)[i] = plan[i + 1]
         /\ \A i \in DOMAIN plan : i # 1 => i - 1 \in DOMAIN Tail(plan) /\ plan[i] = Tail(plan)[i - 1]
<1>1. Len(plan) \in Nat \ {0} /\ DOMAIN plan = 1 .. Len(plan)
  OBVIOUS
<1>2. Head(plan) = plan[1] /\ Tail(plan) \in Seq(W) /\ Len(Tail(plan)) = Len(plan) - 1
  BY <1>1
<1>3. DOMAIN Tail(plan) = 1 .. Len(plan) - 1 /\ \A i \in 1 .. Len(plan) - 1 : Tail(plan)[i] = plan[i + 1]
  BY <1>1, <1>2
<1>4. \A i \in DOMAIN plan : i # 1 => i - 1 \in DOMAIN Tail(plan) /\ plan[i] = Tail(plan)[i - 1]
  BY <1>1, <1>3
<1>5. QED
  BY <1>1, <1>2, <1>3, <1>4

LEMMA PlannedSplit ==
  ASSUME NEW W, NEW plan \in Seq(W), plan # <<>>, NEW name
  PROVE  Planned(plan, name) =
           Planned(Tail(plan), name) \cup (IF plan[1].file = name THEN {plan[1].row} ELSE {})
<1> USE TailOfPlan
<1>1. ASSUME NEW i \in DOMAIN plan, plan[i].file = name
      PROVE  plan[i].row \in Planned(Tail(plan), name) \cup (IF plan[1].file = name THEN {plan[1].row} ELSE {})
  <2>1. CASE i = 1
    BY <1>1, <2>1
  <2>2. CASE i # 1
    <3>1. i - 1 \in DOMAIN Tail(plan) /\ plan[i] = Tail(plan)[i - 1]
      BY <2>2
    <3>2. QED
      BY <1>1, <3>1 DEF Planned
  <2>3. QED
    BY <2>1, <2>2
<1>2. ASSUME NEW i \in DOMAIN Tail(plan), Tail(plan)[i].file = name
      PROVE  Tail(plan)[i].row \in Planned(plan, name)
  <2>1. i + 1 \in DOMAIN plan /\ Tail(plan)[i] = plan[i + 1]
    OBVIOUS
  <2>2. QED
    BY <1>2, <2>1 DEF Planned
<1>3. plan[1].file = name => plan[1].row \in Planned(plan, name)
  <2>1. 1 \in DOMAIN plan
    OBVIOUS
  <2>2. QED
    BY <2>1 DEF Planned
<1>4. QED
  BY <1>1, <1>2, <1>3 DEF Planned

LEMMA PlannedNothing == \A name : Planned(<<>>, name) = {}
BY DEF Planned

\* The rows written are of the kind of their file.
LEMMA PlannedKinds ==
  ASSUME NEW j, NEW s, NEW plan \in Seq(WritesOf(j, s))
  PROVE  /\ Planned(plan, "events") \subseteq AllOf(j, s) /\ Planned(plan, "prices") \subseteq PricesOf(j, s)
         /\ Planned(plan, "candles") \subseteq Int /\ Planned(plan, "checkpoint") \subseteq ChecksOf(j, s)
<1>1. \A i \in DOMAIN plan : plan[i] \in WritesOf(j, s)
  OBVIOUS
<1>2. QED
  BY <1>1 DEF Planned, WritesOf

LEMMA RowIsReal ==
  ASSUME NEW j \in Jobs, NEW s \in ShardsOf(j)
  PROVE  /\ Null \notin AllOf(j, s) \cup PricesOf(j, s) \cup ChecksOf(j, s) \cup Int
         /\ Garbage \notin AllOf(j, s) \cup PricesOf(j, s) \cup ChecksOf(j, s) \cup Int
         /\ NoTail \notin AllOf(j, s) \cup PricesOf(j, s) \cup ChecksOf(j, s) \cup Int \cup {Garbage}
<1>1. AllOf(j, s) \subseteq Int
  BY ChosenInRange
<1>2. PricesOf(j, s) \subseteq PriceRows /\ ChecksOf(j, s) \subseteq CheckpointRows
  BY <1>1 DEF PricesOf, PriceRows, ChecksOf
<1>3. QED
  BY <1>1, <1>2, JobsAssumption

----------------------------------------------------------------------------
(* A shard that is down, or has only begun. *)

AtRest(plan, step, known, cur, had, q, min) ==
  /\ step \in {"down", "config", "reading"} /\ plan \in {<<>>, <<Write("checkpoint", Row("init", 0, FALSE))>>}
  /\ known = {} /\ cur = 0 /\ had = {} /\ q = <<>> /\ min = 0

LEMMA RestPlans ==
  ASSUME NEW j \in Jobs, NEW s \in ShardsOf(j), NEW plan \in {<<>>, <<Write("checkpoint", Row("init", 0, FALSE))>>}
  PROVE  /\ plan \in Seq(WritesOf(j, s)) /\ PlannedOnce(plan) /\ EventsFirst(plan)
         /\ Planned(plan, "events") = {} /\ Planned(plan, "prices") = {}
         /\ Planned(plan, "checkpoint") \subseteq {Row("init", 0, FALSE)}
<1> DEFINE w == Write("checkpoint", Row("init", 0, FALSE))
<1>1. Row("init", 0, FALSE) \in ChecksOf(j, s)
  <2> DEFINE r == [phase |-> "init", at |-> 0, done |-> FALSE]
  <2>1. 0 \in Int \cup (Int \X Int)
    OBVIOUS
  <2>2. r \in CheckpointRows
    <3> DEFINE V == Int \cup (Int \X Int)
    <3>1. 0 \in V
      BY <2>1
    <3> HIDE DEF V
    <3>2. r \in [phase : Phases, at : V, done : BOOLEAN]
      BY <3>1 DEF Phases
    <3>3. QED
      BY <3>2 DEF CheckpointRows, V
  <2>3. r.phase # "catalog" /\ r = Row("init", 0, FALSE)
    BY DEF Row
  <2> HIDE DEF r
  <2>4. QED
    BY <2>2, <2>3 DEF ChecksOf
<1>2. w \in WritesOf(j, s) /\ w.file = "checkpoint" /\ w.row = Row("init", 0, FALSE)
  BY <1>1 DEF Write, WritesOf
<1>3. Row("init", 0, FALSE).phase = "init"
  BY DEF Row
<1> HIDE DEF w
<1>4. CASE plan = <<>>
  BY <1>4 DEF PlannedOnce, EventsFirst, Planned
<1>5. CASE plan = <<w>>
  <2> DEFINE W == WritesOf(j, s)
  <2>1. w \in W
    BY <1>2
  <2> HIDE DEF W
  <2>2. DOMAIN <<w>> = {1} /\ <<w>>[1] = w /\ <<w>> \in Seq(W)
    <3>1. <<w>> \in Seq(W)
      BY ONLY <2>1
    <3>2. DOMAIN <<w>> = {1} /\ <<w>>[1] = w
      OBVIOUS
    <3>3. QED
      BY <3>1, <3>2
  <2>3. QED
    BY <1>2, <1>3, <1>5, <2>2 DEF W, PlannedOnce, EventsFirst, IsCatalog, Planned
<1>6. QED
  BY <1>4, <1>5 DEF w

LEMMA RestKept ==
  ASSUME NEW j \in Jobs, NEW s \in ShardsOf(j), NEW d, NEW plan, NEW step, NEW known, NEW cur, NEW had, NEW q, NEW min,
         NEW seen, DiskShape(j, s, d), Apart(AllLines(d["events"])), NeverWorse(AllLines(d["prices"])),
         seen \subseteq AllOf(j, s), AtRest(plan, step, known, cur, had, q, min)
  PROVE  ShardKept(j, s, d, plan, step, known, cur, had, q, min, seen)
<1>1. /\ plan \in Seq(WritesOf(j, s)) /\ PlannedOnce(plan)
      /\ Planned(plan, "events") = {} /\ Planned(plan, "prices") = {}
  BY RestPlans DEF AtRest
<1>2. MemoryShape(j, s, step, known, cur, had, q, min)
  <2>1. CutAt(j, s + 1) \in Nat /\ Len(j.feed[s]) \in Nat
    <3>1. s + 1 \in 0 .. j.count
      BY ShapeOfJob DEF ShardsOf
    <3>2. QED
      BY <3>1, CutsGrow, ShapeOfJob
  <2>2. QED
    BY <2>1 DEF MemoryShape, AtRest, Stages
<1>3. NewEvents(AllLines(d["events"]), plan, step, known)
  BY <1>1 DEF NewEvents, AtRest, Up
<1>4. Unasked(AllLines(d["prices"]), plan, q)
  BY <1>1 DEF Unasked, AtRest
<1>5. QED
  BY <1>1, <1>2, <1>3, <1>4 DEF ShardKept

LEMMA RestTrue ==
  ASSUME NEW j \in Jobs, NEW s \in ShardsOf(j), NEW d, NEW plan, NEW step, NEW known, NEW cur, NEW had, NEW q, NEW min,
         NEW seen, NEW plan2, NEW step2, NEW known2, NEW cur2, NEW had2, NEW q2,
         ShardTrue(j, s, d, plan2, step2, known2, cur2, had2, q2, seen),
         AtRest(plan, step, known, cur, had, q, min)
  PROVE  ShardTrue(j, s, d, plan, step, known, cur, had, q, seen)
<1>1. /\ EventsFirst(plan) /\ Planned(plan, "events") = {} /\ Planned(plan, "prices") = {}
      /\ \A r \in Planned(plan, "checkpoint") : r.phase = "init"
  <2>1. Row("init", 0, FALSE).phase = "init"
    BY DEF Row
  <2>2. QED
    BY <2>1, RestPlans DEF AtRest
<1> DEFINE e == Real(AllLines(d["events"]))
           c == Real(AllLines(d["checkpoint"]))
           p == Real(AllLines(d["prices"]))
           pk == Planned(plan, "checkpoint")
<1>2. /\ CatalogTrue(j, s, e, c, Planned(plan2, "events"), Planned(plan2, "checkpoint"), step2, known2, cur2)
      /\ PricesTrue(e, c, p, Planned(plan2, "checkpoint"), Planned(plan2, "prices"), had2, q2, seen)
      /\ DoneIsLast(AllLines(d["checkpoint"])) /\ \A name \in Files : IsWhole(d[name])
  BY DEF ShardTrue
<1> HIDE DEF e, c, p, pk
<1>3. Catalogs(pk) = {} /\ \A r \in pk : r.phase = "init"
  BY <1>1 DEF Catalogs, pk
<1>4. CatalogTrue(j, s, e, c, {}, pk, step, known, cur)
  <2>1. ~ Complete(pk)
    BY <1>3 DEF Complete
  <2>2. QED
    BY <1>2, <1>3, <2>1 DEF CatalogTrue, AtRest, Up
<1>5. PricesTrue(e, c, p, pk, {}, had, q, seen)
  BY <1>2, <1>3 DEF PricesTrue, AtRest
<1>6. QED
  BY <1>1, <1>2, <1>4, <1>5 DEF ShardTrue, e, c, p, pk

----------------------------------------------------------------------------
(* A line is written, or torn. *)

\* One of the places of a sequence of rows is another, spoiled row; or one row is added.
Grown(rows, rows2, row) ==
  /\ Len(rows2) \in {Len(rows), Len(rows) + 1}
  /\ \A i \in 1 .. Len(rows2) :
       IF i <= Len(rows) THEN rows2[i] \in {rows[i], Garbage} ELSE rows2[i] \in {row, Garbage}

LEMMA PlacesAfter ==
  ASSUME NEW S, NEW rows \in Seq(S), NEW rows2 \in Seq(S), NEW row, Grown(rows, rows2, row)
  PROVE  /\ \A i \in DOMAIN rows2 : rows2[i] # Garbage =>
              (i \in DOMAIN rows /\ rows2[i] = rows[i]) \/ (i = Len(rows) + 1 /\ i \notin DOMAIN rows /\ rows2[i] = row)
         /\ Len(rows) \in Nat /\ DOMAIN rows = 1 .. Len(rows)
<1>1. Len(rows) \in Nat /\ Len(rows2) \in Nat /\ DOMAIN rows = 1 .. Len(rows) /\ DOMAIN rows2 = 1 .. Len(rows2)
  OBVIOUS
<1>2. ASSUME NEW i \in 1 .. Len(rows2), rows2[i] # Garbage
      PROVE  \/ i \in 1 .. Len(rows) /\ rows2[i] = rows[i]
             \/ i = Len(rows) + 1 /\ i \notin 1 .. Len(rows) /\ rows2[i] = row
  <2> DEFINE n == Len(rows)
  <2>1. IF i <= n THEN rows2[i] \in {rows[i], Garbage} ELSE rows2[i] \in {row, Garbage}
    BY DEF Grown
  <2>2. n \in Nat /\ i \in Nat \ {0} /\ (i <= n \/ i = n + 1)
    <3> DEFINE m == Len(rows2)
    <3>1. (m = n \/ m = n + 1) /\ n \in Nat /\ i \in 1 .. m
      BY <1>1 DEF Grown
    <3> HIDE DEF n, m
    <3>2. QED
      BY <3>1
  <2> HIDE DEF n
  <2>3. CASE i <= n
    <3>1. i \in 1 .. n /\ rows2[i] = rows[i]
      BY <1>2, <2>1, <2>2, <2>3
    <3>2. QED
      BY <3>1 DEF n
  <2>4. CASE ~ (i <= n)
    <3>1. i = n + 1 /\ i \notin 1 .. n /\ rows2[i] = row
      BY <1>2, <2>1, <2>2, <2>4
    <3>2. QED
      BY <3>1 DEF n
  <2>5. QED
    BY <2>3, <2>4
<1>3. QED
  BY <1>1, <1>2

LEMMA EventGrown ==
  ASSUME NEW S, NEW rows \in Seq(S), NEW rows2 \in Seq(S), NEW row, Grown(rows, rows2, row),
         Apart(rows), row \notin Real(rows)
  PROVE  Apart(rows2) /\ Real(rows2) \subseteq Real(rows) \cup {row}
<1>1. \A i \in DOMAIN rows2 : rows2[i] # Garbage =>
        (i \in DOMAIN rows /\ rows2[i] = rows[i]) \/ (i = Len(rows) + 1 /\ i \notin DOMAIN rows /\ rows2[i] = row)
  BY PlacesAfter
<1>2. \A i \in DOMAIN rows : rows[i] # Garbage => rows[i] # row
  BY DEF Real, ToSet
<1>3. QED
  BY <1>1, <1>2 DEF Apart, Real, ToSet

LEMMA PriceGrown ==
  ASSUME NEW S, NEW rows \in Seq(S), NEW rows2 \in Seq(S), NEW row, Grown(rows, rows2, row),
         NeverWorse(rows), row.slot \notin Full(rows)
  PROVE  NeverWorse(rows2) /\ Full(rows2) \subseteq Full(rows) \cup {row.slot}
<1>1. /\ \A i \in DOMAIN rows2 : rows2[i] # Garbage =>
           (i \in DOMAIN rows /\ rows2[i] = rows[i]) \/ (i = Len(rows) + 1 /\ i \notin DOMAIN rows /\ rows2[i] = row)
      /\ Len(rows) \in Nat /\ DOMAIN rows = 1 .. Len(rows)
  BY PlacesAfter
<1>2. \A i \in DOMAIN rows : rows[i] # Garbage /\ rows[i].full => rows[i].slot \in Full(rows)
  BY DEF Full, Real, ToSet
<1>3. ASSUME NEW i \in DOMAIN rows2, NEW k \in DOMAIN rows2, i < k, rows2[i] # Garbage, rows2[k] # Garbage,
             rows2[i].slot = rows2[k].slot, rows2[i].full
      PROVE  rows2[k].full
  <2>1. CASE i \in DOMAIN rows /\ k \in DOMAIN rows
    BY <1>1, <1>3, <2>1 DEF NeverWorse
  <2>2. CASE i \in DOMAIN rows /\ k \notin DOMAIN rows
    BY <1>1, <1>2, <1>3, <2>2
  <2>3. CASE i \notin DOMAIN rows
    <3>1. i = Len(rows) + 1 /\ k \in Nat /\ ~ (k \in 1 .. Len(rows)) /\ k # Len(rows) + 1
      BY <1>1, <1>3, <2>3
    <3>2. QED
      BY <1>1, <1>3, <3>1
  <2>4. QED
    BY <2>1, <2>2, <2>3
<1>4. Full(rows2) \subseteq Full(rows) \cup {row.slot}
  <2>1. ASSUME NEW i \in DOMAIN rows2, rows2[i] # Garbage, rows2[i].full
        PROVE  rows2[i].slot \in Full(rows) \cup {row.slot}
    BY <1>1, <1>2, <2>1
  <2>2. QED
    BY <2>1 DEF Full, Real, ToSet
<1>5. QED
  BY <1>3, <1>4 DEF NeverWorse

LEMMA RestOfPlan ==
  ASSUME NEW W, NEW plan \in Seq(W), plan # <<>>, PlannedOnce(plan)
  PROVE  /\ PlannedOnce(Tail(plan))
         /\ plan[1].file = "events" => plan[1].row \notin Planned(Tail(plan), "events")
         /\ plan[1].file = "prices" => \A r \in Planned(Tail(plan), "prices") : r.slot # plan[1].row.slot
<1>1. \A i \in DOMAIN Tail(plan) : i \in Nat /\ i + 1 \in DOMAIN plan /\ i + 1 # 1 /\ Tail(plan)[i] = plan[i + 1]
  BY TailOfPlan
<1>2. 1 \in DOMAIN plan
  BY TailOfPlan
<1>3. PlannedOnce(Tail(plan))
  <2>1. SUFFICES ASSUME NEW i \in DOMAIN Tail(plan), NEW k \in DOMAIN Tail(plan),
                        Tail(plan)[i].file = Tail(plan)[k].file, i # k
                 PROVE  /\ Tail(plan)[i].file = "events" => Tail(plan)[i].row # Tail(plan)[k].row
                        /\ Tail(plan)[i].file = "prices" => Tail(plan)[i].row.slot # Tail(plan)[k].row.slot
    BY DEF PlannedOnce
  <2>2. i + 1 \in DOMAIN plan /\ k + 1 \in DOMAIN plan /\ i + 1 # k + 1
    BY <1>1, <2>1
  <2>3. QED
    BY <1>1, <2>1, <2>2 DEF PlannedOnce
<1>4. ASSUME NEW i \in DOMAIN Tail(plan), Tail(plan)[i].file = plan[1].file
      PROVE  /\ plan[1].file = "events" => plan[1].row # Tail(plan)[i].row
             /\ plan[1].file = "prices" => Tail(plan)[i].row.slot # plan[1].row.slot
  BY <1>1, <1>2, <1>4 DEF PlannedOnce
<1>5. QED
  BY <1>3, <1>4 DEF Planned

\* The files after a write to one of them.
LEMMA DiskAfter ==
  ASSUME NEW j \in Jobs, NEW s \in ShardsOf(j), NEW d, DiskShape(j, s, d), NEW w \in WritesOf(j, s),
         NEW f \in Interrupted(d[w.file], w.row)
  PROVE  /\ w.file \in Files
         /\ [d EXCEPT ![w.file] = f][w.file] = f
         /\ \A name \in Files \ {w.file} : [d EXCEPT ![w.file] = f][name] = d[name]
         /\ DiskShape(j, s, [d EXCEPT ![w.file] = f])
         /\ Grown(AllLines(d[w.file]), AllLines(f), w.row)
<1> DEFINE d2 == [d EXCEPT ![w.file] = f]
<1>1. w.file \in Files /\ DOMAIN d = Files
  BY DEF WritesOf, Files, DiskShape
<1>2. d2[w.file] = f /\ DOMAIN d2 = Files /\ \A name \in Files \ {w.file} : d2[name] = d[name]
  BY <1>1
<1>3. "events" \in Files /\ "prices" \in Files /\ "candles" \in Files /\ "checkpoint" \in Files
  BY DEF Files
<1> HIDE DEF d2
<1>4. ASSUME NEW S, d[w.file] \in FilesOf(S \cup {Garbage}), w.row \in S, NoTail \notin S \cup {Garbage}
      PROVE  f \in FilesOf(S \cup {Garbage}) /\ Grown(AllLines(d[w.file]), AllLines(f), w.row)
  <2> DEFINE old == d[w.file]
             row == w.row
  <2>1. old \in FilesOf(S \cup {Garbage}) /\ row \in S /\ f \in Interrupted(old, row)
    BY <1>4
  <2> HIDE DEF old, row
  <2>2. /\ f \in FilesOf(S \cup {Garbage})
        /\ Len(AllLines(f)) \in {Len(AllLines(old)), Len(AllLines(old)) + 1}
        /\ \A i \in 1 .. Len(AllLines(f)) :
             IF i <= Len(AllLines(old)) THEN AllLines(f)[i] \in {AllLines(old)[i], Garbage}
             ELSE AllLines(f)[i] \in {row, Garbage}
    BY <1>4, <2>1, RowsAfter
  <2>3. QED
    BY <2>2 DEF Grown, old, row
<1>5. CASE w.file = "events"
  <2>1. w.row \in AllOf(j, s) /\ d[w.file] \in FilesOf(AllOf(j, s) \cup {Garbage}) /\ NoTail \notin AllOf(j, s) \cup {Garbage}
    BY <1>5, RowIsReal DEF WritesOf, DiskShape
  <2>2. f \in FilesOf(AllOf(j, s) \cup {Garbage}) /\ Grown(AllLines(d[w.file]), AllLines(f), w.row)
    BY <1>4, <2>1
  <2>3. DiskShape(j, s, d2)
    BY <1>2, <1>3, <1>5, <2>2 DEF DiskShape
  <2>4. QED
    BY <1>1, <1>2, <2>2, <2>3 DEF d2
<1>6. CASE w.file = "prices"
  <2>1. w.row \in PricesOf(j, s) /\ d[w.file] \in FilesOf(PricesOf(j, s) \cup {Garbage})
        /\ NoTail \notin PricesOf(j, s) \cup {Garbage}
    BY <1>6, RowIsReal DEF WritesOf, DiskShape
  <2>2. f \in FilesOf(PricesOf(j, s) \cup {Garbage}) /\ Grown(AllLines(d[w.file]), AllLines(f), w.row)
    BY <1>4, <2>1
  <2>3. DiskShape(j, s, d2)
    BY <1>2, <1>3, <1>6, <2>2 DEF DiskShape
  <2>4. QED
    BY <1>1, <1>2, <2>2, <2>3 DEF d2
<1>7. CASE w.file = "candles"
  <2>1. w.row \in Int /\ d[w.file] \in FilesOf(Int \cup {Garbage}) /\ NoTail \notin Int \cup {Garbage}
    BY <1>7, RowIsReal DEF WritesOf, DiskShape
  <2>2. f \in FilesOf(Int \cup {Garbage}) /\ Grown(AllLines(d[w.file]), AllLines(f), w.row)
    BY <1>4, <2>1
  <2>3. DiskShape(j, s, d2)
    BY <1>2, <1>3, <1>7, <2>2 DEF DiskShape
  <2>4. QED
    BY <1>1, <1>2, <2>2, <2>3 DEF d2
<1>8. CASE w.file = "checkpoint"
  <2>1. w.row \in ChecksOf(j, s) /\ d[w.file] \in FilesOf(ChecksOf(j, s) \cup {Garbage})
        /\ NoTail \notin ChecksOf(j, s) \cup {Garbage}
    BY <1>8, RowIsReal DEF WritesOf, DiskShape
  <2>2. f \in FilesOf(ChecksOf(j, s) \cup {Garbage}) /\ Grown(AllLines(d[w.file]), AllLines(f), w.row)
    BY <1>4, <2>1
  <2>3. DiskShape(j, s, d2)
    BY <1>2, <1>3, <1>8, <2>2 DEF DiskShape
  <2>4. QED
    BY <1>1, <1>2, <2>2, <2>3 DEF d2
<1>9. QED
  BY <1>1, <1>5, <1>6, <1>7, <1>8 DEF Files

\* The rows of the files are sequences.
LEMMA RowsOfShape ==
  ASSUME NEW j \in Jobs, NEW s \in ShardsOf(j), NEW d, DiskShape(j, s, d)
  PROVE  /\ AllLines(d["events"]) \in Seq(AllOf(j, s) \cup {Garbage})
         /\ AllLines(d["prices"]) \in Seq(PricesOf(j, s) \cup {Garbage})
         /\ AllLines(d["candles"]) \in Seq(Int \cup {Garbage})
         /\ AllLines(d["checkpoint"]) \in Seq(ChecksOf(j, s) \cup {Garbage})
<1>1. ASSUME NEW T, NEW g \in FilesOf(T), NoTail \notin T
      PROVE  AllLines(g) \in Seq(T)
  <2>1. g.lines \in Seq(T) /\ g.tail \in T \cup {NoTail}
    BY DEF FilesOf
  <2>2. QED
    BY <1>1, <2>1 DEF AllLines
<1>2. NoTail \notin AllOf(j, s) \cup {Garbage} /\ NoTail \notin PricesOf(j, s) \cup {Garbage}
      /\ NoTail \notin Int \cup {Garbage} /\ NoTail \notin ChecksOf(j, s) \cup {Garbage}
  BY RowIsReal
<1>3. QED
  BY <1>1, <1>2 DEF DiskShape

LEMMA WriteKept ==
  ASSUME NEW j \in Jobs, NEW s \in ShardsOf(j), NEW d, NEW plan, NEW step, NEW known, NEW cur, NEW had, NEW q, NEW min,
         NEW seen, ShardKept(j, s, d, plan, step, known, cur, had, q, min, seen), plan # <<>>,
         NEW f \in Interrupted(d[plan[1].file], plan[1].row)
  PROVE  ShardKept(j, s, [d EXCEPT ![plan[1].file] = f], Tail(plan), step, known, cur, had, q, min, seen)
<1> DEFINE w == plan[1]
           d2 == [d EXCEPT ![w.file] = f]
<1>1. DiskShape(j, s, d) /\ plan \in Seq(WritesOf(j, s)) /\ PlannedOnce(plan)
  BY DEF ShardKept
<1>2. w \in WritesOf(j, s) /\ Tail(plan) \in Seq(WritesOf(j, s))
  BY <1>1, TailOfPlan
<1>3. /\ w.file \in Files /\ d2[w.file] = f /\ \A name \in Files \ {w.file} : d2[name] = d[name]
      /\ DiskShape(j, s, d2) /\ Grown(AllLines(d[w.file]), AllLines(f), w.row)
  <2> HIDE DEF w
  <2>1. f \in Interrupted(d[w.file], w.row)
    BY DEF w
  <2>2. QED
    BY <1>1, <1>2, <2>1, DiskAfter
<1>4. /\ PlannedOnce(Tail(plan))
      /\ w.file = "events" => w.row \notin Planned(Tail(plan), "events")
      /\ w.file = "prices" => \A r \in Planned(Tail(plan), "prices") : r.slot # w.row.slot
  BY <1>1, RestOfPlan
<1>5. \A name : Planned(plan, name) = Planned(Tail(plan), name) \cup (IF w.file = name THEN {w.row} ELSE {})
  BY <1>1, PlannedSplit
<1>6. "events" \in Files /\ "prices" \in Files
  BY DEF Files
<1>7. /\ MemoryShape(j, s, step, known, cur, had, q, min) /\ seen \subseteq AllOf(j, s)
      /\ Apart(AllLines(d["events"])) /\ NeverWorse(AllLines(d["prices"]))
      /\ NewEvents(AllLines(d["events"]), plan, step, known) /\ Unasked(AllLines(d["prices"]), plan, q)
  BY DEF ShardKept
<1> HIDE DEF w, d2
<1> SUFFICES ShardKept(j, s, d2, Tail(plan), step, known, cur, had, q, min, seen)
  BY DEF w, d2
<1>8. Apart(AllLines(d2["events"])) /\ NewEvents(AllLines(d2["events"]), Tail(plan), step, known)
  <2>1. CASE w.file = "events"
    <3> DEFINE rows == AllLines(d["events"])
               rows2 == AllLines(d2["events"])
    <3>1. Grown(rows, rows2, w.row)
      BY <1>3, <2>1
    <3>2. rows \in Seq(AllOf(j, s) \cup {Garbage}) /\ rows2 \in Seq(AllOf(j, s) \cup {Garbage})
      BY <1>1, <1>3, RowsOfShape
    <3>3. w.row \in Planned(plan, "events") /\ w.row \notin Real(rows) /\ w.row \in known
      BY <1>5, <1>7, <2>1 DEF NewEvents
    <3>4. Apart(rows) /\ NewEvents(rows, plan, step, known)
      BY <1>7
    <3> HIDE DEF rows, rows2
    <3>5. Apart(rows2) /\ Real(rows2) \subseteq Real(rows) \cup {w.row}
      BY <3>1, <3>2, <3>3, <3>4, EventGrown
    <3>6. NewEvents(rows2, Tail(plan), step, known)
      BY <1>4, <1>5, <2>1, <3>3, <3>4, <3>5 DEF NewEvents
    <3>7. QED
      BY <3>5, <3>6 DEF rows2
  <2>2. CASE w.file # "events"
    <3>1. d2["events"] = d["events"] /\ Planned(Tail(plan), "events") = Planned(plan, "events")
      BY <1>3, <1>5, <1>6, <2>2
    <3>2. QED
      BY <1>7, <3>1 DEF NewEvents
  <2>3. QED
    BY <2>1, <2>2
<1>9. NeverWorse(AllLines(d2["prices"])) /\ Unasked(AllLines(d2["prices"]), Tail(plan), q)
  <2>1. CASE w.file = "prices"
    <3> DEFINE rows == AllLines(d["prices"])
               rows2 == AllLines(d2["prices"])
    <3>1. Grown(rows, rows2, w.row)
      BY <1>3, <2>1
    <3>2. rows \in Seq(PricesOf(j, s) \cup {Garbage}) /\ rows2 \in Seq(PricesOf(j, s) \cup {Garbage})
      BY <1>1, <1>3, RowsOfShape
    <3>3. w.row \in Planned(plan, "prices") /\ w.row.slot \notin Full(rows) /\ \A k \in DOMAIN q : w.row.slot \notin q[k]
      BY <1>5, <1>7, <2>1 DEF Unasked
    <3>4. NeverWorse(rows) /\ Unasked(rows, plan, q)
      BY <1>7
    <3> HIDE DEF rows, rows2
    <3>5. NeverWorse(rows2) /\ Full(rows2) \subseteq Full(rows) \cup {w.row.slot}
      BY <3>1, <3>2, <3>3, <3>4, PriceGrown
    <3>6. Unasked(rows2, Tail(plan), q)
      <4>1. \A r \in Planned(Tail(plan), "prices") : r \in Planned(plan, "prices") /\ r.slot # w.row.slot
        BY <1>4, <1>5, <2>1
      <4>2. \A r \in Planned(Tail(plan), "prices") : r.slot \notin Full(rows2) /\ \A k \in DOMAIN q : r.slot \notin q[k]
        BY <3>4, <3>5, <4>1 DEF Unasked
      <4>3. \A k \in DOMAIN q : q[k] \cap Full(rows2) = {}
        BY <3>3, <3>4, <3>5 DEF Unasked
      <4>4. QED
        BY <3>4, <4>2, <4>3 DEF Unasked
    <3>7. QED
      BY <3>5, <3>6 DEF rows2
  <2>2. CASE w.file # "prices"
    <3>1. d2["prices"] = d["prices"] /\ Planned(Tail(plan), "prices") = Planned(plan, "prices")
      BY <1>3, <1>5, <1>6, <2>2
    <3>2. QED
      BY <1>7, <3>1 DEF Unasked
  <2>3. QED
    BY <2>1, <2>2
<1>10. QED
  BY <1>2, <1>3, <1>4, <1>7, <1>8, <1>9 DEF ShardKept

----------------------------------------------------------------------------
(* A line is written while none was torn. *)

LEMMA WholeWritten ==
  ASSUME NEW S, NEW old \in FilesOf(S \cup {Garbage}), NEW row \in S, IsWhole(old), Garbage \notin S
  PROVE  /\ IsWhole(Written(old, row)) /\ AllLines(old) \in Seq(S \cup {Garbage})
         /\ AllLines(Written(old, row)) = Append(AllLines(old), row)
<1>1. old.tail = NoTail /\ old.lines \in Seq(S \cup {Garbage}) /\ \A i \in DOMAIN old.lines : old.lines[i] # Garbage
  BY DEF IsWhole, FilesOf
<1> DEFINE g == Written(old, row)
<1>2. g.tail = NoTail /\ g.lines = Append(old.lines, row)
  BY <1>1 DEF Written
<1>3. AllLines(old) = old.lines /\ AllLines(g) = g.lines
  BY <1>1, <1>2 DEF AllLines
<1>4. IsWhole(g)
  <2> DEFINE L == old.lines
             T == S \cup {Garbage}
  <2>1. L \in Seq(T) /\ row \in T /\ row # Garbage /\ \A i \in DOMAIN L : L[i] # Garbage
    BY <1>1
  <2> HIDE DEF L, T
  <2>2. \A i \in DOMAIN Append(L, row) : Append(L, row)[i] # Garbage
    BY <2>1
  <2> HIDE DEF g
  <2>3. QED
    BY <1>2, <2>2 DEF IsWhole, L
<1>5. QED
  BY <1>1, <1>2, <1>3, <1>4

LEMMA RealAppend ==
  ASSUME NEW S, NEW rows \in Seq(S), NEW row \in S, row # Garbage
  PROVE  Real(Append(rows, row)) = Real(rows) \cup {row}
<1>1. ToSet(Append(rows, row)) = ToSet(rows) \cup {row}
  BY DEF ToSet
<1>2. QED
  BY <1>1 DEF Real

LEMMA RestOfEvents ==
  ASSUME NEW W, NEW plan \in Seq(W), plan # <<>>, EventsFirst(plan)
  PROVE  /\ EventsFirst(Tail(plan))
         /\ IsCatalog(plan[1]) => Planned(Tail(plan), "events") = {} /\ Catalogs(Planned(Tail(plan), "checkpoint")) = {}
<1>1. \A i \in DOMAIN Tail(plan) : i \in Nat /\ i + 1 \in DOMAIN plan /\ i + 1 # 1 /\ Tail(plan)[i] = plan[i + 1]
  BY TailOfPlan
<1>2. 1 \in DOMAIN plan
  BY TailOfPlan
<1>3. EventsFirst(Tail(plan))
  <2>1. SUFFICES ASSUME NEW i \in DOMAIN Tail(plan), NEW k \in DOMAIN Tail(plan), IsCatalog(Tail(plan)[k]),
                        Tail(plan)[i].file = "events" \/ IsCatalog(Tail(plan)[i])
                 PROVE  i <= k
    BY DEF EventsFirst
  <2>2. i + 1 <= k + 1 /\ i \in Nat /\ k \in Nat
    BY <1>1, <2>1 DEF EventsFirst
  <2>3. QED
    BY <2>2
<1>4. ASSUME IsCatalog(plan[1]), NEW i \in DOMAIN Tail(plan)
      PROVE  Tail(plan)[i].file # "events" /\ ~ IsCatalog(Tail(plan)[i])
  <2>1. i + 1 \in DOMAIN plan /\ Tail(plan)[i] = plan[i + 1] /\ i \in Nat /\ i # 0 /\ ~ (i + 1 <= 1)
    BY <1>1
  <2>2. QED
    BY <1>2, <1>4, <2>1 DEF EventsFirst
<1>5. QED
  BY <1>3, <1>4 DEF Planned, Catalogs, IsCatalog

LEMMA DoneAppend ==
  ASSUME NEW S, NEW rows \in Seq(S), NEW row, DoneIsLast(rows), Garbage \notin S,
         row.phase = "catalog" => ~ Complete(Real(rows))
  PROVE  DoneIsLast(Append(rows, row))
<1> DEFINE L == Append(rows, row)
<1>1. /\ Len(rows) \in Nat /\ DOMAIN rows = 1 .. Len(rows) /\ DOMAIN L = 1 .. Len(rows) + 1
      /\ L[Len(rows) + 1] = row /\ \A i \in 1 .. Len(rows) : L[i] = rows[i]
  OBVIOUS
<1> HIDE DEF L
<1>2. \A i \in DOMAIN rows : rows[i].phase = "catalog" /\ rows[i].done => Complete(Real(rows))
  BY DEF Complete, Catalogs, Real, ToSet
<1>3. ASSUME NEW i \in DOMAIN L, NEW k \in DOMAIN L, L[i].phase = "catalog", L[i].done, L[k].phase = "catalog"
      PROVE  k <= i
  <2>1. CASE i = Len(rows) + 1
    BY <1>1, <2>1
  <2>2. CASE i # Len(rows) + 1 /\ k # Len(rows) + 1
    <3>1. i \in 1 .. Len(rows) /\ k \in 1 .. Len(rows)
      BY <1>1, <2>2
    <3>2. QED
      BY <1>1, <1>3, <3>1 DEF DoneIsLast
  <2>3. CASE i # Len(rows) + 1 /\ k = Len(rows) + 1
    <3>1. i \in 1 .. Len(rows)
      BY <1>1, <2>3
    <3>2. QED
      BY <1>1, <1>2, <1>3, <2>3, <3>1
  <2>4. QED
    BY <2>1, <2>2, <2>3
<1>4. QED
  BY <1>3 DEF DoneIsLast, L

\* What moves from the plan to the disk.
LEMMA WriteTrue ==
  ASSUME NEW j \in Jobs, NEW s \in ShardsOf(j), NEW d, NEW plan, NEW step, NEW known, NEW cur, NEW had, NEW q,
         NEW seen, DiskShape(j, s, d), plan \in Seq(WritesOf(j, s)), plan # <<>>,
         ShardTrue(j, s, d, plan, step, known, cur, had, q, seen)
  PROVE  ShardTrue(j, s, [d EXCEPT ![plan[1].file] = Written(d[plan[1].file], plan[1].row)], Tail(plan), step, known,
                   cur, had, q, seen)
<1> DEFINE w == plan[1]
           f == Written(d[w.file], w.row)
           d2 == [d EXCEPT ![w.file] = f]
<1>1. w \in WritesOf(j, s)
  BY TailOfPlan
<1>2. w.file \in Files /\ d2[w.file] = f /\ (\A name \in Files \ {w.file} : d2[name] = d[name]) /\ DiskShape(j, s, d2)
  <2> HIDE DEF w
  <2>1. f \in Interrupted(d[w.file], w.row)
    BY DEF Interrupted
  <2> HIDE DEF f
  <2>2. QED
    BY <1>1, <2>1, DiskAfter
<1>3. \A name : Planned(plan, name) = Planned(Tail(plan), name) \cup (IF w.file = name THEN {w.row} ELSE {})
  BY PlannedSplit
<1>4. /\ \A name \in Files : IsWhole(d[name])
      /\ DoneIsLast(AllLines(d["checkpoint"])) /\ EventsFirst(plan)
  BY DEF ShardTrue
<1>5. /\ EventsFirst(Tail(plan))
      /\ IsCatalog(w) => Planned(Tail(plan), "events") = {} /\ Catalogs(Planned(Tail(plan), "checkpoint")) = {}
  BY <1>4, RestOfEvents
<1>6. /\ Garbage \notin AllOf(j, s) /\ Garbage \notin PricesOf(j, s) /\ Garbage \notin ChecksOf(j, s) /\ Garbage \notin Int
  BY RowIsReal
<1>7. /\ IsWhole(f) /\ AllLines(f) = Append(AllLines(d[w.file]), w.row)
      /\ Real(AllLines(f)) = Real(AllLines(d[w.file])) \cup {w.row}
  <2>1. ASSUME NEW S, d[w.file] \in FilesOf(S \cup {Garbage}), w.row \in S, Garbage \notin S
        PROVE  /\ IsWhole(f) /\ AllLines(f) = Append(AllLines(d[w.file]), w.row)
               /\ Real(AllLines(f)) = Real(AllLines(d[w.file])) \cup {w.row}
    <3> DEFINE old == d[w.file]
               row == w.row
    <3>1. old \in FilesOf(S \cup {Garbage}) /\ row \in S /\ IsWhole(old) /\ row # Garbage /\ row \in S \cup {Garbage}
      BY <1>2, <1>4, <2>1
    <3> HIDE DEF old, row
    <3>2. IsWhole(Written(old, row)) /\ AllLines(Written(old, row)) = Append(AllLines(old), row)
          /\ AllLines(old) \in Seq(S \cup {Garbage})
      BY <2>1, <3>1, WholeWritten
    <3>3. Real(Append(AllLines(old), row)) = Real(AllLines(old)) \cup {row}
      BY <3>1, <3>2, RealAppend
    <3>4. QED
      BY <3>2, <3>3 DEF old, row
  <2> HIDE DEF w, f
  <2>2. CASE w.file = "events"
    BY <1>1, <1>6, <2>1, <2>2 DEF WritesOf, DiskShape
  <2>3. CASE w.file = "prices"
    BY <1>1, <1>6, <2>1, <2>3 DEF WritesOf, DiskShape
  <2>4. CASE w.file = "candles"
    BY <1>1, <1>6, <2>1, <2>4 DEF WritesOf, DiskShape
  <2>5. CASE w.file = "checkpoint"
    BY <1>1, <1>6, <2>1, <2>5 DEF WritesOf, DiskShape
  <2>6. QED
    BY <1>2, <2>2, <2>3, <2>4, <2>5 DEF Files
<1> DEFINE e == Real(AllLines(d["events"]))
           c == Real(AllLines(d["checkpoint"]))
           p == Real(AllLines(d["prices"]))
           e2 == Real(AllLines(d2["events"]))
           c2 == Real(AllLines(d2["checkpoint"]))
           p2 == Real(AllLines(d2["prices"]))
           pe == Planned(plan, "events")
           pk == Planned(plan, "checkpoint")
           pp == Planned(plan, "prices")
           pe2 == Planned(Tail(plan), "events")
           pk2 == Planned(Tail(plan), "checkpoint")
           pp2 == Planned(Tail(plan), "prices")
<1>8. CatalogTrue(j, s, e, c, pe, pk, step, known, cur) /\ PricesTrue(e, c, p, pk, pp, had, q, seen)
  BY DEF ShardTrue
<1>9. "events" \in Files /\ "prices" \in Files /\ "candles" \in Files /\ "checkpoint" \in Files
  BY DEF Files
<1>10. /\ e2 = IF w.file = "events" THEN e \cup {w.row} ELSE e
       /\ p2 = IF w.file = "prices" THEN p \cup {w.row} ELSE p
       /\ c2 = IF w.file = "checkpoint" THEN c \cup {w.row} ELSE c
  <2> HIDE DEF w, f, d2
  <2>1. QED
    BY <1>2, <1>7, <1>9
<1>11. /\ pe = pe2 \cup (IF w.file = "events" THEN {w.row} ELSE {})
       /\ pp = pp2 \cup (IF w.file = "prices" THEN {w.row} ELSE {})
       /\ pk = pk2 \cup (IF w.file = "checkpoint" THEN {w.row} ELSE {})
  BY <1>3
<1>12. \A name \in Files : IsWhole(d2[name])
  <2> HIDE DEF w, f, d2
  <2>1. QED
    BY <1>2, <1>4, <1>7
<1> DEFINE rows == AllLines(d["checkpoint"])
<1>13. IsCatalog(w) <=> w.file = "checkpoint" /\ w.row.phase = "catalog"
  BY DEF IsCatalog
<1>14. IsCatalog(w) => pe2 = {} /\ Catalogs(pk2) = {}
  BY <1>5
<1>15. rows \in Seq(ChecksOf(j, s) \cup {Garbage}) /\ DoneIsLast(rows) /\ c = Real(rows)
  BY <1>4, RowsOfShape
<1>16. AllLines(d2["checkpoint"]) = IF w.file = "checkpoint" THEN Append(rows, w.row) ELSE rows
  <2> HIDE DEF w, f, d2
  <2>1. QED
    BY <1>2, <1>7, <1>9
<1>17. \A i \in DOMAIN rows : rows[i] \in ChecksOf(j, s)
  <2>1. IsWhole(d["checkpoint"])
    BY <1>4, <1>9
  <2>2. rows = d["checkpoint"].lines
    BY <2>1 DEF IsWhole, AllLines
  <2>3. \A i \in DOMAIN rows : rows[i] # Garbage
    BY <2>1, <2>2 DEF IsWhole
  <2>4. QED
    BY <1>15, <2>3
<1>18. rows \in Seq(ChecksOf(j, s))
  <2> DEFINE S == ChecksOf(j, s)
  <2>1. rows \in Seq(S \cup {Garbage}) /\ \A i \in DOMAIN rows : rows[i] \in S
    BY <1>15, <1>17
  <2> HIDE DEF rows, S
  <2>2. rows \in Seq(S)
    BY <2>1
  <2>3. QED
    BY <2>2 DEF S
<1>19. QED
  <2> HIDE DEF w, f, d2, rows, e, c, p, e2, c2, p2, pe, pk, pp, pe2, pk2, pp2
  <2>1. SUFFICES /\ DoneIsLast(AllLines(d2["checkpoint"]))
                 /\ CatalogTrue(j, s, e2, c2, pe2, pk2, step, known, cur) /\ PricesTrue(e2, c2, p2, pk2, pp2, had, q, seen)
    BY <1>5, <1>12 DEF ShardTrue, w, f, d2, rows, e, c, p, e2, c2, p2, pe, pk, pp, pe2, pk2, pp2
  <2>2. w.file \in {"events", "prices", "candles", "checkpoint"}
    BY <1>2 DEF Files
  <2>3. CASE w.file = "events"
    <3>1. e2 = e \cup {w.row} /\ pe = pe2 \cup {w.row} /\ c2 = c /\ pk2 = pk /\ p2 = p /\ pp2 = pp
      BY <1>10, <1>11, <2>3
    <3>2. ~ Complete(c)
      BY <1>8, <3>1 DEF CatalogTrue
    <3>3. CatalogTrue(j, s, e2, c2, pe2, pk2, step, known, cur)
      BY <1>8, <3>1, <3>2 DEF CatalogTrue
    <3>4. PricesTrue(e2, c2, p2, pk2, pp2, had, q, seen)
      BY <1>8, <3>1, <3>2 DEF PricesTrue
    <3>5. QED
      BY <1>15, <1>16, <2>3, <3>3, <3>4
  <2>4. CASE w.file = "prices"
    <3>1. e2 = e /\ pe = pe2 /\ c2 = c /\ pk2 = pk /\ p2 = p \cup {w.row} /\ pp = pp2 \cup {w.row}
      BY <1>10, <1>11, <2>4
    <3>2. PricesTrue(e2, c2, p2, pk2, pp2, had, q, seen)
      <4>1. p2 \cup pp2 = p \cup pp
        BY <3>1
      <4>2. QED
        BY <1>8, <3>1, <4>1 DEF PricesTrue
    <3>3. QED
      BY <1>8, <1>15, <1>16, <2>4, <3>1, <3>2
  <2>5. CASE w.file = "candles"
    <3>1. e2 = e /\ pe = pe2 /\ c2 = c /\ pk2 = pk /\ p2 = p /\ pp = pp2
      BY <1>10, <1>11, <2>5
    <3>2. QED
      BY <1>8, <1>15, <1>16, <2>5, <3>1
  <2>6. CASE w.file = "checkpoint"
    <3>1. e2 = e /\ pe = pe2 /\ c2 = c \cup {w.row} /\ pk = pk2 \cup {w.row} /\ p2 = p /\ pp = pp2
      BY <1>10, <1>11, <2>6
    <3>2. PricesTrue(e2, c2, p2, pk2, pp2, had, q, seen)
      <4>1. c2 \cup pk2 = c \cup pk /\ (Complete(c) => Complete(c2))
        BY <3>1 DEF Complete, Catalogs
      <4>2. QED
        BY <1>8, <3>1, <4>1 DEF PricesTrue
    <3>3. CASE w.row.phase = "catalog"
      <4>1. pe2 = {} /\ Catalogs(pk2) = {} /\ w.row \in Catalogs(pk)
        BY <1>13, <1>14, <2>6, <3>1, <3>3 DEF Catalogs
      <4>2. ~ Complete(c)
        BY <1>8, <4>1 DEF CatalogTrue
      <4>3. DoneIsLast(Append(rows, w.row))
        BY <1>6, <1>15, <1>18, <4>2, DoneAppend
      <4>4. Catalogs(c2) = Catalogs(c) \cup {w.row} /\ Catalogs(pk) = {w.row}
        BY <3>1, <3>3, <4>1 DEF Catalogs
      <4>5. (Complete(c2) <=> w.row.done) /\ (Complete(pk) <=> w.row.done) /\ ~ Complete(pk2)
        BY <4>1, <4>2, <4>4 DEF Complete
      <4>6. CatalogTrue(j, s, e2, c2, pe2, pk2, step, known, cur)
        BY <1>8, <3>1, <4>1, <4>2, <4>4, <4>5 DEF CatalogTrue
      <4>7. QED
        BY <1>16, <2>6, <3>2, <4>3, <4>6
    <3>4. CASE w.row.phase # "catalog"
      <4>1. Catalogs(c2) = Catalogs(c) /\ Catalogs(pk) = Catalogs(pk2)
        BY <3>1, <3>4 DEF Catalogs
      <4>2. DoneIsLast(Append(rows, w.row))
        BY <1>6, <1>15, <1>18, <3>4, DoneAppend
      <4>3. CatalogTrue(j, s, e2, c2, pe2, pk2, step, known, cur)
        BY <1>8, <3>1, <4>1 DEF CatalogTrue, Complete
      <4>4. QED
        BY <1>16, <2>6, <3>2, <4>2, <4>3
    <3>5. QED
      BY <3>3, <3>4
  <2>7. QED
    BY <2>2, <2>3, <2>4, <2>5, <2>6

----------------------------------------------------------------------------
(* The steps of a shard: those that only end, begin or write. *)

Others(s) ==
  /\ job' = job /\ DOMAIN disk' = Shards /\ DOMAIN config' = Shards /\ DOMAIN observations' = Shards
  /\ DOMAIN stage' = Shards /\ DOMAIN script' = Shards /\ DOMAIN existing' = Shards /\ DOMAIN cursor' = Shards
  /\ DOMAIN completed' = Shards /\ DOMAIN queue' = Shards /\ DOMAIN minute' = Shards
  /\ \A t \in Shards \ {s} :
       /\ disk'[t] = disk[t] /\ config'[t] = config[t] /\ observations'[t] = observations[t] /\ stage'[t] = stage[t]
       /\ script'[t] = script[t] /\ existing'[t] = existing[t] /\ cursor'[t] = cursor[t]
       /\ completed'[t] = completed[t] /\ queue'[t] = queue[t] /\ minute'[t] = minute[t]

LEMMA Framed ==
  ASSUME DownloadInv, NEW s \in Shards, Others(s), torn' \in torn .. job.maxTorn, config'[s] \in {Null, "written", Garbage},
         ShardKept(job, s, disk'[s], script'[s], stage'[s], existing'[s], cursor'[s], completed'[s], queue'[s],
                   minute'[s], observations'[s]),
         torn' = 0 => ShardTrue(job, s, disk'[s], script'[s], stage'[s], existing'[s], cursor'[s], completed'[s],
                                queue'[s], observations'[s])
  PROVE  DownloadInv'
<1>1. job' = job /\ Shards' = Shards
  BY DEF Others, Shards
<1>2. job \in Jobs /\ torn \in 0 .. job.maxTorn /\ torn' \in 0 .. job.maxTorn /\ (torn' = 0 => torn = 0)
  <2>1. job \in Jobs /\ torn \in 0 .. job.maxTorn
    BY DEF DownloadInv, Tables
  <2>2. job.maxTorn \in Nat
    BY <2>1, ShapeOfJob
  <2>3. QED
    BY <2>1, <2>2
<1>3. Tables'
  <2>1. \A t \in Shards : config'[t] \in {Null, "written", Garbage}
    BY DEF Others, DownloadInv, Tables
  <2>2. QED
    BY <1>1, <1>2, <2>1 DEF Tables, Others
<1>4. ASSUME NEW t \in Shards
      PROVE  Kept(t)' /\ (torn' = 0 => True(t)')
  <2>1. CASE t = s
    BY <1>1, <2>1 DEF Kept, True
  <2>2. CASE t # s
    <3>1. Kept(t) /\ (torn = 0 => True(t))
      BY DEF DownloadInv
    <3>2. /\ disk'[t] = disk[t] /\ observations'[t] = observations[t] /\ stage'[t] = stage[t]
          /\ script'[t] = script[t] /\ existing'[t] = existing[t] /\ cursor'[t] = cursor[t]
          /\ completed'[t] = completed[t] /\ queue'[t] = queue[t] /\ minute'[t] = minute[t]
      BY <2>2 DEF Others
    <3>3. QED
      BY <1>1, <1>2, <3>1, <3>2 DEF Kept, True
  <2>3. QED
    BY <2>1, <2>2
<1>5. QED
  BY <1>1, <1>3, <1>4 DEF DownloadInv

\* What is known of a shard.
LEMMA OfShard ==
  ASSUME DownloadInv, NEW s \in Shards
  PROVE  /\ job \in Jobs /\ s \in ShardsOf(job) /\ job.maxTorn \in Nat /\ torn \in 0 .. job.maxTorn
         /\ DOMAIN disk = Shards /\ DOMAIN config = Shards /\ DOMAIN observations = Shards /\ DOMAIN stage = Shards
         /\ DOMAIN script = Shards /\ DOMAIN existing = Shards /\ DOMAIN cursor = Shards /\ DOMAIN completed = Shards
         /\ DOMAIN queue = Shards /\ DOMAIN minute = Shards /\ config[s] \in {Null, "written", Garbage}
         /\ ShardKept(job, s, disk[s], script[s], stage[s], existing[s], cursor[s], completed[s], queue[s], minute[s],
                      observations[s])
         /\ torn = 0 => ShardTrue(job, s, disk[s], script[s], stage[s], existing[s], cursor[s], completed[s], queue[s],
                                  observations[s])
<1>1. job \in Jobs
  BY DEF DownloadInv, Tables
<1>2. job.maxTorn \in Nat
  BY <1>1, ShapeOfJob
<1>3. QED
  BY <1>1, <1>2 DEF DownloadInv, Tables, Kept, True, ShardsOf, Shards

\* A process that ends leaves the disk: as it was, or with a torn line.
LEMMA EndKeeps ==
  ASSUME DownloadInv, NEW s \in Shards, Ends(s), UNCHANGED <<job, observations>>, torn' \in torn .. job.maxTorn,
         DOMAIN config' = Shards, \A t \in Shards \ {s} : config'[t] = config[t], config'[s] \in {Null, "written", Garbage},
         DOMAIN disk' = Shards, \A t \in Shards \ {s} : disk'[t] = disk[t],
         DiskShape(job, s, disk'[s]), Apart(AllLines(disk'[s]["events"])), NeverWorse(AllLines(disk'[s]["prices"])),
         torn' = 0 => torn = 0 /\ disk'[s] = disk[s]
  PROVE  DownloadInv'
<1> USE OfShard
<1>1. /\ stage'[s] = "down" /\ script'[s] = <<>> /\ existing'[s] = {} /\ cursor'[s] = 0 /\ completed'[s] = {}
      /\ queue'[s] = <<>> /\ minute'[s] = 0 /\ Others(s)
  BY DEF Ends, Goto, Plan, Others
<1>2. AtRest(<<>>, "down", {}, 0, {}, <<>>, 0)
  BY DEF AtRest
<1>3. observations'[s] = observations[s] /\ observations[s] \subseteq AllOf(job, s)
  BY DEF ShardKept
<1>4. ShardKept(job, s, disk'[s], script'[s], stage'[s], existing'[s], cursor'[s], completed'[s], queue'[s],
                minute'[s], observations'[s])
  <2> DEFINE d == disk'[s]
             seen == observations[s]
  <2>1. DiskShape(job, s, d) /\ Apart(AllLines(d["events"])) /\ NeverWorse(AllLines(d["prices"]))
        /\ seen \subseteq AllOf(job, s) /\ job \in Jobs /\ s \in ShardsOf(job)
    BY <1>3
  <2> HIDE DEF d, seen
  <2>2. ShardKept(job, s, d, <<>>, "down", {}, 0, {}, <<>>, 0, seen)
    BY <1>2, <2>1, RestKept
  <2>3. QED
    BY <1>1, <1>3, <2>2 DEF d, seen
<1>5. ASSUME torn' = 0
      PROVE  ShardTrue(job, s, disk'[s], script'[s], stage'[s], existing'[s], cursor'[s], completed'[s],
                       queue'[s], observations'[s])
  <2>1. disk'[s] = disk[s]
        /\ ShardTrue(job, s, disk[s], script[s], stage[s], existing[s], cursor[s], completed[s], queue[s], observations[s])
    BY <1>5
  <2>2. ShardTrue(job, s, disk[s], <<>>, "down", {}, 0, {}, <<>>, observations[s])
    BY <1>2, <2>1, RestTrue
  <2>3. QED
    BY <1>1, <1>3, <2>1, <2>2
<1>6. QED
  BY <1>1, <1>4, <1>5, Framed

\* It is killed, finishes, or is turned away by a torn configuration.
LEMMA EndsWhole ==
  ASSUME DownloadInv, NEW s \in Shards, Ends(s), UNCHANGED <<job, observations, disk, config, torn>>
  PROVE  DownloadInv'
<1> USE OfShard
<1>1. DiskShape(job, s, disk[s]) /\ Apart(AllLines(disk[s]["events"])) /\ NeverWorse(AllLines(disk[s]["prices"]))
  BY DEF ShardKept
<1>2. torn' \in torn .. job.maxTorn
  OBVIOUS
<1>3. QED
  BY <1>1, <1>2, EndKeeps

LEMMA ConfigTornKeeps ==
  ASSUME DownloadInv, NEW s \in Shards, ConfigTorn(s)
  PROVE  DownloadInv'
<1> USE OfShard
<1>1. Ends(s) /\ UNCHANGED <<job, observations, disk>> /\ config' = [config EXCEPT ![s] = Garbage]
      /\ torn < job.maxTorn /\ torn' = torn + 1
  BY DEF ConfigTorn, Tears
<1>2. DiskShape(job, s, disk[s]) /\ Apart(AllLines(disk[s]["events"])) /\ NeverWorse(AllLines(disk[s]["prices"]))
  BY DEF ShardKept
<1>3. torn' \in torn .. job.maxTorn /\ torn' # 0
  BY <1>1
<1>4. DOMAIN config' = Shards /\ (\A t \in Shards \ {s} : config'[t] = config[t]) /\ config'[s] \in {Null, "written", Garbage}
  BY <1>1
<1>5. QED
  BY <1>1, <1>2, <1>3, <1>4, EndKeeps

LEMMA LineTornKeeps ==
  ASSUME DownloadInv, NEW s \in Shards, LineTorn(s)
  PROVE  DownloadInv'
<1> USE OfShard
<1>1. Ends(s) /\ UNCHANGED <<job, observations, config>> /\ script[s] # <<>> /\ torn < job.maxTorn /\ torn' = torn + 1
  BY DEF LineTorn, Tears
<1>2. script[s] \in Seq(WritesOf(job, s))
  BY DEF ShardKept
<1>3. Head(script[s]) = script[s][1]
  BY <1>1, <1>2, TailOfPlan
<1>4. PICK f \in Interrupted(disk[s][script[s][1].file], script[s][1].row) :
        disk' = [disk EXCEPT ![s] = [disk[s] EXCEPT ![script[s][1].file] = f]]
  BY <1>3 DEF LineTorn
<1>5. ShardKept(job, s, [disk[s] EXCEPT ![script[s][1].file] = f], Tail(script[s]), stage[s], existing[s], cursor[s],
                completed[s], queue[s], minute[s], observations[s])
  BY <1>1, <1>4, WriteKept
<1>6. DOMAIN disk' = Shards /\ (\A t \in Shards \ {s} : disk'[t] = disk[t])
      /\ disk'[s] = [disk[s] EXCEPT ![script[s][1].file] = f]
  BY <1>4
<1>7. DiskShape(job, s, disk'[s]) /\ Apart(AllLines(disk'[s]["events"])) /\ NeverWorse(AllLines(disk'[s]["prices"]))
  BY <1>5, <1>6 DEF ShardKept
<1>8. torn' \in torn .. job.maxTorn /\ torn' # 0
  BY <1>1
<1>9. QED
  BY <1>1, <1>6, <1>7, <1>8, EndKeeps

LEMMA AppendKeeps ==
  ASSUME DownloadInv, NEW s \in Shards, append_jsonl(s)
  PROVE  DownloadInv'
<1> USE OfShard
<1>1. script[s] # <<>> /\ script[s] \in Seq(WritesOf(job, s)) /\ DiskShape(job, s, disk[s])
  BY DEF append_jsonl, ShardKept
<1>2. Head(script[s]) = script[s][1]
  BY <1>1, TailOfPlan
<1> DEFINE w == script[s][1]
           f == Written(disk[s][w.file], w.row)
           d == [disk[s] EXCEPT ![w.file] = f]
<1>3. /\ disk' = [disk EXCEPT ![s] = d] /\ script' = [script EXCEPT ![s] = Tail(script[s])]
      /\ UNCHANGED <<bounds, config, observations, stage, memory, merged>>
  BY <1>2 DEF append_jsonl, Plan
<1>4. ShardKept(job, s, d, Tail(script[s]), stage[s], existing[s], cursor[s], completed[s], queue[s], minute[s],
                observations[s])
  <2>1. f \in Interrupted(disk[s][script[s][1].file], script[s][1].row)
    BY DEF Interrupted
  <2> HIDE DEF f
  <2>2. QED
    BY <1>1, <2>1, WriteKept
<1>5. torn = 0 => ShardTrue(job, s, d, Tail(script[s]), stage[s], existing[s], cursor[s], completed[s], queue[s],
                            observations[s])
  BY <1>1, WriteTrue
<1> HIDE DEF d
<1>6. disk'[s] = d /\ script'[s] = Tail(script[s]) /\ torn' \in torn .. job.maxTorn /\ torn' = torn
      /\ UNCHANGED <<job, config, observations, stage, existing, cursor, completed, queue, minute>>
  BY <1>3 DEF bounds, memory
<1>7. Others(s)
  BY <1>3, <1>6 DEF Others
<1>8. QED
  BY <1>4, <1>5, <1>6, <1>7, Framed

----------------------------------------------------------------------------
(* A run begins. *)

LEMMA Early ==
  ASSUME NEW j \in Jobs, NEW s \in ShardsOf(j), NEW d, NEW plan, NEW step, NEW known, NEW cur, NEW had, NEW q, NEW min,
         NEW seen, ShardKept(j, s, d, plan, step, known, cur, had, q, min, seen),
         NEW step2 \in {"config", "reading"}, NEW plan2,
         plan2 = plan \/ plan2 \in {<<>>, <<Write("checkpoint", Row("init", 0, FALSE))>>}
  PROVE  ShardKept(j, s, d, plan2, step2, known, cur, had, q, min, seen)
<1>1. plan2 \in Seq(WritesOf(j, s)) /\ PlannedOnce(plan2)
  BY RestPlans DEF ShardKept
<1>2. MemoryShape(j, s, step2, known, cur, had, q, min)
  BY DEF ShardKept, MemoryShape, Stages
<1>3. NewEvents(AllLines(d["events"]), plan2, step2, known) /\ Unasked(AllLines(d["prices"]), plan2, q)
  <2>1. NewEvents(AllLines(d["events"]), plan, step, known) /\ Unasked(AllLines(d["prices"]), plan, q)
    BY DEF ShardKept
  <2>2. CASE plan2 = plan
    BY <2>1, <2>2 DEF NewEvents, Up
  <2>3. CASE plan2 \in {<<>>, <<Write("checkpoint", Row("init", 0, FALSE))>>}
    <3>1. Planned(plan2, "events") = {} /\ Planned(plan2, "prices") = {}
      BY <2>3, RestPlans
    <3>2. QED
      BY <2>1, <3>1 DEF NewEvents, Unasked, Up
  <2>4. QED
    BY <2>2, <2>3
<1>4. QED
  BY <1>1, <1>2, <1>3 DEF ShardKept

LEMMA EarlyTrue ==
  ASSUME NEW j \in Jobs, NEW s \in ShardsOf(j), NEW d, NEW plan, NEW step, NEW known, NEW cur, NEW had, NEW q,
         NEW seen, ShardTrue(j, s, d, plan, step, known, cur, had, q, seen), step \in {"down", "config"},
         NEW step2 \in {"config", "reading"}, NEW plan2,
         plan2 = plan \/ (plan = <<>> /\ plan2 \in {<<>>, <<Write("checkpoint", Row("init", 0, FALSE))>>})
  PROVE  ShardTrue(j, s, d, plan2, step2, known, cur, had, q, seen)
<1> DEFINE e == Real(AllLines(d["events"]))
           c == Real(AllLines(d["checkpoint"]))
           p == Real(AllLines(d["prices"]))
           pe == Planned(plan, "events")
           pk == Planned(plan, "checkpoint")
           pp == Planned(plan, "prices")
           pe2 == Planned(plan2, "events")
           pk2 == Planned(plan2, "checkpoint")
           pp2 == Planned(plan2, "prices")
<1>1. CatalogTrue(j, s, e, c, pe, pk, step, known, cur) /\ PricesTrue(e, c, p, pk, pp, had, q, seen)
  BY DEF ShardTrue
<1>2. /\ pe2 = pe /\ pp2 = pp /\ EventsFirst(plan2)
      /\ pk2 = pk \/ (pk = {} /\ \A r \in pk2 : r.phase = "init")
  <2>1. CASE plan2 = plan
    BY <2>1 DEF ShardTrue
  <2>2. CASE plan = <<>> /\ plan2 \in {<<>>, <<Write("checkpoint", Row("init", 0, FALSE))>>}
    <3>1. Row("init", 0, FALSE).phase = "init"
      BY DEF Row
    <3>2. pe = {} /\ pp = {} /\ pk = {}
      BY <2>2, PlannedNothing
    <3>3. pe2 = {} /\ pp2 = {} /\ pk2 \subseteq {Row("init", 0, FALSE)} /\ EventsFirst(plan2)
      BY <2>2, RestPlans
    <3>4. QED
      BY <3>1, <3>2, <3>3
  <2>3. QED
    BY <2>1, <2>2
<1> HIDE DEF e, c, p, pe, pk, pp, pe2, pk2, pp2
<1>3. Catalogs(pk2) = Catalogs(pk) /\ ~ Complete(pk) /\ ~ Complete(pk2)
  <2>1. Catalogs(pk2) = Catalogs(pk)
    BY <1>2 DEF Catalogs
  <2>2. ~ Complete(pk)
    BY <1>1 DEF CatalogTrue
  <2>3. QED
    BY <2>1, <2>2 DEF Complete
<1>4. CatalogTrue(j, s, e, c, pe2, pk2, step2, known, cur)
  BY <1>1, <1>2, <1>3 DEF CatalogTrue, Up
<1>5. PricesTrue(e, c, p, pk2, pp2, had, q, seen)
  BY <1>1, <1>2 DEF PricesTrue
<1>6. QED
  BY <1>2, <1>4, <1>5 DEF ShardTrue, e, c, p, pe, pk, pp, pe2, pk2, pp2

LEMMA BeginKeeps ==
  ASSUME DownloadInv, NEW s \in Shards, Begin(s) \/ initialize_output(s)
  PROVE  DownloadInv'
<1> USE OfShard
<1> DEFINE plan == script'[s]
           step == stage'[s]
<1>1. /\ stage[s] \in {"down", "config"} /\ step \in {"config", "reading"}
      /\ plan = script[s] \/ (script[s] = <<>> /\ plan \in {<<>>, <<Write("checkpoint", Row("init", 0, FALSE))>>})
      /\ UNCHANGED <<disk, observations, existing, cursor, completed, queue, minute, job, torn>>
      /\ config'[s] \in {Null, "written", Garbage} /\ Others(s)
  <2>1. CASE Begin(s)
    BY <2>1 DEF Begin, Goto, Others, memory
  <2>2. CASE initialize_output(s)
    BY <2>2 DEF initialize_output, Idle, Plan, Goto, Others, memory, bounds
  <2>3. QED
    BY <2>1, <2>2
<1> HIDE DEF plan, step
<1>2. ShardKept(job, s, disk[s], plan, step, existing[s], cursor[s], completed[s], queue[s], minute[s], observations[s])
  <2>1. job \in Jobs /\ s \in ShardsOf(job)
        /\ ShardKept(job, s, disk[s], script[s], stage[s], existing[s], cursor[s], completed[s], queue[s], minute[s],
                     observations[s])
    OBVIOUS
  <2>2. step \in {"config", "reading"}
        /\ (plan = script[s] \/ plan \in {<<>>, <<Write("checkpoint", Row("init", 0, FALSE))>>})
    BY <1>1
  <2>3. QED
    BY ONLY <2>1, <2>2, Early
<1>3. torn = 0 => ShardTrue(job, s, disk[s], plan, step, existing[s], cursor[s], completed[s], queue[s], observations[s])
  <2>1. job \in Jobs /\ s \in ShardsOf(job) /\ stage[s] \in {"down", "config"}
        /\ (torn = 0 => ShardTrue(job, s, disk[s], script[s], stage[s], existing[s], cursor[s], completed[s], queue[s],
                                  observations[s]))
    BY <1>1
  <2>2. QED
    BY ONLY <1>1, <2>1, EarlyTrue
<1>4. torn' \in torn .. job.maxTorn
  BY <1>1
<1>5. QED
  BY <1>1, <1>2, <1>3, <1>4, Framed DEF plan, step

----------------------------------------------------------------------------
(* Plans of several writes. *)

LEMMA FewEvents ==
  ASSUME NEW j \in Jobs, NEW s \in ShardsOf(j), NEW F \in SUBSET AllOf(j, s)
  PROVE  IsFiniteSet(F)
<1>1. j.start \in Int /\ j.end - 1 \in Int
  BY ShapeOfJob
<1>2. IsFiniteSet(j.start .. j.end - 1)
  BY <1>1, FS_Interval
<1>3. F \in SUBSET (j.start .. j.end - 1)
  BY ChosenInRange
<1>4. QED
  BY <1>2, <1>3, FS_Subset

LEMMA RowKinds ==
  ASSUME NEW j, NEW s, NEW phase \in Phases \ {"catalog"}, NEW place \in Int \cup (Int \X Int), NEW done \in BOOLEAN
  PROVE  Row(phase, place, done) \in ChecksOf(j, s) /\ Row(phase, place, done).phase = phase
<1> DEFINE V == Int \cup (Int \X Int)
           r == [phase |-> phase, at |-> place, done |-> done]
<1>1. place \in V
  OBVIOUS
<1> HIDE DEF V
<1>2. r \in [phase : Phases, at : V, done : BOOLEAN]
  BY <1>1
<1>3. r \in CheckpointRows
  BY <1>2 DEF CheckpointRows, V
<1>4. r.phase = phase /\ r = Row(phase, place, done) /\ phase # "catalog"
  BY DEF Row
<1> HIDE DEF r
<1>5. QED
  BY <1>3, <1>4 DEF ChecksOf

\* A write for each member of a set, and a checkpoint behind them.
ListPlan(kind, F, row) ==
  [i \in DOMAIN SetToSeq(F) |-> Write(kind, SetToSeq(F)[i])] \o <<Write("checkpoint", row)>>

LEMMA RowBehind ==
  ASSUME NEW W, NEW M \in Seq(W), NEW w \in W
  PROVE  /\ M \o <<w>> \in Seq(W) /\ Len(M) \in Nat /\ DOMAIN (M \o <<w>>) = 1 .. Len(M) + 1
         /\ (M \o <<w>>)[Len(M) + 1] = w /\ \A i \in 1 .. Len(M) : (M \o <<w>>)[i] = M[i]
<1>1. M \o <<w>> = Append(M, w)
  OBVIOUS
<1>2. Append(M, w) \in Seq(W) /\ Len(M) \in Nat /\ Len(Append(M, w)) = Len(M) + 1
  OBVIOUS
<1>3. Append(M, w)[Len(M) + 1] = w /\ \A i \in 1 .. Len(M) : Append(M, w)[i] = M[i]
  OBVIOUS
<1>4. QED
  BY <1>1, <1>2, <1>3

IsList(plan, kind, F, row, W) ==
  \E n \in Nat : /\ plan \in Seq(W) /\ DOMAIN plan = 1 .. n + 1 /\ plan[n + 1] = Write("checkpoint", row)
                 /\ \A i \in 1 .. n : plan[i] = Write(kind, SetToSeq(F)[i]) /\ SetToSeq(F)[i] \in F
                 /\ \A x \in F : \E i \in 1 .. n : SetToSeq(F)[i] = x
                 /\ \A i, k \in 1 .. n : SetToSeq(F)[i] = SetToSeq(F)[k] => i = k

LEMMA ListThenRow ==
  ASSUME NEW F, IsFiniteSet(F), NEW kind, NEW row, NEW W,
         \A x \in F : Write(kind, x) \in W, Write("checkpoint", row) \in W
  PROVE  IsList(ListPlan(kind, F, row), kind, F, row, W)
<1> DEFINE L == SetToSeq(F)
           n == Len(L)
           M == [i \in DOMAIN L |-> Write(kind, L[i])]
           w == Write("checkpoint", row)
           plan == ListPlan(kind, F, row)
<1>1. L \in Seq(F) /\ DOMAIN L = 1 .. n /\ ToSet(L) = F /\ \A i, k \in DOMAIN L : L[i] = L[k] => i = k
  BY EachOnce
<1> HIDE DEF L, w
<1>2. n \in Nat /\ \A i \in 1 .. n : L[i] \in F
  BY <1>1
<1>3. \A x \in F : \E i \in 1 .. n : L[i] = x
  BY <1>1 DEF ToSet
<1>4. \A i \in 1 .. n : M[i] = Write(kind, L[i]) /\ M[i] \in W
  BY <1>1, <1>2
<1>5. M \in [1 .. n -> W]
  BY <1>1, <1>2
<1>6. M \in Seq(W) /\ Len(M) = n
  <2> HIDE DEF M, n
  <2>1. QED
    BY <1>2, <1>5
<1>7. plan = M \o <<w>> /\ w \in W
  BY DEF ListPlan, L, w
<1> HIDE DEF M, n, plan
<1>8. plan \in Seq(W) /\ DOMAIN plan = 1 .. n + 1 /\ plan[n + 1] = w /\ \A i \in 1 .. n : plan[i] = M[i]
  BY <1>6, <1>7, RowBehind
<1>9. \A i \in 1 .. n : plan[i] = Write(kind, L[i])
  BY <1>4, <1>8
<1>10. \A i, k \in 1 .. n : L[i] = L[k] => i = k
  BY <1>1
<1>11. QED
  BY <1>2, <1>3, <1>8, <1>9, <1>10 DEF L, w, plan, IsList

LEMMA PagePlan ==
  ASSUME NEW j \in Jobs, NEW s \in ShardsOf(j), NEW F \in SUBSET AllOf(j, s), NEW row \in ChecksOf(j, s),
         row.phase = "catalog", NEW plan, plan = PageWrites(SetToSeq(F), row)
  PROVE  /\ plan \in Seq(WritesOf(j, s)) /\ PlannedOnce(plan) /\ EventsFirst(plan)
         /\ Planned(plan, "events") = F /\ Planned(plan, "prices") = {} /\ Planned(plan, "checkpoint") = {row}
<1> DEFINE W == WritesOf(j, s)
           L == SetToSeq(F)
<1>1. (\A x \in F : Write("events", x) \in W) /\ Write("checkpoint", row) \in W
  BY DEF Write, WritesOf
<1>2. IsFiniteSet(F)
  BY FewEvents
<1>3. plan = ListPlan("events", F, row)
  BY DEF PageWrites, ListPlan
<1> DEFINE kind == "events"
<1> HIDE DEF W
<1>4. PICK n \in Nat : /\ plan \in Seq(W) /\ DOMAIN plan = 1 .. n + 1 /\ plan[n + 1] = Write("checkpoint", row)
                       /\ \A i \in 1 .. n : plan[i] = Write("events", L[i]) /\ L[i] \in F
                       /\ \A x \in F : \E i \in 1 .. n : L[i] = x
                       /\ \A i, k \in 1 .. n : L[i] = L[k] => i = k
  <2>1. /\ \A x \in F : Write(kind, x) \in W
        /\ Write("checkpoint", row) \in W /\ plan = ListPlan(kind, F, row) /\ IsFiniteSet(F)
    BY <1>1, <1>2, <1>3
  <2> HIDE DEF kind
  <2>2. IsList(plan, kind, F, row, W)
    BY ONLY <2>1, ListThenRow
  <2>3. IsList(plan, "events", F, row, W)
    BY ONLY <2>2 DEF kind
  <2> HIDE DEF L
  <2>4. QED
    BY ONLY <2>3 DEF IsList, L
<1> HIDE DEF L
<1>5. /\ \A i \in 1 .. n : plan[i].file = "events" /\ plan[i].row = L[i]
      /\ plan[n + 1].file = "checkpoint" /\ plan[n + 1].row = row
  <2>1. \A k, x : Write(k, x).file = k /\ Write(k, x).row = x
    BY DEF Write
  <2>2. QED
    BY <1>4, <2>1
<1>6. \A i \in DOMAIN plan : i \in 1 .. n \/ i = n + 1
  BY <1>4
<1>7. 1 .. n \subseteq DOMAIN plan /\ n + 1 \in DOMAIN plan /\ n + 1 \notin 1 .. n
  BY <1>4
<1>8. PlannedOnce(plan)
  BY <1>4, <1>5, <1>6 DEF PlannedOnce
<1>9. EventsFirst(plan)
  <2>1. ASSUME NEW i \in DOMAIN plan, NEW k \in DOMAIN plan, IsCatalog(plan[k]) PROVE i <= k
    <3>1. k = n + 1
      BY <1>5, <1>6, <2>1 DEF IsCatalog
    <3>2. QED
      BY <1>4, <3>1
  <2>2. QED
    BY <2>1 DEF EventsFirst
<1>10. Planned(plan, "events") = F
  <2>1. Planned(plan, "events") \subseteq F
    BY <1>4, <1>5, <1>6 DEF Planned
  <2>2. ASSUME NEW x \in F PROVE x \in Planned(plan, "events")
    <3>1. PICK i \in 1 .. n : L[i] = x
      BY <1>4
    <3>2. QED
      BY <1>5, <1>7, <3>1 DEF Planned
  <2>3. QED
    BY <2>1, <2>2
<1>11. Planned(plan, "prices") = {} /\ Planned(plan, "checkpoint") = {row}
  BY <1>5, <1>6, <1>7 DEF Planned
<1>12. QED
  BY <1>4, <1>8, <1>9, <1>10, <1>11 DEF W

----------------------------------------------------------------------------
(* The catalog. *)

\* The last row of the catalog, if there is one, tells whether the catalog is complete.
LEMMA LastCatalog ==
  ASSUME DownloadInv, NEW s \in Shards, NEW r, r = checkpoint_state(s), NEW rows, rows = AllLines(disk[s]["checkpoint"])
  PROVE  /\ r.done \in BOOLEAN /\ IF r.done THEN r.at = 0 ELSE r.at \in 0 .. Len(job.feed[s]) - 1
         /\ r \in Catalogs(Real(rows)) \/ (r.at = 0 /\ ~ r.done /\ Catalogs(Real(rows)) = {})
         /\ DoneIsLast(rows) /\ Complete(Real(rows)) => r.done
<1>1. rows \in Seq(ChecksOf(job, s) \cup {Garbage})
  <2>1. job \in Jobs /\ s \in ShardsOf(job) /\ DiskShape(job, s, disk[s])
    BY OfShard DEF ShardKept
  <2>2. QED
    BY <2>1, RowsOfShape
<1>2. CatalogRows(s) = {i \in DOMAIN rows : rows[i] # Garbage /\ rows[i].phase = "catalog"}
  BY DEF CatalogRows, Rows
<1> DEFINE T == CatalogRows(s)
<1>3. Catalogs(Real(rows)) = {rows[i] : i \in T}
  BY <1>2 DEF Catalogs, Real, ToSet
<1>4. CASE T = {}
  <2>1. r = Row("catalog", 0, FALSE)
    BY <1>4 DEF checkpoint_state
  <2>2. r.at = 0 /\ r.done = FALSE /\ Len(job.feed[s]) - 1 \in Nat
    <3>1. job \in Jobs /\ s \in ShardsOf(job)
      BY OfShard
    <3>2. Len(job.feed[s]) \in Nat \ {0}
      BY <3>1, ShapeOfJob
    <3>3. QED
      BY <2>1, <3>2 DEF Row
  <2>3. Catalogs(Real(rows)) = {}
    BY <1>3, <1>4
  <2>4. ~ Complete(Real(rows))
    BY <2>3 DEF Complete
  <2>5. r.done \in BOOLEAN /\ IF r.done THEN r.at = 0 ELSE r.at \in 0 .. Len(job.feed[s]) - 1
    <3> DEFINE n == Len(job.feed[s]) - 1
    <3>1. n \in Nat /\ r.at = 0 /\ r.done = FALSE
      BY <2>2
    <3> HIDE DEF n
    <3>2. r.at \in 0 .. n
      BY <3>1
    <3>3. QED
      BY <3>1, <3>2 DEF n
  <2>6. QED
    BY <2>2, <2>3, <2>4, <2>5
<1>5. CASE T # {}
  <2>1. Max(T) \in T /\ \A i \in T : i <= Max(T)
    <3>1. T \in SUBSET (0 .. Len(rows)) /\ Len(rows) \in Nat
      BY <1>1, <1>2
    <3> HIDE DEF T
    <3>2. QED
      BY <1>5, <3>1, Greatest
  <2>2. r = rows[Max(T)]
    BY <1>5 DEF checkpoint_state, Rows
  <2> DEFINE m == Max(T)
  <2> HIDE DEF m
  <2>3. m \in T /\ (\A i \in T : i <= m) /\ r = rows[m]
    BY <2>1, <2>2 DEF m
  <2>4. m \in DOMAIN rows /\ rows[m] # Garbage /\ rows[m].phase = "catalog"
    BY <1>2, <2>3
  <2>5. r \in ChecksOf(job, s) /\ r.phase = "catalog" /\ r \in Catalogs(Real(rows))
    BY <1>1, <1>3, <2>3, <2>4
  <2>6. r.done \in BOOLEAN /\ IF r.done THEN r.at = 0 ELSE r.at \in 0 .. Len(job.feed[s]) - 1
    BY <2>5 DEF ChecksOf, CheckpointRows
  <2>7. ASSUME DoneIsLast(rows), Complete(Real(rows)) PROVE r.done
    <3>1. PICK i \in T : rows[i].done
      BY <1>3, <2>7 DEF Complete
    <3>2. i \in DOMAIN rows /\ rows[i].phase = "catalog" /\ i <= m
      BY <1>2, <2>3, <3>1
    <3>3. m <= i
      BY <2>4, <2>7, <3>1, <3>2 DEF DoneIsLast
    <3>4. i \in Nat /\ m \in Nat
      BY <1>1, <2>4, <3>2
    <3>5. i = m
      BY <3>2, <3>3, <3>4
    <3>6. QED
      BY <2>3, <3>1, <3>5
  <2>8. QED
    BY <2>5, <2>6, <2>7
<1>6. QED
  BY <1>4, <1>5

LEMMA ReadKeeps ==
  ASSUME DownloadInv, NEW s \in Shards, ReadCatalog(s)
  PROVE  DownloadInv'
<1> USE OfShard
<1> DEFINE d == disk[s]
           r == checkpoint_state(s)
           rows == AllLines(d["checkpoint"])
           e == Real(AllLines(d["events"]))
           c == Real(rows)
           p == Real(AllLines(d["prices"]))
           step == IF r.done THEN "prices" ELSE "catalog"
           had == completed[s]
           q == queue[s]
           min == minute[s]
           seen == observations[s]
<1>1. /\ stage[s] = "reading" /\ script[s] = <<>> /\ existing'[s] = e /\ cursor'[s] = r.at /\ stage'[s] = step
      /\ UNCHANGED <<bounds, disk, config, observations, script, completed, queue, minute, merged>> /\ Others(s)
  BY DEF ReadCatalog, Idle, Goto, Others, Rows, read_jsonl, Real, bounds
<1>2. /\ r.done \in BOOLEAN /\ IF r.done THEN r.at = 0 ELSE r.at \in 0 .. Len(job.feed[s]) - 1
      /\ r \in Catalogs(c) \/ (r.at = 0 /\ ~ r.done /\ Catalogs(c) = {})
      /\ DoneIsLast(rows) /\ Complete(c) => r.done
  BY LastCatalog
<1>3. ShardKept(job, s, d, <<>>, "reading", existing[s], cursor[s], had, q, min, seen)
  BY <1>1
<1>4. Len(job.feed[s]) \in Nat \ {0}
  BY ShapeOfJob
<1>5. e \subseteq AllOf(job, s)
  <2>1. AllLines(d["events"]) \in Seq(AllOf(job, s) \cup {Garbage})
    BY RowsOfShape DEF ShardKept
  <2>2. QED
    BY <2>1 DEF Real, ToSet
<1>6. job \in Jobs /\ s \in ShardsOf(job)
  OBVIOUS
<1>7. ASSUME torn = 0
      PROVE  ShardTrue(job, s, d, <<>>, "reading", existing[s], cursor[s], had, q, seen)
  BY <1>1, <1>7
<1>8. ChosenOf(job, s, 1 .. 0) = {}
  <2>1. 0 \in 0 .. Len(job.feed[s])
    BY <1>4
  <2>2. QED
    BY <2>1, ChosenOfPages
<1> HIDE DEF d, r, had, q, min, seen
<1>9. ShardKept(job, s, d, <<>>, step, e, r.at, had, q, min, seen)
  <2> HIDE DEF e, rows
  <2>1. MemoryShape(job, s, step, e, r.at, had, q, min)
    <3> DEFINE n == Len(job.feed[s])
    <3>1. r.at \in 0 .. n /\ (step = "catalog" => r.at < n) /\ step \in Stages
      <4> HIDE DEF n
      <4>1. n \in Nat \ {0} /\ r.done \in BOOLEAN /\ IF r.done THEN r.at = 0 ELSE r.at \in 0 .. n - 1
        BY <1>2, <1>4 DEF n
      <4>2. CASE r.done
        BY <4>1, <4>2 DEF Stages
      <4>3. CASE ~ r.done
        BY <4>1, <4>3 DEF Stages
      <4>4. QED
        BY <4>2, <4>3
    <3> HIDE DEF step
    <3>2. QED
      BY <1>3, <1>5, <3>1 DEF ShardKept, MemoryShape
  <2>2. NewEvents(AllLines(d["events"]), <<>>, step, e)
    BY PlannedNothing DEF NewEvents, e
  <2>3. QED
    BY <1>3, <2>1, <2>2 DEF ShardKept
<1>10. ASSUME torn = 0
       PROVE  ShardTrue(job, s, d, <<>>, step, e, r.at, had, q, seen)
  <2> HIDE DEF e, rows, p
  <2>1. /\ CatalogTrue(job, s, e, c, {}, {}, "reading", existing[s], cursor[s])
        /\ PricesTrue(e, c, p, {}, {}, had, q, seen) /\ DoneIsLast(rows)
        /\ (\A name \in Files : IsWhole(d[name])) /\ EventsFirst(<<>>)
    BY <1>7, <1>10, PlannedNothing DEF ShardTrue, e, rows, p
  <2> HIDE DEF c
  <2>2. ~ Complete({}) /\ Catalogs({}) = {}
    BY DEF Complete, Catalogs
  <2>3. Complete(c) <=> r.done
    BY <1>2, <2>1 DEF Complete, c
  <2>4. ~ r.done => ChosenOf(job, s, 1 .. r.at) \subseteq e
    <3>1. CASE r \in Catalogs(c)
      BY <2>1, <3>1 DEF CatalogTrue, PagesOf
    <3>2. CASE r.at = 0
      BY <1>8, <3>2
    <3>3. QED
      BY <1>2, <3>1, <3>2 DEF c
  <2>5. CatalogTrue(job, s, e, c, {}, {}, step, e, r.at)
    <3>1. (step = "catalog" <=> ~ r.done) /\ (step = "prices" <=> r.done) /\ step \in {"prices", "catalog"}
      BY <1>2
    <3> HIDE DEF step
    <3>2. QED
      BY <2>1, <2>2, <2>3, <2>4, <3>1 DEF CatalogTrue
  <2>6. QED
    BY <2>1, <2>5, PlannedNothing DEF ShardTrue, e, c, rows, p
<1>11. torn' \in torn .. job.maxTorn /\ torn' = torn /\ disk'[s] = d /\ script'[s] = <<>> /\ completed'[s] = had
       /\ queue'[s] = q /\ minute'[s] = min /\ observations'[s] = seen /\ config'[s] \in {Null, "written", Garbage}
  BY <1>1 DEF bounds, d, had, q, min, seen
<1> HIDE DEF e, step
<1>12. QED
  BY <1>1, <1>9, <1>10, <1>11, Framed

\* A page: its new events are planned, the row of the catalog behind them.
LEMMA PageKept ==
  ASSUME NEW j \in Jobs, NEW s \in ShardsOf(j), NEW d, NEW known, NEW cur, NEW had, NEW q, NEW min,
         NEW seen, ShardKept(j, s, d, <<>>, "catalog", known, cur, had, q, min, seen),
         NEW page, page = cur + 1, NEW fresh, fresh = ChosenOf(j, s, {page}) \ known,
         NEW last \in BOOLEAN, last <=> page = Len(j.feed[s]), NEW row, row = Row("catalog", IF last THEN 0 ELSE page, last),
         NEW plan, plan = PageWrites(SetToSeq(fresh), row),
         NEW step, step = IF last THEN "prices" ELSE "catalog"
  PROVE  /\ ShardKept(j, s, d, plan, step, known \cup fresh, page, had, q, min, seen)
         /\ ShardTrue(j, s, d, <<>>, "catalog", known, cur, had, q, seen) =>
              ShardTrue(j, s, d, plan, step, known \cup fresh, page, had, q, seen)
<1> DEFINE n == Len(j.feed[s])
<1>1. n \in Nat \ {0} /\ cur \in 0 .. n /\ cur < n
  BY ShapeOfJob DEF ShardKept, MemoryShape
<1>2. /\ ChosenOf(j, s, {page}) \subseteq AllOf(j, s)
      /\ ChosenOf(j, s, 1 .. page) = ChosenOf(j, s, 1 .. cur) \cup ChosenOf(j, s, {page})
  <2>1. page \in 0 .. n /\ page > 0 /\ page - 1 = cur
    BY <1>1
  <2>2. /\ ChosenOf(j, s, 1 .. page) \subseteq AllOf(j, s)
        /\ ChosenOf(j, s, 1 .. page) = ChosenOf(j, s, 1 .. page - 1) \cup ChosenOf(j, s, {page})
    BY <2>1, ChosenOfPages
  <2>3. QED
    BY <2>1, <2>2
<1>3. page \in 1 .. n /\ (last <=> page = n) /\ last \in BOOLEAN
  BY <1>1
<1>4. fresh \in SUBSET AllOf(j, s) /\ fresh \cap known = {}
  BY <1>2
<1>5. row \in ChecksOf(j, s) /\ row.phase = "catalog" /\ (row.done <=> last) /\ row.done \in BOOLEAN
      /\ (~ last => row.at = page)
  <2> DEFINE place == IF last THEN 0 ELSE page
             V == Int \cup (Int \X Int)
  <2>1. place \in V /\ IF last THEN place = 0 ELSE place \in 0 .. n - 1 /\ place = page
    <3>1. place \in Int
      BY <1>3
    <3>2. last => place = 0
      OBVIOUS
    <3>3. ~ last => place \in 0 .. n - 1 /\ place = page
      <4> HIDE DEF n
      <4>1. QED
        BY <1>1, <1>3
    <3>4. QED
      BY <3>1, <3>2, <3>3
  <2>2. row = [phase |-> "catalog", at |-> place, done |-> last]
    BY DEF Row
  <2> HIDE DEF place, V
  <2>3. row \in [phase : Phases, at : V, done : BOOLEAN]
    <3>1. "catalog" \in Phases /\ place \in V
      BY <2>1 DEF Phases
    <3>2. QED
      BY <2>2, <3>1
  <2>4. row.phase = "catalog" /\ row.done = last /\ row.at = place
    BY <2>2
  <2>5. row \in CheckpointRows
    BY <2>3 DEF CheckpointRows, V
  <2>6. row \in ChecksOf(j, s)
    BY <2>1, <2>4, <2>5 DEF ChecksOf
  <2>7. QED
    BY <1>3, <2>1, <2>4, <2>6
<1>6. /\ plan \in Seq(WritesOf(j, s)) /\ PlannedOnce(plan) /\ EventsFirst(plan)
      /\ Planned(plan, "events") = fresh /\ Planned(plan, "prices") = {} /\ Planned(plan, "checkpoint") = {row}
  <2>1. /\ j \in Jobs /\ s \in ShardsOf(j) /\ fresh \in SUBSET AllOf(j, s) /\ row \in ChecksOf(j, s)
        /\ row.phase = "catalog" /\ plan = PageWrites(SetToSeq(fresh), row)
    BY <1>4, <1>5
  <2>2. QED
    BY ONLY <2>1, PagePlan
<1>7. /\ DiskShape(j, s, d) /\ MemoryShape(j, s, "catalog", known, cur, had, q, min) /\ seen \subseteq AllOf(j, s)
      /\ Apart(AllLines(d["events"])) /\ NeverWorse(AllLines(d["prices"]))
      /\ NewEvents(AllLines(d["events"]), <<>>, "catalog", known) /\ Unasked(AllLines(d["prices"]), <<>>, q)
  BY DEF ShardKept
<1>8. MemoryShape(j, s, step, known \cup fresh, page, had, q, min)
  <2>1. step \in Stages /\ page \in 0 .. n /\ (step = "catalog" => page < n)
    <3> HIDE DEF n
    <3>1. QED
      BY <1>1, <1>3 DEF Stages
  <2>2. known \cup fresh \subseteq AllOf(j, s)
    BY <1>4, <1>7 DEF MemoryShape
  <2>3. QED
    BY <1>7, <2>1, <2>2 DEF MemoryShape
<1>9. NewEvents(AllLines(d["events"]), plan, step, known \cup fresh)
  <2>1. Real(AllLines(d["events"])) \subseteq known
    BY <1>7 DEF NewEvents, Up
  <2>2. QED
    BY <1>4, <1>6, <2>1 DEF NewEvents
<1>10. Unasked(AllLines(d["prices"]), plan, q)
  BY <1>6, <1>7 DEF Unasked
<1>11. ShardKept(j, s, d, plan, step, known \cup fresh, page, had, q, min, seen)
  BY <1>6, <1>7, <1>8, <1>9, <1>10 DEF ShardKept
<1>12. ASSUME ShardTrue(j, s, d, <<>>, "catalog", known, cur, had, q, seen)
       PROVE  ShardTrue(j, s, d, plan, step, known \cup fresh, page, had, q, seen)
  <2> DEFINE e == Real(AllLines(d["events"]))
             c == Real(AllLines(d["checkpoint"]))
             p == Real(AllLines(d["prices"]))
  <2>1. /\ CatalogTrue(j, s, e, c, {}, {}, "catalog", known, cur) /\ PricesTrue(e, c, p, {}, {}, had, q, seen)
        /\ DoneIsLast(AllLines(d["checkpoint"])) /\ \A name \in Files : IsWhole(d[name])
    BY <1>12, PlannedNothing DEF ShardTrue
  <2> HIDE DEF e, c, p
  <2>2. known = e /\ ChosenOf(j, s, 1 .. cur) \subseteq e /\ ~ Complete(c)
    BY <2>1 DEF CatalogTrue, Up
  <2>3. ChosenOf(j, s, 1 .. page) \subseteq e \cup fresh
    BY <1>2, <2>2
  <2>4. Catalogs({row}) = {row} /\ (Complete({row}) <=> last)
    BY <1>5 DEF Catalogs, Complete
  <2>5. ChosenOf(j, s, 1 .. PagesOf(j, s, row)) \subseteq e \cup fresh
    BY <1>3, <1>5, <2>3 DEF PagesOf
  <2>6. (step = "prices" <=> last) /\ (step = "catalog" <=> ~ last) /\ step \in {"prices", "catalog"}
    BY <1>3
  <2>7. CatalogTrue(j, s, e, c, fresh, {row}, step, known \cup fresh, page)
    BY <2>1, <2>2, <2>3, <2>4, <2>5, <2>6 DEF CatalogTrue
  <2>8. PricesTrue(e, c, p, {row}, {}, had, q, seen)
    BY <1>5, <2>1, <2>2 DEF PricesTrue
  <2>9. QED
    BY <1>6, <2>1, <2>7, <2>8 DEF ShardTrue, e, c, p
<1>13. QED
  BY <1>11, <1>12

LEMMA FetchKeeps ==
  ASSUME DownloadInv, NEW s \in Shards, FetchPage(s)
  PROVE  DownloadInv'
<1> USE OfShard
<1> DEFINE page == cursor[s] + 1
           last == page = Len(job.feed[s])
           row == Row("catalog", IF last THEN 0 ELSE page, last)
           fresh == {e.slot : e \in {e \in ToSet(job.feed[s][page]) : select_event(s, e)}} \ existing[s]
           plan == PageWrites(SetToSeq(fresh), row)
           step == IF last THEN "prices" ELSE "catalog"
           known == existing[s] \cup fresh
<1>1. /\ stage[s] = "catalog" /\ script[s] = <<>> /\ stage'[s] = step /\ script'[s] = plan
      /\ existing'[s] = known /\ cursor'[s] = page
      /\ UNCHANGED <<bounds, disk, config, observations, completed, queue, minute, merged>> /\ Others(s)
  BY DEF FetchPage, Idle, Goto, Plan, Others, bounds
<1>2. fresh = ChosenOf(job, s, {page}) \ existing[s]
  BY DEF ChosenOf, select_event, shard_start, shard_end
<1> HIDE DEF page, fresh
<1>3. ShardKept(job, s, disk[s], <<>>, "catalog", existing[s], cursor[s], completed[s], queue[s], minute[s], observations[s])
      /\ job \in Jobs /\ s \in ShardsOf(job) /\ page = cursor[s] + 1
  BY <1>1 DEF page
<1> HIDE DEF row, last, plan, step
<1>4. last \in BOOLEAN /\ (last <=> page = Len(job.feed[s])) /\ row = Row("catalog", IF last THEN 0 ELSE page, last)
      /\ plan = PageWrites(SetToSeq(fresh), row) /\ step = IF last THEN "prices" ELSE "catalog"
  BY DEF row, last, plan, step
<1>5. /\ ShardKept(job, s, disk[s], plan, step, known, page, completed[s], queue[s], minute[s], observations[s])
      /\ ShardTrue(job, s, disk[s], <<>>, "catalog", existing[s], cursor[s], completed[s], queue[s], observations[s]) =>
              ShardTrue(job, s, disk[s], plan, step, known, page, completed[s], queue[s], observations[s])
  <2>1. /\ job \in Jobs /\ s \in ShardsOf(job) /\ page = cursor[s] + 1 /\ last \in BOOLEAN
        /\ ShardKept(job, s, disk[s], <<>>, "catalog", existing[s], cursor[s], completed[s], queue[s], minute[s],
                     observations[s])
        /\ fresh = ChosenOf(job, s, {page}) \ existing[s]
        /\ (last <=> page = Len(job.feed[s])) /\ row = Row("catalog", IF last THEN 0 ELSE page, last)
        /\ plan = PageWrites(SetToSeq(fresh), row) /\ step = IF last THEN "prices" ELSE "catalog"
    BY <1>2, <1>3, <1>4
  <2> HIDE DEF known
  <2>2. known = existing[s] \cup fresh
    BY DEF known
  <2>3. /\ ShardKept(job, s, disk[s], plan, step, existing[s] \cup fresh, page, completed[s], queue[s], minute[s],
                     observations[s])
        /\ ShardTrue(job, s, disk[s], <<>>, "catalog", existing[s], cursor[s], completed[s], queue[s], observations[s]) =>
             ShardTrue(job, s, disk[s], plan, step, existing[s] \cup fresh, page, completed[s], queue[s], observations[s])
    BY ONLY <2>1, PageKept
  <2>4. QED
    BY <2>2, <2>3
<1> HIDE DEF known
<1>6. torn' \in torn .. job.maxTorn /\ torn' = torn /\ config'[s] \in {Null, "written", Garbage}
      /\ disk' = disk /\ completed' = completed /\ queue' = queue /\ minute' = minute /\ observations' = observations
  BY <1>1 DEF bounds
<1>7. QED
  BY <1>1, <1>5, <1>6, Framed

----------------------------------------------------------------------------
(* Prices and candles. *)

LEMMA LaterKept ==
  ASSUME NEW j \in Jobs, NEW s \in ShardsOf(j), NEW d, NEW step \in {"prices", "fetching"}, NEW known, NEW cur, NEW had,
         NEW q, NEW min, NEW seen, ShardKept(j, s, d, <<>>, step, known, cur, had, q, min, seen),
         NEW plan \in Seq(WritesOf(j, s)), PlannedOnce(plan), Planned(plan, "events") = {},
         NEW step2 \in {"fetching", "finished"}, NEW had2 \in SUBSET AllOf(j, s), NEW q2 \in Seq(SUBSET AllOf(j, s)),
         Unasked(AllLines(d["prices"]), plan, q2), NEW min2 \in Int, min2 <= CutAt(j, s + 1),
         NEW seen2 \in SUBSET AllOf(j, s)
  PROVE  ShardKept(j, s, d, plan, step2, known, cur, had2, q2, min2, seen2)
<1>1. MemoryShape(j, s, step2, known, cur, had2, q2, min2)
  BY DEF ShardKept, MemoryShape, Stages
<1>2. NewEvents(AllLines(d["events"]), plan, step2, known)
  BY DEF ShardKept, NewEvents, Up
<1>3. QED
  BY <1>1, <1>2 DEF ShardKept

\* From here on the catalog is complete and its events are on the disk.
LEMMA LaterTrue ==
  ASSUME NEW j \in Jobs, NEW s \in ShardsOf(j), NEW d, NEW step \in {"prices", "fetching", "finished"}, NEW known,
         NEW cur, NEW had, NEW q, NEW seen, ShardTrue(j, s, d, <<>>, step, known, cur, had, q, seen)
  PROVE  /\ known = Real(AllLines(d["events"])) /\ Complete(Real(AllLines(d["checkpoint"])))
         /\ PricesTrue(Real(AllLines(d["events"])), Real(AllLines(d["checkpoint"])), Real(AllLines(d["prices"])),
                       {}, {}, had, q, seen)
<1> DEFINE e == Real(AllLines(d["events"]))
           c == Real(AllLines(d["checkpoint"]))
<1>1. CatalogTrue(j, s, e, c, {}, {}, step, known, cur)
  BY PlannedNothing DEF ShardTrue
<1>2. ~ Complete({})
  BY DEF Complete, Catalogs
<1>3. known = e /\ Complete(c)
  BY <1>1, <1>2 DEF CatalogTrue, Up
<1>4. QED
  BY <1>3, PlannedNothing DEF ShardTrue

LEMMA LaterStep ==
  ASSUME NEW j \in Jobs, NEW s \in ShardsOf(j), NEW d, NEW step \in {"prices", "fetching"}, NEW known,
         NEW cur, NEW had, NEW q, NEW seen, ShardTrue(j, s, d, <<>>, step, known, cur, had, q, seen),
         NEW plan, EventsFirst(plan), Planned(plan, "events") = {}, Catalogs(Planned(plan, "checkpoint")) = {},
         NEW step2 \in {"fetching", "finished"}, NEW had2, NEW q2, NEW seen2,
         PricesTrue(Real(AllLines(d["events"])), Real(AllLines(d["checkpoint"])), Real(AllLines(d["prices"])),
                    Planned(plan, "checkpoint"), Planned(plan, "prices"), had2, q2, seen2)
  PROVE  ShardTrue(j, s, d, plan, step2, known, cur, had2, q2, seen2)
<1> DEFINE e == Real(AllLines(d["events"]))
           c == Real(AllLines(d["checkpoint"]))
           pk == Planned(plan, "checkpoint")
<1>1. CatalogTrue(j, s, e, c, {}, {}, step, known, cur)
  BY PlannedNothing DEF ShardTrue
<1>2. known = e /\ Complete(c)
  BY LaterTrue
<1> HIDE DEF e, c, pk
<1>3. ~ Complete(pk) /\ Catalogs(pk) = {}
  BY DEF Complete, pk
<1>4. CatalogTrue(j, s, e, c, {}, pk, step2, known, cur)
  BY <1>1, <1>2, <1>3 DEF CatalogTrue, Up
<1>5. QED
  BY <1>4 DEF ShardTrue, e, c, pk

LEMMA BatchesApart ==
  ASSUME job \in Jobs, NEW X, IsFiniteSet(X)
  PROVE  /\ Batches(X) \in Seq(SUBSET X)
         /\ \A k, l \in DOMAIN Batches(X) : l # k => Batches(X)[k] \cap Batches(X)[l] = {}
<1> DEFINE n == (Cardinality(X) + job.batch - 1) \div job.batch
           B == Batches(X)
<1>1. n \in Nat
  <2>1. Cardinality(X) \in Nat /\ job.batch \in Nat \ {0}
    BY FS_CardinalityType, ShapeOfJob
  <2> DEFINE m == Cardinality(X) + job.batch - 1
  <2>2. m \in Nat
    BY <2>1
  <2> HIDE DEF m
  <2>3. m \div job.batch \in Nat
    BY <2>1, <2>2, WholeQuotient
  <2>4. QED
    BY <2>3 DEF m
<1>2. B = [i \in 1 .. n |-> {x \in X : Cardinality({y \in X : y < x}) \div job.batch = i - 1}]
  BY DEF Batches
<1> HIDE DEF n, B
<1>3. B \in [1 .. n -> SUBSET X]
  BY <1>2
<1>4. B \in Seq(SUBSET X)
  BY <1>1, <1>3
<1>5. ASSUME NEW k \in 1 .. n, NEW l \in 1 .. n, NEW x \in B[k], x \in B[l]
      PROVE  k = l
  <2> DEFINE v == Cardinality({y \in X : y < x}) \div job.batch
  <2>1. v = k - 1 /\ v = l - 1
    BY <1>2, <1>5
  <2> HIDE DEF v
  <2>2. QED
    BY <1>1, <2>1
<1>6. QED
  BY <1>3, <1>4, <1>5 DEF B

LEMMA GatherKeeps ==
  ASSUME DownloadInv, NEW s \in Shards, Gather(s)
  PROVE  DownloadInv'
<1> USE OfShard
<1> DEFINE d == disk[s]
           e == Real(AllLines(d["events"]))
           p == Real(AllLines(d["prices"]))
           c == Real(AllLines(d["checkpoint"]))
           known == existing[s]
           had == Full(AllLines(d["prices"]))
           q == Batches(known \ had)
           min == CutAt(job, s) - job.warmup
           cur == cursor[s]
           seen == observations[s]
<1>1. /\ stage[s] = "prices" /\ script[s] = <<>> /\ stage'[s] = "fetching" /\ completed'[s] = had /\ queue'[s] = q
      /\ minute'[s] = min /\ Others(s)
      /\ UNCHANGED <<bounds, disk, config, observations, script, existing, cursor, merged>>
  <2>1. Priced(s) = had
    BY DEF Priced, read_jsonl, Rows, Full, Real
  <2>2. QED
    BY <2>1 DEF Gather, Idle, Goto, Others, bounds, shard_start
<1>2. ShardKept(job, s, d, <<>>, "prices", known, cur, completed[s], queue[s], minute[s], seen) /\ DiskShape(job, s, d)
  BY <1>1 DEF ShardKept
<1>3. known \subseteq AllOf(job, s) /\ seen \subseteq AllOf(job, s)
  BY <1>2 DEF ShardKept, MemoryShape
<1>4. had \subseteq AllOf(job, s) /\ \A x \in had : \E r \in p : r.slot = x
  <2>1. AllLines(d["prices"]) \in Seq(PricesOf(job, s) \cup {Garbage})
    BY <1>2, RowsOfShape
  <2>2. p \subseteq PricesOf(job, s)
    BY <2>1 DEF Real, ToSet
  <2>3. QED
    BY <2>2 DEF Full, PricesOf
<1>5. min \in Int /\ min <= CutAt(job, s + 1)
  <2>1. s \in 0 .. job.count /\ s + 1 \in 0 .. job.count /\ s <= s + 1 /\ job.warmup \in Nat
    BY ShapeOfJob DEF ShardsOf
  <2>2. CutAt(job, s) \in Nat /\ CutAt(job, s) <= CutAt(job, s + 1) /\ CutAt(job, s + 1) \in Nat
    BY <2>1, CutsGrow
  <2>3. QED
    BY <2>1, <2>2
<1> DEFINE X == known \ had
<1>6. X \subseteq AllOf(job, s) /\ X \cap had = {}
  BY <1>3
<1>7. q \in Seq(SUBSET X) /\ \A k, l \in DOMAIN q : l # k => q[k] \cap q[l] = {}
  <2>1. IsFiniteSet(X)
    BY <1>6, FewEvents
  <2> HIDE DEF X
  <2>2. QED
    BY <2>1, BatchesApart DEF X
<1> HIDE DEF X, q, had
<1>8. \A k \in DOMAIN q : q[k] \subseteq X
  BY <1>7
<1>9. q \in Seq(SUBSET AllOf(job, s))
  <2> DEFINE S == SUBSET X
             T == SUBSET AllOf(job, s)
  <2>1. S \subseteq T /\ q \in Seq(S)
    BY <1>6, <1>7
  <2> HIDE DEF S, T
  <2>2. q \in Seq(T)
    BY <2>1
  <2>3. QED
    BY <2>2 DEF T
<1>10. Unasked(AllLines(d["prices"]), <<>>, q)
  BY <1>6, <1>7, <1>8, PlannedNothing DEF Unasked, had
<1>11. ShardKept(job, s, d, <<>>, "fetching", known, cur, had, q, min, seen)
  <2>1. <<>> \in Seq(WritesOf(job, s)) /\ PlannedOnce(<<>>) /\ Planned(<<>>, "events") = {}
    BY RestPlans
  <2> HIDE DEF d, known, cur, min, seen
  <2>2. QED
    BY <1>2, <1>3, <1>4, <1>5, <1>9, <1>10, <2>1, LaterKept
<1>12. ASSUME torn = 0
       PROVE  ShardTrue(job, s, d, <<>>, "fetching", known, cur, had, q, seen)
  <2>1. ShardTrue(job, s, d, <<>>, "prices", known, cur, completed[s], queue[s], seen)
    BY <1>1, <1>12
  <2>2. known = e /\ PricesTrue(e, c, p, {}, {}, completed[s], queue[s], seen)
    BY <2>1, LaterTrue
  <2>3. PricesTrue(e, c, p, {}, {}, had, q, seen)
    <3> HIDE DEF e, c, p, known
    <3>1. \A k \in DOMAIN q : q[k] \subseteq e
      BY <1>8, <2>2 DEF X
    <3>2. QED
      BY <1>4, <2>2, <3>1 DEF PricesTrue
  <2>4. Catalogs({}) = {} /\ EventsFirst(<<>>)
    BY RestPlans DEF Catalogs
  <2> HIDE DEF d, known, cur, seen
  <2>5. QED
    BY <2>1, <2>3, <2>4, PlannedNothing, LaterStep
<1>13. torn' \in torn .. job.maxTorn /\ torn' = torn /\ disk'[s] = d /\ script'[s] = <<>> /\ existing'[s] = known
       /\ cursor'[s] = cur /\ observations'[s] = seen /\ config'[s] \in {Null, "written", Garbage}
  BY <1>1 DEF bounds
<1> HIDE DEF d, known, cur, seen, min
<1>14. QED
  BY <1>1, <1>11, <1>12, <1>13, Framed

LEMMA LeastOfTwo ==
  ASSUME NEW a \in Int, NEW b \in Int
  PROVE  Min({a, b}) \in {a, b} /\ Min({a, b}) <= a /\ Min({a, b}) <= b
<1>1. \E x \in {a, b} : \A y \in {a, b} : x <= y
  OBVIOUS
<1>2. Min({a, b}) \in {a, b} /\ \A y \in {a, b} : Min({a, b}) <= y
  BY <1>1 DEF Min
<1>3. QED
  BY <1>2

LEMMA Halves ==
  ASSUME NEW n \in Nat, NEW k \in 1 .. 2 * n
  PROVE  /\ k % 2 = 1 => (k + 1) \div 2 \in 1 .. n /\ 2 * ((k + 1) \div 2) = k + 1
         /\ k % 2 # 1 => k \div 2 \in 1 .. n
OBVIOUS

\* A record and a checkpoint for each event of a batch.
LEMMA PricePlan ==
  ASSUME NEW j \in Jobs, NEW s \in ShardsOf(j), NEW F \in SUBSET AllOf(j, s), NEW full,
         NEW plan, plan = PriceWrites(SetToSeq(F), full)
  PROVE  /\ plan \in Seq(WritesOf(j, s)) /\ PlannedOnce(plan) /\ EventsFirst(plan) /\ Planned(plan, "events") = {}
         /\ \A r \in Planned(plan, "prices") : r.slot \in F
         /\ \A x \in F : \E r \in Planned(plan, "prices") : r.slot = x
         /\ \A r \in Planned(plan, "checkpoint") : r.phase = "prices"
<1> DEFINE L == SetToSeq(F)
           n == Len(L)
           W == WritesOf(j, s)
           At(k) == L[(k + 1) \div 2]
           Price(k) == [slot |-> At(k), full |-> At(k) \in full]
           Done(k) == Row("prices", L[k \div 2], TRUE)
<1>1. L \in Seq(F) /\ DOMAIN L = 1 .. n /\ ToSet(L) = F /\ \A i, k \in DOMAIN L : L[i] = L[k] => i = k
  <2>1. IsFiniteSet(F)
    BY FewEvents
  <2>2. QED
    BY <2>1, EachOnce
<1>2. plan = [k \in 1 .. 2 * n |-> IF k % 2 = 1 THEN Write("prices", Price(k)) ELSE Write("checkpoint", Done(k))]
  BY DEF PriceWrites
<1> HIDE DEF L
<1>3. n \in Nat /\ \A i \in 1 .. n : L[i] \in F
  BY <1>1
<1>4. F \subseteq Int
  BY ChosenInRange
<1> HIDE DEF n
<1>5. ASSUME NEW k \in 1 .. 2 * n, k % 2 = 1
      PROVE  At(k) \in F /\ Price(k) \in PricesOf(j, s) /\ Price(k).slot = At(k)
  <2>1. (k + 1) \div 2 \in 1 .. n
    BY <1>3, <1>5, Halves
  <2>2. At(k) \in F
    BY <1>3, <2>1
  <2> HIDE DEF At
  <2>3. At(k) \in AllOf(j, s) /\ (At(k) \in full) \in BOOLEAN
    BY <2>2
  <2>4. QED
    BY <2>2, <2>3 DEF PricesOf
<1>6. ASSUME NEW k \in 1 .. 2 * n, k % 2 # 1
      PROVE  Done(k) \in ChecksOf(j, s) /\ Done(k).phase = "prices"
  <2>1. k \div 2 \in 1 .. n
    BY <1>3, <1>6, Halves
  <2> DEFINE place == L[k \div 2]
  <2>2. place \in F /\ place \in Int
    BY <1>3, <1>4, <2>1
  <2> HIDE DEF place
  <2>3. place \in Int \cup (Int \X Int) /\ "prices" \in Phases \ {"catalog"} /\ TRUE \in BOOLEAN
    BY <2>2 DEF Phases
  <2> DEFINE phase == "prices"
  <2>4. phase \in Phases \ {"catalog"}
    BY <2>3
  <2> HIDE DEF phase
  <2>5. Row(phase, place, TRUE) \in ChecksOf(j, s) /\ Row(phase, place, TRUE).phase = phase
    BY <2>3, <2>4, RowKinds
  <2>6. QED
    BY <2>5 DEF phase, place
<1> HIDE DEF At, Price, Done
<1>7. \A k \in 1 .. 2 * n :
        /\ k % 2 = 1 => plan[k].file = "prices" /\ plan[k].row = Price(k) /\ plan[k] \in W
        /\ k % 2 # 1 => plan[k].file = "checkpoint" /\ plan[k].row = Done(k) /\ plan[k] \in W
  <2>1. \A kind, x : Write(kind, x) = [file |-> kind, row |-> x]
    BY DEF Write
  <2>2. ASSUME NEW k \in 1 .. 2 * n, k % 2 = 1
        PROVE  plan[k].file = "prices" /\ plan[k].row = Price(k) /\ plan[k] \in W
    <3>1. plan[k] = [file |-> "prices", row |-> Price(k)] /\ Price(k) \in PricesOf(j, s)
      BY <1>2, <1>5, <2>1, <2>2
    <3>2. QED
      BY <3>1 DEF WritesOf
  <2>3. ASSUME NEW k \in 1 .. 2 * n, k % 2 # 1
        PROVE  plan[k].file = "checkpoint" /\ plan[k].row = Done(k) /\ plan[k] \in W
    <3>1. plan[k] = [file |-> "checkpoint", row |-> Done(k)] /\ Done(k) \in ChecksOf(j, s)
      BY <1>2, <1>6, <2>1, <2>3
    <3>2. QED
      BY <3>1 DEF WritesOf
  <2>4. QED
    BY <2>2, <2>3
<1> HIDE DEF W
<1>8. DOMAIN plan = 1 .. 2 * n /\ plan \in Seq(W)
  <2> DEFINE m == 2 * n
  <2>1. m \in Nat /\ DOMAIN plan = 1 .. m
    BY <1>2, <1>3
  <2>2. \A k \in 1 .. m : plan[k] \in W
    BY <1>7
  <2>3. plan \in [1 .. m -> W]
    <3>1. plan = [k \in 1 .. m |-> plan[k]]
      BY <1>2
    <3>2. QED
      BY <2>2, <3>1
  <2> HIDE DEF m
  <2>4. plan \in Seq(W)
    BY <2>1, <2>3
  <2>5. QED
    BY <2>1, <2>4 DEF m
<1>9. ASSUME NEW i \in 1 .. 2 * n, NEW k \in 1 .. 2 * n, i % 2 = 1, k % 2 = 1, i # k
      PROVE  Price(i).slot # Price(k).slot
  <2>1. (i + 1) \div 2 \in 1 .. n /\ (k + 1) \div 2 \in 1 .. n /\ (i + 1) \div 2 # (k + 1) \div 2
    <3>1. (i + 1) \div 2 \in 1 .. n /\ 2 * ((i + 1) \div 2) = i + 1 /\ (k + 1) \div 2 \in 1 .. n /\ 2 * ((k + 1) \div 2) = k + 1
      BY <1>3, <1>9, Halves
    <3>2. QED
      BY <1>3, <1>9, <3>1
  <2>2. At(i) # At(k)
    BY <1>1, <2>1 DEF At
  <2>3. QED
    BY <1>5, <1>9, <2>2
<1>10. PlannedOnce(plan)
  <2>1. SUFFICES ASSUME NEW i \in 1 .. 2 * n, NEW k \in 1 .. 2 * n, plan[i].file = plan[k].file, i # k
                 PROVE  /\ plan[i].file # "events"
                        /\ plan[i].file = "prices" => plan[i].row.slot # plan[k].row.slot
    BY <1>8 DEF PlannedOnce
  <2>2. plan[i].file # "events"
    BY <1>7
  <2>3. ASSUME plan[i].file = "prices" PROVE plan[i].row.slot # plan[k].row.slot
    <3>1. i % 2 = 1 /\ k % 2 = 1
      BY <1>7, <2>1, <2>3
    <3>2. QED
      BY <1>7, <1>9, <2>1, <3>1
  <2>4. QED
    BY <2>2, <2>3
<1>11. \A k \in 1 .. 2 * n : plan[k].file # "events" /\ ~ IsCatalog(plan[k])
  BY <1>6, <1>7 DEF IsCatalog
<1>12. EventsFirst(plan) /\ Planned(plan, "events") = {}
  BY <1>8, <1>11 DEF EventsFirst, Planned
<1>13. \A r \in Planned(plan, "prices") : r.slot \in F
  <2>1. ASSUME NEW k \in 1 .. 2 * n, plan[k].file = "prices" PROVE plan[k].row.slot \in F
    <3>1. k % 2 = 1
      BY <1>7, <2>1
    <3>2. QED
      BY <1>5, <1>7, <3>1
  <2>2. QED
    BY <1>8, <2>1 DEF Planned
<1>14. ASSUME NEW x \in F PROVE \E r \in Planned(plan, "prices") : r.slot = x
  <2>1. PICK i \in 1 .. n : L[i] = x
    BY <1>1 DEF ToSet
  <2> DEFINE k == 2 * i - 1
  <2>2. k \in 1 .. 2 * n /\ k % 2 = 1 /\ (k + 1) \div 2 = i
    BY <1>3
  <2> HIDE DEF k
  <2>3. plan[k].file = "prices" /\ plan[k].row = Price(k) /\ Price(k).slot = At(k) /\ At(k) = x
    BY <1>5, <1>7, <2>1, <2>2 DEF At
  <2>4. QED
    BY <1>8, <2>2, <2>3 DEF Planned
<1>15. \A r \in Planned(plan, "checkpoint") : r.phase = "prices"
  <2>1. ASSUME NEW k \in 1 .. 2 * n, plan[k].file = "checkpoint" PROVE plan[k].row.phase = "prices"
    BY <1>6, <1>7, <2>1
  <2>2. QED
    BY <1>8, <2>1 DEF Planned
<1>16. QED
  BY <1>8, <1>10, <1>12, <1>13, <1>14, <1>15 DEF W

\* A batch is taken out of the queue.
AmongOthers(q, q2, i) ==
  \A k \in DOMAIN q2 : q2[k] \cap q[i] = {} /\ \E l \in DOMAIN q : q2[k] = q[l]

LEMMA Taken ==
  ASSUME NEW T, NEW q \in Seq(T), NEW i \in DOMAIN q, NEW rows, Unasked(rows, <<>>, q),
         NEW q2, q2 = RemoveAt(q, i)
  PROVE  /\ q2 \in Seq(T) /\ Unasked(rows, <<>>, q2) /\ q[i] \cap Full(rows) = {} /\ AmongOthers(q, q2, i)
<1>1. q \in Seq(T)
  OBVIOUS
<1>2. q2 \in Seq(T) /\ Len(q2) = Len(q) - 1 /\ \A k \in 1 .. Len(q) - 1 : q2[k] = q[IF k < i THEN k ELSE k + 1]
  BY <1>1, OneOut
<1> DEFINE From(k) == IF k < i THEN k ELSE k + 1
<1>3. \A k \in DOMAIN q2 : From(k) \in DOMAIN q /\ q2[k] = q[From(k)] /\ From(k) # i
  <2>1. Len(q) \in Nat /\ DOMAIN q = 1 .. Len(q) /\ DOMAIN q2 = 1 .. Len(q) - 1
    BY <1>1, <1>2
  <2>2. QED
    BY <1>2, <2>1
<1>4. \A k, l \in DOMAIN q2 : k # l => From(k) # From(l)
  <2>1. DOMAIN q2 \subseteq Int /\ i \in Int
    BY <1>1, <1>2
  <2>2. QED
    BY <2>1
<1> HIDE DEF From
<1>5. /\ \A k \in DOMAIN q : q[k] \cap Full(rows) = {}
      /\ \A k, l \in DOMAIN q : l # k => q[k] \cap q[l] = {}
  BY DEF Unasked
<1>6. Unasked(rows, <<>>, q2)
  BY <1>3, <1>4, <1>5, PlannedNothing DEF Unasked
<1>7. \A k \in DOMAIN q2 : q2[k] \cap q[i] = {}
  BY <1>3, <1>5
<1>8. \A k \in DOMAIN q2 : \E l \in DOMAIN q : q2[k] = q[l]
  BY <1>3
<1>9. QED
  BY <1>2, <1>5, <1>6, <1>7, <1>8 DEF AmongOthers

LEMMA HandInQueue ==
  ASSUME DownloadInv, NEW s \in Shards, NEW i, InHand(s, i)
  PROVE  i \in DOMAIN queue[s] /\ queue[s] \in Seq(SUBSET AllOf(job, s))
<1> USE OfShard
<1>1. queue[s] \in Seq(SUBSET AllOf(job, s))
  BY DEF ShardKept, MemoryShape
<1>2. job.workers \in Nat \ {0} /\ Len(queue[s]) \in Nat
  BY <1>1, ShapeOfJob
<1> DEFINE m == Min({job.workers, Len(queue[s])})
<1>3. m \in Int /\ m <= Len(queue[s])
  <2> DEFINE a == job.workers
             b == Len(queue[s])
  <2>1. a \in Int /\ b \in Int
    BY <1>2
  <2> HIDE DEF a, b
  <2>2. Min({a, b}) \in {a, b} /\ Min({a, b}) <= b
    BY <2>1, LeastOfTwo
  <2>3. Min({a, b}) \in Int
    BY <2>1, <2>2
  <2>4. QED
    BY <2>2, <2>3 DEF a, b
<1>4. i \in 1 .. m
  BY DEF InHand
<1> HIDE DEF m
<1>5. QED
  BY <1>1, <1>2, <1>3, <1>4

LEMMA PricesKeep ==
  ASSUME DownloadInv, NEW s \in Shards, NEW i, PricesFetched(s, i) \/ PricesFail(s, i)
  PROVE  DownloadInv'
<1> USE OfShard
<1> DEFINE d == disk[s]
           rows == AllLines(d["prices"])
           e == Real(AllLines(d["events"]))
           p == Real(rows)
           c == Real(AllLines(d["checkpoint"]))
           known == existing[s]
           had == completed[s]
           q == queue[s]
           q2 == RemoveAt(q, i)
           plan == script'[s]
           had2 == completed'[s]
           min == minute[s]
           cur == cursor[s]
           seen == observations[s]
<1>1. /\ stage[s] = "fetching" /\ script[s] = <<>> /\ stage'[s] = "fetching" /\ queue'[s] = q2 /\ Others(s)
      /\ UNCHANGED <<bounds, disk, config, observations, stage, existing, cursor, minute, merged>>
      /\ \/ (plan = <<>> /\ had2 = had)
         \/ (had2 = had \cup q[i] /\ \E full \in SUBSET q[i] : plan = PriceWrites(SetToSeq(q[i]), full))
  <2>1. CASE PricesFetched(s, i)
    BY <2>1 DEF PricesFetched, InHand, Idle, Plan, Others, bounds
  <2>2. CASE PricesFail(s, i)
    BY <2>2 DEF PricesFail, InHand, Idle, Others, bounds
  <2>3. QED
    BY <2>1, <2>2
<1>2. i \in DOMAIN q /\ q \in Seq(SUBSET AllOf(job, s))
  <2>1. InHand(s, i)
    BY DEF PricesFetched, PricesFail
  <2>2. QED
    BY <2>1, HandInQueue
<1>3. ShardKept(job, s, d, <<>>, "fetching", known, cur, had, q, min, seen)
  BY <1>1
<1>4. /\ had \subseteq AllOf(job, s) /\ seen \in SUBSET AllOf(job, s) /\ min \in Int /\ min <= CutAt(job, s + 1)
      /\ Unasked(rows, <<>>, q)
  BY <1>3 DEF ShardKept, MemoryShape
<1> HIDE DEF q, rows, q2, plan, had2
<1>5. /\ q2 \in Seq(SUBSET AllOf(job, s)) /\ Unasked(rows, <<>>, q2) /\ q[i] \cap Full(rows) = {}
      /\ \A k \in DOMAIN q2 : q2[k] \cap q[i] = {}
      /\ \A k \in DOMAIN q2 : \E l \in DOMAIN q : q2[k] = q[l]
  <2> DEFINE T == SUBSET AllOf(job, s)
  <2>1. q \in Seq(T) /\ i \in DOMAIN q /\ Unasked(rows, <<>>, q) /\ q2 = RemoveAt(q, i)
    BY <1>2, <1>4 DEF q2
  <2> HIDE DEF T
  <2>2. q2 \in Seq(T) /\ Unasked(rows, <<>>, q2) /\ q[i] \cap Full(rows) = {} /\ AmongOthers(q, q2, i)
    BY ONLY <2>1, Taken
  <2>3. QED
    BY <2>2 DEF T, AmongOthers
<1>6. q[i] \in SUBSET AllOf(job, s)
  BY <1>2
<1>7. /\ plan \in Seq(WritesOf(job, s)) /\ PlannedOnce(plan) /\ EventsFirst(plan) /\ Planned(plan, "events") = {}
      /\ \A r \in Planned(plan, "checkpoint") : r.phase = "prices"
      /\ \/ (Planned(plan, "prices") = {} /\ had2 = had)
         \/ /\ had2 = had \cup q[i] /\ \A r \in Planned(plan, "prices") : r.slot \in q[i]
            /\ \A x \in q[i] : \E r \in Planned(plan, "prices") : r.slot = x
  <2>1. CASE plan = <<>> /\ had2 = had
    BY <2>1, RestPlans, PlannedNothing
  <2>2. CASE had2 = had \cup q[i] /\ \E full \in SUBSET q[i] : plan = PriceWrites(SetToSeq(q[i]), full)
    <3>1. PICK full \in SUBSET q[i] : plan = PriceWrites(SetToSeq(q[i]), full)
      BY <2>2
    <3> DEFINE F == q[i]
    <3>2. F \in SUBSET AllOf(job, s) /\ plan = PriceWrites(SetToSeq(F), full)
      BY <1>6, <3>1
    <3> HIDE DEF F
    <3>3. /\ plan \in Seq(WritesOf(job, s)) /\ PlannedOnce(plan) /\ EventsFirst(plan) /\ Planned(plan, "events") = {}
          /\ \A r \in Planned(plan, "prices") : r.slot \in F
          /\ \A x \in F : \E r \in Planned(plan, "prices") : r.slot = x
          /\ \A r \in Planned(plan, "checkpoint") : r.phase = "prices"
      BY <3>2, PricePlan
    <3>4. QED
      BY <2>2, <3>3 DEF F
  <2>3. QED
    BY <1>1, <2>1, <2>2
<1>8. Unasked(rows, plan, q2) /\ had2 \in SUBSET AllOf(job, s)
  <2>1. \A r \in Planned(plan, "prices") : r.slot \in q[i]
    BY <1>7
  <2>2. \A r \in Planned(plan, "prices") : r.slot \notin Full(rows) /\ \A k \in DOMAIN q2 : r.slot \notin q2[k]
    BY <1>5, <2>1
  <2>3. QED
    BY <1>4, <1>5, <1>6, <1>7, <2>2 DEF Unasked
<1>9. ShardKept(job, s, d, plan, "fetching", known, cur, had2, q2, min, seen)
  <2>1. ShardKept(job, s, d, <<>>, "fetching", known, cur, had, q, min, seen) /\ Unasked(AllLines(d["prices"]), plan, q2)
    BY <1>3, <1>8 DEF rows
  <2>2. plan \in Seq(WritesOf(job, s)) /\ PlannedOnce(plan) /\ Planned(plan, "events") = {}
    BY <1>7
  <2>3. had2 \in SUBSET AllOf(job, s) /\ q2 \in Seq(SUBSET AllOf(job, s)) /\ seen \in SUBSET AllOf(job, s)
        /\ min \in Int /\ min <= CutAt(job, s + 1) /\ job \in Jobs /\ s \in ShardsOf(job)
    BY <1>4, <1>5, <1>8
  <2> HIDE DEF d, known, cur, had, min, seen
  <2>4. QED
    BY ONLY <2>1, <2>2, <2>3, LaterKept
<1>10. ASSUME torn = 0
       PROVE  ShardTrue(job, s, d, plan, "fetching", known, cur, had2, q2, seen)
  <2>1. ShardTrue(job, s, d, <<>>, "fetching", known, cur, had, q, seen)
    BY <1>1, <1>10 DEF q
  <2>2. PricesTrue(e, c, p, {}, {}, had, q, seen)
    BY <2>1, LaterTrue DEF rows
  <2> DEFINE pk == Planned(plan, "checkpoint")
             pp == Planned(plan, "prices")
  <2>3. PricesTrue(e, c, p, pk, pp, had2, q2, seen)
    <3>1. \A r \in pp : r.slot \in q[i]
      BY <1>7
    <3>2. \A x \in had2 : x \in had \/ \E r \in pp : r.slot = x
      BY <1>7
    <3>3. \A r \in pk : r.phase # "complete"
      BY <1>7
    <3> HIDE DEF e, c, p, pk, pp, had, had2, seen
    <3>4. /\ (\A r \in p : r.slot \in e) /\ (\A k \in DOMAIN q : q[k] \subseteq e) /\ (\A x \in had : \E r \in p : r.slot = x)
          /\ ((\E r \in c : r.phase = "complete") => Complete(c) /\ \A x \in e : \E r \in p : r.slot = x) /\ seen \subseteq e
      BY <2>2 DEF PricesTrue
    <3>5. q[i] \subseteq e /\ \A k \in DOMAIN q2 : q2[k] \subseteq e
      BY <1>2, <1>5, <3>4
    <3>6. QED
      BY <3>1, <3>2, <3>3, <3>4, <3>5 DEF PricesTrue
  <2>4. Catalogs(Planned(plan, "checkpoint")) = {}
    BY <1>7 DEF Catalogs
  <2>5. PricesTrue(Real(AllLines(d["events"])), Real(AllLines(d["checkpoint"])), Real(AllLines(d["prices"])),
                   Planned(plan, "checkpoint"), Planned(plan, "prices"), had2, q2, seen)
    BY <2>3 DEF rows
  <2> DEFINE step == "fetching"
  <2>6. step \in {"prices", "fetching"} /\ step \in {"fetching", "finished"}
        /\ ShardTrue(job, s, d, <<>>, step, known, cur, had, q, seen)
    BY <2>1
  <2> HIDE DEF step, d, known, cur, had, seen
  <2>7. ShardTrue(job, s, d, plan, step, known, cur, had2, q2, seen)
    BY <1>7, <2>4, <2>5, <2>6, LaterStep
  <2>8. QED
    BY <2>7 DEF step
<1>11. torn' \in torn .. job.maxTorn /\ torn' = torn /\ disk'[s] = d /\ existing'[s] = known /\ minute'[s] = min
       /\ cursor'[s] = cur /\ observations'[s] = seen /\ config'[s] \in {Null, "written", Garbage}
  BY <1>1 DEF bounds
<1> HIDE DEF d, known, cur, seen, min
<1>12. QED
  BY <1>1, <1>9, <1>10, <1>11, Framed DEF plan, had2

\* Candles, and the row of their batch.
LEMMA CandlePlan ==
  ASSUME NEW j \in Jobs, NEW s \in ShardsOf(j), NEW F \in SUBSET Int, IsFiniteSet(F), NEW row \in ChecksOf(j, s),
         row.phase # "catalog", NEW plan, plan = ListPlan("candles", F, row)
  PROVE  /\ plan \in Seq(WritesOf(j, s)) /\ PlannedOnce(plan) /\ EventsFirst(plan)
         /\ Planned(plan, "events") = {} /\ Planned(plan, "prices") = {} /\ Planned(plan, "checkpoint") = {row}
<1> DEFINE W == WritesOf(j, s)
           L == SetToSeq(F)
           kind == "candles"
<1>1. (\A x \in F : Write("candles", x) \in W) /\ Write("checkpoint", row) \in W
  BY DEF Write, WritesOf
<1> HIDE DEF W
<1>2. PICK n \in Nat : /\ plan \in Seq(W) /\ DOMAIN plan = 1 .. n + 1 /\ plan[n + 1] = Write("checkpoint", row)
                       /\ \A i \in 1 .. n : plan[i] = Write("candles", L[i]) /\ L[i] \in F
                       /\ \A x \in F : \E i \in 1 .. n : L[i] = x
                       /\ \A i, k \in 1 .. n : L[i] = L[k] => i = k
  <2>1. /\ \A x \in F : Write(kind, x) \in W
        /\ Write("checkpoint", row) \in W /\ plan = ListPlan(kind, F, row) /\ IsFiniteSet(F)
    BY <1>1
  <2> HIDE DEF kind
  <2>2. IsList(plan, kind, F, row, W)
    BY ONLY <2>1, ListThenRow
  <2>3. IsList(plan, "candles", F, row, W)
    BY ONLY <2>2 DEF kind
  <2> HIDE DEF L
  <2>4. QED
    BY ONLY <2>3 DEF IsList, L
<1> HIDE DEF L
<1>3. /\ \A i \in 1 .. n : plan[i].file = "candles" /\ plan[i].row = L[i]
      /\ plan[n + 1].file = "checkpoint" /\ plan[n + 1].row = row
  <2>1. \A k, x : Write(k, x).file = k /\ Write(k, x).row = x
    BY DEF Write
  <2>2. QED
    BY <1>2, <2>1
<1>4. \A i \in DOMAIN plan : i \in 1 .. n \/ i = n + 1
  BY <1>2
<1>5. n + 1 \in DOMAIN plan
  BY <1>2
<1>6. \A i \in DOMAIN plan : plan[i].file \notin {"events", "prices"} /\ ~ IsCatalog(plan[i])
  BY <1>3, <1>4 DEF IsCatalog
<1>7. PlannedOnce(plan) /\ EventsFirst(plan) /\ Planned(plan, "events") = {} /\ Planned(plan, "prices") = {}
  BY <1>6 DEF PlannedOnce, EventsFirst, Planned
<1>8. Planned(plan, "checkpoint") = {row}
  BY <1>3, <1>4, <1>5 DEF Planned
<1>9. QED
  BY <1>2, <1>7, <1>8 DEF W

\* Neither candles nor a manifest ask for events or prices.
LEMMA LastSteps ==
  ASSUME DownloadInv, NEW s \in Shards, stage[s] = "fetching", script[s] = <<>>, Others(s),
         UNCHANGED <<job, torn, disk, config, existing, cursor, completed, queue>>,
         NEW plan \in Seq(WritesOf(job, s)), PlannedOnce(plan), EventsFirst(plan), script'[s] = plan,
         Planned(plan, "events") = {}, Planned(plan, "prices") = {},
         Catalogs(Planned(plan, "checkpoint")) = {},
         NEW step2 \in {"fetching", "finished"}, stage'[s] = step2, NEW min2 \in Int, min2 <= CutAt(job, s + 1), minute'[s] = min2,
         NEW seen2, seen2 \subseteq Real(AllLines(disk[s]["events"])) \/ seen2 = observations[s], observations'[s] = seen2,
         torn = 0 /\ (\E r \in Planned(plan, "checkpoint") : r.phase = "complete") =>
           \A x \in Real(AllLines(disk[s]["events"])) : \E r \in Real(AllLines(disk[s]["prices"])) : r.slot = x
  PROVE  DownloadInv'
<1> USE OfShard
<1> DEFINE d == disk[s]
           e == Real(AllLines(d["events"]))
           p == Real(AllLines(d["prices"]))
           c == Real(AllLines(d["checkpoint"]))
           known == existing[s]
           had == completed[s]
           q == queue[s]
           cur == cursor[s]
           seen == observations[s]
           min == minute[s]
           pk == Planned(plan, "checkpoint")
<1>1. ShardKept(job, s, d, <<>>, "fetching", known, cur, had, q, min, seen)
  OBVIOUS
<1>2. /\ had \in SUBSET AllOf(job, s) /\ seen \in SUBSET AllOf(job, s) /\ Unasked(AllLines(d["prices"]), <<>>, q)
      /\ q \in Seq(SUBSET AllOf(job, s)) /\ DiskShape(job, s, d)
  BY <1>1 DEF ShardKept, MemoryShape
<1>3. Unasked(AllLines(d["prices"]), plan, q)
  BY <1>2 DEF Unasked
<1>4. seen2 \in SUBSET AllOf(job, s)
  <2>1. AllLines(d["events"]) \in Seq(AllOf(job, s) \cup {Garbage})
    BY <1>2, RowsOfShape
  <2>2. e \subseteq AllOf(job, s)
    BY <2>1 DEF Real, ToSet
  <2>3. QED
    BY <1>2, <2>2
<1>5. ShardKept(job, s, d, plan, step2, known, cur, had, q, min2, seen2)
  <2>1. job \in Jobs /\ s \in ShardsOf(job) /\ plan \in Seq(WritesOf(job, s)) /\ PlannedOnce(plan)
        /\ Planned(plan, "events") = {} /\ min2 <= CutAt(job, s + 1) /\ min2 \in Int /\ step2 \in {"fetching", "finished"}
    OBVIOUS
  <2> HIDE DEF d, known, cur, had, q, min
  <2>2. QED
    BY ONLY <1>1, <1>2, <1>3, <1>4, <2>1, LaterKept
<1>6. ASSUME torn = 0
      PROVE  ShardTrue(job, s, d, plan, step2, known, cur, had, q, seen2)
  <2>1. ShardTrue(job, s, d, <<>>, "fetching", known, cur, had, q, seen)
    BY <1>6
  <2>2. PricesTrue(e, c, p, {}, {}, had, q, seen) /\ Complete(c)
    BY <2>1, LaterTrue
  <2>3. (\E r \in pk : r.phase = "complete") => \A x \in e : \E r \in p : r.slot = x
    BY <1>6
  <2>4. seen2 \subseteq e
    BY <2>2 DEF PricesTrue
  <2>5. PricesTrue(e, c, p, pk, {}, had, q, seen2)
    <3> HIDE DEF e, c, p, pk, had, q
    <3>1. QED
      BY <2>2, <2>3, <2>4 DEF PricesTrue
  <2>6. PricesTrue(Real(AllLines(d["events"])), Real(AllLines(d["checkpoint"])), Real(AllLines(d["prices"])),
                   Planned(plan, "checkpoint"), Planned(plan, "prices"), had, q, seen2)
    BY <2>5
  <2>7. job \in Jobs /\ s \in ShardsOf(job) /\ EventsFirst(plan) /\ Planned(plan, "events") = {}
        /\ Catalogs(Planned(plan, "checkpoint")) = {} /\ step2 \in {"fetching", "finished"}
    OBVIOUS
  <2> HIDE DEF d, known, cur, had, q, seen
  <2>8. QED
    BY ONLY <2>1, <2>6, <2>7, LaterStep
<1>7. torn' \in torn .. job.maxTorn /\ config'[s] \in {Null, "written", Garbage}
  OBVIOUS
<1>8. QED
  BY <1>5, <1>6, <1>7, Framed

LEMMA CandlesKeep ==
  ASSUME DownloadInv, NEW s \in Shards, CandlesFetched(s)
  PROVE  DownloadInv'
<1> USE OfShard
<1> DEFINE to == Min({minute[s] + job.span, CutAt(job, s + 1)})
           batch == <<minute[s], to>>
           plan == script'[s]
<1>1. /\ stage[s] = "fetching" /\ script[s] = <<>> /\ stage'[s] = "fetching" /\ minute'[s] = to /\ Others(s)
      /\ UNCHANGED <<job, torn, disk, config, observations, existing, cursor, completed, queue>>
      /\ \/ plan = <<>>
         \/ \E missing \in SUBSET job.flaky :
              plan = CandleWrites(SetToSeq((minute[s] .. to - 1) \ (missing \cup read_jsonl(s, "candles"))), batch)
  BY DEF CandlesFetched, Idle, Plan, Others, bounds, shard_end
<1>2. minute[s] \in Int /\ job.span \in Int /\ CutAt(job, s + 1) \in Int
  <2>1. s + 1 \in 0 .. job.count
    BY ShapeOfJob DEF ShardsOf
  <2>2. CutAt(job, s + 1) \in Nat
    BY <2>1, CutsGrow
  <2>3. minute[s] \in Int
    BY DEF ShardKept, MemoryShape
  <2>4. job.span \in Nat
    BY ShapeOfJob
  <2>5. QED
    BY <2>2, <2>3, <2>4
<1>3. to \in Int /\ to <= CutAt(job, s + 1)
  <2> DEFINE a == minute[s] + job.span
             b == CutAt(job, s + 1)
  <2>1. a \in Int /\ b \in Int
    BY <1>2
  <2> HIDE DEF a, b
  <2>2. Min({a, b}) \in {a, b} /\ Min({a, b}) <= b
    BY <2>1, LeastOfTwo
  <2>3. Min({a, b}) \in Int
    BY <2>1, <2>2
  <2>4. QED
    BY <2>2, <2>3 DEF a, b
<1> HIDE DEF to, plan
<1>4. Row("candles", batch, TRUE) \in ChecksOf(job, s) /\ Row("candles", batch, TRUE).phase = "candles"
  <2> DEFINE phase == "candles"
  <2>1. batch \in Int \cup (Int \X Int) /\ phase \in Phases \ {"catalog"} /\ TRUE \in BOOLEAN
    BY <1>2, <1>3 DEF Phases
  <2> HIDE DEF phase, batch
  <2>2. Row(phase, batch, TRUE) \in ChecksOf(job, s) /\ Row(phase, batch, TRUE).phase = phase
    BY <2>1, RowKinds
  <2>3. QED
    BY <2>2 DEF phase
<1> DEFINE row == Row("candles", batch, TRUE)
<1>5. /\ plan \in Seq(WritesOf(job, s)) /\ PlannedOnce(plan) /\ EventsFirst(plan)
      /\ Planned(plan, "events") = {} /\ Planned(plan, "prices") = {} /\ Planned(plan, "checkpoint") \subseteq {row}
  <2>1. CASE plan = <<>>
    BY <2>1, RestPlans, PlannedNothing
  <2>2. ASSUME NEW missing \in SUBSET job.flaky,
               plan = CandleWrites(SetToSeq((minute[s] .. to - 1) \ (missing \cup read_jsonl(s, "candles"))), batch)
        PROVE  /\ plan \in Seq(WritesOf(job, s)) /\ PlannedOnce(plan) /\ EventsFirst(plan)
               /\ Planned(plan, "events") = {} /\ Planned(plan, "prices") = {} /\ Planned(plan, "checkpoint") = {row}
    <3> DEFINE F == (minute[s] .. to - 1) \ (missing \cup read_jsonl(s, "candles"))
    <3>1. F \in SUBSET Int /\ IsFiniteSet(F)
      <4>1. to - 1 \in Int
        BY <1>3
      <4>2. IsFiniteSet(minute[s] .. to - 1)
        BY <1>2, <4>1, FS_Interval
      <4>3. F \in SUBSET (minute[s] .. to - 1)
        OBVIOUS
      <4> HIDE DEF F
      <4>4. IsFiniteSet(F)
        BY <4>2, <4>3, FS_Subset
      <4>5. QED
        BY <4>3, <4>4
    <3>2. plan = ListPlan("candles", F, row)
      BY <2>2 DEF CandleWrites, ListPlan
    <3>3. row \in ChecksOf(job, s) /\ row.phase # "catalog" /\ job \in Jobs /\ s \in ShardsOf(job)
      BY <1>4
    <3> HIDE DEF F, row
    <3>4. QED
      BY <3>1, <3>2, <3>3, CandlePlan
  <2>3. QED
    BY <1>1, <2>1, <2>2
<1>6. Catalogs(Planned(plan, "checkpoint")) = {} /\ \A r \in Planned(plan, "checkpoint") : r.phase # "complete"
  BY <1>4, <1>5 DEF Catalogs
<1> HIDE DEF row
<1>7. observations'[s] = observations[s]
  BY <1>1
<1>8. script'[s] = plan
  BY DEF plan
<1>9. QED
  BY <1>1, <1>3, <1>5, <1>6, <1>7, <1>8, LastSteps

LEMMA OneRow ==
  ASSUME NEW j, NEW s, NEW row \in ChecksOf(j, s), row.phase # "catalog", NEW plan, plan = <<Write("checkpoint", row)>>
  PROVE  /\ plan \in Seq(WritesOf(j, s)) /\ PlannedOnce(plan) /\ EventsFirst(plan)
         /\ Planned(plan, "events") = {} /\ Planned(plan, "prices") = {} /\ Planned(plan, "checkpoint") = {row}
<1> DEFINE W == WritesOf(j, s)
           w == Write("checkpoint", row)
<1>1. w \in W /\ w.file = "checkpoint" /\ w.row = row
  BY DEF Write, WritesOf
<1> HIDE DEF W, w
<1>2. <<w>> \in Seq(W)
  BY ONLY <1>1
<1>3. DOMAIN plan = {1} /\ plan[1] = w /\ plan \in Seq(W)
  BY <1>2 DEF w
<1>4. ~ IsCatalog(w)
  BY <1>1 DEF IsCatalog
<1>5. PlannedOnce(plan) /\ EventsFirst(plan)
  BY <1>3, <1>4 DEF PlannedOnce, EventsFirst
<1>6. Planned(plan, "events") = {} /\ Planned(plan, "prices") = {} /\ Planned(plan, "checkpoint") = {row}
  BY <1>1, <1>3 DEF Planned
<1>7. QED
  BY <1>3, <1>5, <1>6 DEF W

LEMMA ManifestKeeps ==
  ASSUME DownloadInv, NEW s \in Shards, write_manifest(s)
  PROVE  DownloadInv'
<1> USE OfShard
<1> DEFINE left == Cardinality(existing[s]) - Cardinality(completed[s])
           phase == IF left = 0 THEN "complete" ELSE "run_finished"
           row == Row(phase, 0, TRUE)
           plan == <<Write("checkpoint", row)>>
           e == Real(AllLines(disk[s]["events"]))
           p == Real(AllLines(disk[s]["prices"]))
           c == Real(AllLines(disk[s]["checkpoint"]))
<1>1. /\ stage[s] = "fetching" /\ script[s] = <<>> /\ stage'[s] = "finished" /\ script'[s] = plan /\ Others(s)
      /\ minute'[s] = minute[s] /\ observations'[s] = build_observations(s)
      /\ UNCHANGED <<job, torn, disk, config, existing, cursor, completed, queue>>
  BY DEF write_manifest, Idle, Goto, Plan, Others, bounds, memory
<1>2. build_observations(s) \subseteq e
  BY DEF build_observations, read_jsonl, Rows, Real
<1>3. minute[s] \in Int /\ minute[s] <= CutAt(job, s + 1)
  BY DEF ShardKept, MemoryShape
<1>4. phase \in Phases \ {"catalog"} /\ (phase = "complete" <=> left = 0)
  BY DEF Phases
<1> HIDE DEF phase, left
<1>5. row \in ChecksOf(job, s) /\ row.phase = phase /\ row.phase # "catalog"
  <2>1. 0 \in Int \cup (Int \X Int)
    OBVIOUS
  <2>2. row \in ChecksOf(job, s) /\ row.phase = phase
    BY <1>4, <2>1, RowKinds
  <2>3. QED
    BY <1>4, <2>2
<1> HIDE DEF row
<1>6. /\ plan \in Seq(WritesOf(job, s)) /\ PlannedOnce(plan) /\ EventsFirst(plan)
      /\ Planned(plan, "events") = {} /\ Planned(plan, "prices") = {} /\ Planned(plan, "checkpoint") = {row}
  BY <1>5, OneRow
<1> HIDE DEF plan
<1>7. Catalogs(Planned(plan, "checkpoint")) = {}
  BY <1>5, <1>6 DEF Catalogs
<1>8. ASSUME torn = 0, \E r \in Planned(plan, "checkpoint") : r.phase = "complete"
      PROVE  \A x \in e : \E r \in p : r.slot = x
  <2>1. left = 0
    BY <1>4, <1>5, <1>6, <1>8
  <2>2. ShardTrue(job, s, disk[s], <<>>, "fetching", existing[s], cursor[s], completed[s], queue[s], observations[s])
    BY <1>1, <1>8
  <2>3. existing[s] = e /\ PricesTrue(e, c, p, {}, {}, completed[s], queue[s], observations[s])
    BY <2>2, LaterTrue
  <2>4. completed[s] \subseteq e /\ \A x \in completed[s] : \E r \in p : r.slot = x
    <3> HIDE DEF e, c, p
    <3>1. QED
      BY <2>3 DEF PricesTrue
  <2>5. IsFiniteSet(existing[s])
    <3>1. existing[s] \in SUBSET AllOf(job, s)
      BY DEF ShardKept, MemoryShape
    <3>2. QED
      BY <3>1, FewEvents
  <2> DEFINE A == existing[s]
             B == completed[s]
  <2>6. IsFiniteSet(A) /\ B \in SUBSET A /\ Cardinality(A) - Cardinality(B) = 0
    BY <2>1, <2>3, <2>4, <2>5 DEF left
  <2> HIDE DEF A, B
  <2>7. IsFiniteSet(B) /\ (Cardinality(A) = Cardinality(B) => A = B)
    BY <2>6, FS_Subset
  <2>8. Cardinality(A) \in Nat /\ Cardinality(B) \in Nat
    BY <2>6, <2>7, FS_CardinalityType
  <2>9. A = B
    BY <2>6, <2>7, <2>8
  <2>10. QED
    BY <2>3, <2>4, <2>9 DEF A, B
<1>9. QED
  BY <1>1, <1>2, <1>3, <1>6, <1>7, <1>8, LastSteps

----------------------------------------------------------------------------
(* The invariant of the download. *)

LEMMA DownloadStarts == DownloadInit => DownloadInv
<1> SUFFICES ASSUME DownloadInit PROVE DownloadInv
  OBVIOUS
<1>1. job \in Jobs /\ job.maxTorn \in Nat
  BY ShapeOfJob DEF DownloadInit
<1>2. Tables
  BY <1>1 DEF DownloadInit, Tables
<1>3. ASSUME NEW s \in Shards PROVE Kept(s) /\ True(s)
  <2>1. s \in ShardsOf(job)
    BY DEF Shards, ShardsOf
  <2> DEFINE d == [name \in Files |-> EmptyFile]
  <2>2. /\ disk[s] = d /\ script[s] = <<>> /\ stage[s] = "down" /\ existing[s] = {} /\ cursor[s] = 0
        /\ completed[s] = {} /\ queue[s] = <<>> /\ minute[s] = 0 /\ observations[s] = {}
    BY DEF DownloadInit
  <2>3. AtRest(<<>>, "down", {}, 0, {}, <<>>, 0)
    BY DEF AtRest
  <2>4. EmptyFile.lines = <<>> /\ EmptyFile.tail = NoTail /\ AllLines(EmptyFile) = <<>>
    BY DEF EmptyFile, AllLines
  <2>5. /\ DOMAIN d = Files /\ \A name \in Files : d[name] = EmptyFile
        /\ "events" \in Files /\ "prices" \in Files /\ "candles" \in Files /\ "checkpoint" \in Files
    BY DEF Files
  <2> HIDE DEF d
  <2>6. \A S : EmptyFile \in FilesOf(S)
    <3>1. ASSUME NEW S PROVE [lines |-> <<>>, tail |-> NoTail] \in [lines : Seq(S), tail : S \cup {NoTail}]
      OBVIOUS
    <3>2. QED
      BY <3>1 DEF EmptyFile, FilesOf
  <2>7. DiskShape(job, s, d)
    BY <2>5, <2>6 DEF DiskShape
  <2>8. Apart(AllLines(d["events"])) /\ NeverWorse(AllLines(d["prices"])) /\ DoneIsLast(AllLines(d["checkpoint"]))
    BY <2>4, <2>5 DEF Apart, NeverWorse, DoneIsLast
  <2>9. ShardKept(job, s, d, <<>>, "down", {}, 0, {}, <<>>, 0, {})
    BY <1>1, <2>1, <2>3, <2>7, <2>8, RestKept
  <2>10. ShardTrue(job, s, d, <<>>, "down", {}, 0, {}, <<>>, {})
    <3>1. Real(AllLines(d["events"])) = {} /\ Real(AllLines(d["checkpoint"])) = {} /\ Real(AllLines(d["prices"])) = {}
      BY <2>4, <2>5 DEF Real, ToSet
    <3>2. Catalogs({}) = {} /\ ~ Complete({}) /\ EventsFirst(<<>>)
      BY DEF Catalogs, Complete, EventsFirst
    <3>3. CatalogTrue(job, s, {}, {}, {}, {}, "down", {}, 0)
      BY <3>2 DEF CatalogTrue, Up
    <3>4. PricesTrue({}, {}, {}, {}, {}, {}, <<>>, {})
      BY DEF PricesTrue
    <3>5. \A name \in Files : IsWhole(d[name])
      BY <2>4, <2>5 DEF IsWhole
    <3>6. QED
      BY <2>8, <3>1, <3>2, <3>3, <3>4, <3>5, PlannedNothing DEF ShardTrue
  <2>11. QED
    BY <2>2, <2>9, <2>10 DEF Kept, True
<1>4. QED
  BY <1>2, <1>3 DEF DownloadInv

LEMMA DownloadKeeps == DownloadInv /\ [DownloadNext]_download_vars => DownloadInv'
<1> SUFFICES ASSUME DownloadInv, [DownloadNext]_download_vars PROVE DownloadInv'
  OBVIOUS
<1>1. CASE merge_shards \/ UNCHANGED download_vars
  <2>1. UNCHANGED <<job, torn, disk, config, observations, stage, script, existing, cursor, completed, queue, minute>>
    BY <1>1 DEF merge_shards, download_vars, bounds, memory
  <2>2. QED
    BY <2>1 DEF DownloadInv, Tables, Kept, True, Shards
<1>2. ASSUME NEW s \in Shards, Run(s) PROVE DownloadInv'
  <2>1. CASE Begin(s) \/ initialize_output(s)
    BY <2>1, BeginKeeps
  <2>2. CASE InitializeRaises(s) \/ Killed(s) \/ Finish(s)
    <3>1. Ends(s) /\ UNCHANGED <<job, observations, disk, config, torn>>
      BY <2>2 DEF InitializeRaises, Killed, Finish, bounds
    <3>2. QED
      BY <3>1, EndsWhole
  <2>3. CASE ReadCatalog(s)
    BY <2>3, ReadKeeps
  <2>4. CASE FetchPage(s)
    BY <2>4, FetchKeeps
  <2>5. CASE Gather(s)
    BY <2>5, GatherKeeps
  <2>6. CASE CandlesFetched(s)
    BY <2>6, CandlesKeep
  <2>7. CASE write_manifest(s)
    BY <2>7, ManifestKeeps
  <2>8. CASE append_jsonl(s)
    BY <2>8, AppendKeeps
  <2>9. CASE LineTorn(s)
    BY <2>9, LineTornKeeps
  <2>10. CASE ConfigTorn(s)
    BY <2>10, ConfigTornKeeps
  <2>11. ASSUME NEW i \in 1 .. job.workers, PricesFetched(s, i) \/ PricesFail(s, i) PROVE DownloadInv'
    BY <2>11, PricesKeep
  <2>12. QED
    BY <1>2, <2>1, <2>2, <2>3, <2>4, <2>5, <2>6, <2>7, <2>8, <2>9, <2>10, <2>11 DEF Run
<1>3. QED
  BY <1>1, <1>2 DEF DownloadNext

----------------------------------------------------------------------------
(* What follows of it. *)

LEMMA KindOk == DownloadInv => DownloadTypeOK
<1> SUFFICES ASSUME DownloadInv PROVE DownloadTypeOK
  OBVIOUS
<1>1. torn \in 0 .. job.maxTorn
  BY DEF DownloadInv, Tables
<1>2. ASSUME NEW s \in Shards
      PROVE  /\ config[s] \in {Null, "written", Garbage} /\ observations[s] \subseteq Slots
             /\ stage[s] \in {"down", "config", "reading", "catalog", "prices", "fetching", "finished"}
             /\ existing[s] \subseteq Slots /\ completed[s] \subseteq Slots
             /\ cursor[s] \in 0 .. Len(job.feed[s]) /\ minute[s] <= shard_end(s)
  <2> USE OfShard
  <2>1. AllOf(job, s) \subseteq Slots
    BY ChosenInRange DEF Slots
  <2>2. MemoryShape(job, s, stage[s], existing[s], cursor[s], completed[s], queue[s], minute[s])
        /\ observations[s] \subseteq AllOf(job, s)
    BY DEF ShardKept
  <2>3. QED
    BY <2>1, <2>2 DEF MemoryShape, Stages, shard_end
<1>3. QED
  BY <1>1, <1>2 DEF DownloadTypeOK

LEMMA StaysOk == DownloadInv => AvailableStays
<1> SUFFICES ASSUME DownloadInv, NEW s \in Shards, NEW slot \in Priced(s) PROVE LastPrice(s, slot).full
  BY DEF AvailableStays
<1> DEFINE rows == Rows(s, "prices")
           T == PricePlaces(s, slot)
<1>1. NeverWorse(rows) /\ rows \in Seq(PricesOf(job, s) \cup {Garbage})
  <2>1. job \in Jobs /\ s \in ShardsOf(job) /\ DiskShape(job, s, disk[s]) /\ NeverWorse(AllLines(disk[s]["prices"]))
    BY OfShard DEF ShardKept
  <2>2. QED
    BY <2>1, RowsOfShape DEF Rows
<1>2. T = {i \in DOMAIN rows : rows[i] # Garbage /\ rows[i].slot = slot}
  BY DEF PricePlaces
<1>3. PICK i \in DOMAIN rows : rows[i] # Garbage /\ rows[i].slot = slot /\ rows[i].full
  BY DEF Priced, read_jsonl, ToSet
<1> HIDE DEF T, rows
<1>4. T \in SUBSET (0 .. Len(rows)) /\ T # {} /\ Len(rows) \in Nat /\ i \in T
  BY <1>1, <1>2, <1>3
<1>5. Max(T) \in T /\ \A x \in T : x <= Max(T)
  BY <1>4, Greatest
<1> DEFINE m == Max(T)
<1>6. m \in DOMAIN rows /\ rows[m] # Garbage /\ rows[m].slot = slot /\ i <= m /\ m \in Int /\ i \in Int
  BY <1>1, <1>2, <1>4, <1>5
<1>7. LastPrice(s, slot) = rows[m]
  BY DEF LastPrice, rows, T
<1> HIDE DEF m
<1>8. CASE i = m
  BY <1>3, <1>7, <1>8
<1>9. CASE i # m
  <2>1. i < m
    BY <1>6, <1>9
  <2>2. QED
    BY <1>1, <1>3, <1>6, <1>7, <2>1 DEF NeverWorse
<1>10. QED
  BY <1>8, <1>9

\* What the pages of a shard select, and what is on file of it.
LEMMA CatalogOnDisk ==
  ASSUME DownloadInv, torn = 0, NEW s \in Shards
  PROVE  /\ Selected(s, 1 .. PagesDone(s)) \subseteq read_jsonl(s, "events")
         /\ checkpoint_state(s).done => read_jsonl(s, "events") = AllOf(job, s)
         /\ observations[s] \subseteq read_jsonl(s, "events")
<1> USE OfShard
<1> DEFINE r == checkpoint_state(s)
           e == Real(AllLines(disk[s]["events"]))
           c == Real(AllLines(disk[s]["checkpoint"]))
           n == PagesOf(job, s, r)
<1>1. e = read_jsonl(s, "events")
  BY DEF Real, read_jsonl, Rows
<1>2. \A pages : Selected(s, pages) = ChosenOf(job, s, pages)
  BY DEF Selected, ChosenOf, select_event, shard_start, shard_end
<1>3. PagesDone(s) = n
  BY DEF PagesDone, PagesOf
<1>4. r.done \in BOOLEAN /\ (r \in Catalogs(c) \/ (r.at = 0 /\ ~ r.done))
  <2> DEFINE rows == AllLines(disk[s]["checkpoint"])
  <2>1. r.done \in BOOLEAN /\ (r \in Catalogs(Real(rows)) \/ (r.at = 0 /\ ~ r.done /\ Catalogs(Real(rows)) = {}))
    BY LastCatalog
  <2>2. QED
    BY <2>1
<1>5. (\A x \in Catalogs(c) : ChosenOf(job, s, 1 .. PagesOf(job, s, x)) \subseteq e) /\ observations[s] \subseteq e
  BY DEF ShardTrue, CatalogTrue, PricesTrue
<1>6. Len(job.feed[s]) \in Nat \ {0}
  BY ShapeOfJob
<1>7. ChosenOf(job, s, 1 .. 0) = {} /\ ChosenOf(job, s, 1 .. Len(job.feed[s])) = AllOf(job, s)
  <2>1. 0 \in 0 .. Len(job.feed[s])
    BY <1>6
  <2>2. QED
    BY <2>1, ChosenOfPages
<1>8. ChosenOf(job, s, 1 .. n) \subseteq e
  <2>1. CASE r \in Catalogs(c)
    BY <1>5, <2>1
  <2>2. CASE r.at = 0 /\ ~ r.done
    BY <1>7, <2>2 DEF PagesOf
  <2>3. QED
    BY <1>4, <2>1, <2>2
<1>9. e \subseteq AllOf(job, s)
  <2>1. AllLines(disk[s]["events"]) \in Seq(AllOf(job, s) \cup {Garbage})
    BY RowsOfShape DEF ShardKept
  <2>2. QED
    BY <2>1 DEF Real, ToSet
<1>10. r.done => e = AllOf(job, s)
  BY <1>7, <1>8, <1>9 DEF PagesOf
<1>11. QED
  BY <1>1, <1>2, <1>3, <1>5, <1>8, <1>10

LEMMA CoveredOk == DownloadInv => CatalogCovered
BY CatalogOnDisk DEF CatalogCovered

LEMMA CompleteOk == DownloadInv => CompleteIsTrue
<1> SUFFICES ASSUME DownloadInv, torn = 0, NEW s \in Shards, stage[s] = "finished",
                    NEW r \in read_jsonl(s, "checkpoint"), r.phase = "complete", NEW slot \in existing[s]
             PROVE  HasPrice(s, slot)
  BY DEF CompleteIsTrue
<1> USE OfShard
<1> DEFINE e == Real(AllLines(disk[s]["events"]))
           p == Real(AllLines(disk[s]["prices"]))
           c == Real(AllLines(disk[s]["checkpoint"]))
           pk == Planned(script[s], "checkpoint")
<1>1. /\ CatalogTrue(job, s, e, c, Planned(script[s], "events"), pk, "finished", existing[s], cursor[s])
      /\ PricesTrue(e, c, p, pk, Planned(script[s], "prices"), completed[s], queue[s], observations[s])
  BY DEF ShardTrue
<1>2. r \in c
  BY DEF read_jsonl, Rows, Real
<1> HIDE DEF e, c, p, pk
<1>3. Complete(c) /\ existing[s] = e
  BY <1>1 DEF CatalogTrue, Up
<1>4. PICK x \in p : x.slot = slot
  BY <1>1, <1>2, <1>3 DEF PricesTrue
<1>5. \E i \in DOMAIN Rows(s, "prices") : Rows(s, "prices")[i] # Garbage /\ Rows(s, "prices")[i].slot = slot
  BY <1>4 DEF p, Real, ToSet, Rows
<1>6. QED
  BY <1>5 DEF HasPrice, PricePlaces

LEMMA OnceOk == DownloadInv => EventsOnce
<1> SUFFICES ASSUME DownloadInv PROVE EventsOnce
  OBVIOUS
<1>1. ASSUME NEW s \in Shards
      PROVE  Apart(Rows(s, "events")) /\ read_jsonl(s, "events") \subseteq AllOf(job, s)
  <2>1. job \in Jobs /\ s \in ShardsOf(job) /\ DiskShape(job, s, disk[s]) /\ Apart(AllLines(disk[s]["events"]))
    BY OfShard DEF ShardKept
  <2>2. AllLines(disk[s]["events"]) \in Seq(AllOf(job, s) \cup {Garbage})
    BY <2>1, RowsOfShape
  <2>3. QED
    BY <2>1, <2>2 DEF Rows, read_jsonl, ToSet
<1>2. ASSUME NEW s \in Shards, NEW t \in Shards, s # t
      PROVE  AllOf(job, s) \cap AllOf(job, t) = {}
  <2>1. job \in Jobs /\ s \in ShardsOf(job) /\ t \in ShardsOf(job)
    BY OfShard
  <2>2. QED
    BY <1>2, <2>1, RangesApart
<1>3. QED
  BY <1>1, <1>2 DEF EventsOnce, Apart

\* The shards of a window have what the venue lists of it.
LEMMA WindowOfShards ==
  ASSUME job \in Jobs
  PROVE  UNION {AllOf(job, s) : s \in Shards} = Window
<1>1. Shards = ShardsOf(job)
  BY DEF Shards, ShardsOf
<1>2. ASSUME NEW s \in Shards, NEW x \in AllOf(job, s) PROVE x \in Window
  <2>1. x \in job.start .. job.end - 1 /\ \E e \in Offered(job, s) : e.slot = x /\ e.good /\ x + 1 <= job.asOf
    BY <1>1, <1>2, ChosenInRange
  <2>2. QED
    BY <2>1 DEF Window, Listed, Slots
<1>3. ASSUME NEW x \in Window PROVE \E s \in Shards : x \in AllOf(job, s)
  <2>1. PICK e \in Listed : x = e.slot /\ e.good /\ e.slot + 1 <= job.asOf
    BY DEF Window
  <2>2. PICK t \in Shards : e \in Offered(job, t)
    BY DEF Listed
  <2>3. x \in job.start .. job.end - 1
    BY DEF Window, Slots
  <2>4. PICK s \in Shards : CutAt(job, s) <= x /\ x < CutAt(job, s + 1)
    BY <1>1, <2>3, CutsCover
  <2>5. e \in Offered(job, s)
    <3>1. DOMAIN job.feed = Shards
      BY JobsAssumption DEF Shards
    <3>2. QED
      BY <2>1, <2>2, <2>4, <3>1, JobsAssumption
  <2>6. x \in AllOf(job, s)
    BY <2>1, <2>4, <2>5 DEF AllOf, ChosenOf, Offered
  <2>7. QED
    BY <2>6
<1>4. QED
  BY <1>2, <1>3

LEMMA MergingOk == DownloadInv /\ [DownloadNext]_download_vars => Merging
<1> SUFFICES ASSUME DownloadInv, [DownloadNext]_download_vars, torn = 0, merged' # merged,
                    \A s \in Shards : checkpoint_state(s).done
             PROVE  merged'.events = Window /\ merged'.observations \subseteq merged'.events
  BY DEF Merging
<1>1. merge_shards
  <2>1. \A s \in Shards : ~ Run(s)
    BY DEF Run, Begin, initialize_output, InitializeRaises, ReadCatalog, FetchPage, Gather, CandlesFetched, write_manifest,
           Finish, append_jsonl, Killed, LineTorn, ConfigTorn, PricesFetched, PricesFail, Tears
  <2>2. merged' # merged
    OBVIOUS
  <2>3. QED
    BY <2>1, <2>2 DEF DownloadNext, download_vars
<1>2. /\ merged'.events = UNION {read_jsonl(s, "events") : s \in Shards}
      /\ merged'.observations = UNION {observations[s] : s \in Shards}
  BY <1>1 DEF merge_shards
<1>3. \A s \in Shards : read_jsonl(s, "events") = AllOf(job, s) /\ observations[s] \subseteq read_jsonl(s, "events")
  BY CatalogOnDisk
<1>4. UNION {AllOf(job, s) : s \in Shards} = Window
  BY WindowOfShards DEF DownloadInv, Tables
<1>5. QED
  BY <1>2, <1>3, <1>4

\* However its processes are killed, started again and interleaved over one output
\* directory, and whatever the venue answers, the download keeps what AvailableStays,
\* CatalogCovered, CompleteIsTrue and EventsOnce say of its four files, and a merge of
\* complete shards has every event of the window (run, read_jsonl, merge_shards).
THEOREM DownloadsAreSound == DownloadSpec => DownloadSound
<1>1. DownloadInv => DownloadTypeOK /\ AvailableStays /\ CatalogCovered /\ CompleteIsTrue /\ EventsOnce
  BY KindOk, StaysOk, CoveredOk, CompleteOk, OnceOk
<1>2. QED
  BY DownloadStarts, DownloadKeeps, MergingOk, <1>1, PTL DEF DownloadSpec, DownloadSound
=============================================================================
