--------------------------- MODULE ChallengerProofs ---------------------------
(***************************************************************************)
(* The journal of the frozen challenger: it implements an append-only log, *)
(* always opens again, is of one experiment, never takes an attempt up     *)
(* again and never spends cash twice, for any number of markets, processes *)
(* and manifests, and any orders.                                          *)
(***************************************************************************)
EXTENDS Challenger, TotalProofs, SequenceTheorems

(* What an append does to the questions asked of a journal. *)

LEMMA AppendSet ==
  ASSUME NEW s \in Seq(Events), NEW e \in Events
  PROVE  ToSet(Append(s, e)) = ToSet(s) \cup {e}
<1>1. /\ Len(Append(s, e)) = Len(s) + 1 /\ Append(s, e) \in Seq(Events)
      /\ \A i \in 1 .. Len(s) : Append(s, e)[i] = s[i]
      /\ Append(s, e)[Len(s) + 1] = e
  BY AppendProperties
<1>2. DOMAIN s = 1 .. Len(s) /\ DOMAIN Append(s, e) = 1 .. Len(s) + 1 /\ Len(s) \in Nat
  BY <1>1
<1>3. QED
  BY <1>1, <1>2 DEF ToSet

LEMMA KindsAppend ==
  ASSUME NEW s \in Seq(Events), NEW e \in Events, NEW m
  PROVE  Kinds(Append(s, e), m) = Kinds(s, m) \cup (IF e.market = m THEN {e.type} ELSE {})
BY AppendSet DEF Kinds

LEMMA HavingAppend ==
  ASSUME NEW s \in Seq(Events), NEW e \in Events, NEW kind
  PROVE  Having(Append(s, e), kind) = Having(s, kind) \cup (IF e.type = kind THEN {e.market} ELSE {})
BY AppendSet DEF Having

\* The lines before an appended one are what they were.
LEMMA PrefixOfAppend ==
  ASSUME NEW s \in Seq(Events), NEW e \in Events, NEW n \in 0 .. Len(s)
  PROVE  SubSeq(Append(s, e), 1, n) = SubSeq(s, 1, n)
<1>1. CASE n = 0
  BY <1>1, SubSeqEmpty
<1>2. CASE n # 0
  <2>1. Append(s, e) = s \o <<e>> /\ <<e>> \in Seq(Events)
    BY AppendIsConcat
  <2>2. 1 \in 1 .. Len(s) /\ n \in 1 .. Len(s)
    BY <1>2
  <2>3. QED
    BY <2>1, <2>2, SubSeqOfConcat1
<1>3. QED
  BY <1>1, <1>2

\* A line that is valid, in its place and of the same experiment keeps the journal readable.
LEMMA RecoversAppend ==
  ASSUME NEW s \in Seq(Events), NEW e \in Events, NEW c, Recovers(s, c),
         e.config = c, e.seq = Len(s), Valid(s, e)
  PROVE  Recovers(Append(s, e), c)
<1> DEFINE t == Append(s, e)
<1>1. /\ Len(t) = Len(s) + 1 /\ DOMAIN t = 1 .. Len(s) + 1 /\ Len(s) \in Nat /\ DOMAIN s = 1 .. Len(s)
      /\ \A i \in 1 .. Len(s) : t[i] = s[i]
      /\ t[Len(s) + 1] = e
  BY AppendProperties
<1>2. ASSUME NEW i \in 1 .. Len(s)
      PROVE  t[i] # Garbage /\ t[i].config = c /\ t[i].seq = i - 1 /\ Valid(SubSeq(t, 1, i - 1), t[i])
  <2>1. SubSeq(t, 1, i - 1) = SubSeq(s, 1, i - 1)
    <3>1. i - 1 \in 0 .. Len(s)
      BY <1>1
    <3>2. QED
      BY <3>1, PrefixOfAppend
  <2>2. QED
    BY <1>1, <2>1 DEF Recovers
<1>3. SubSeq(t, 1, Len(s)) = s
  <2>1. SubSeq(t, 1, Len(s)) = SubSeq(s, 1, Len(s))
    BY <1>1, PrefixOfAppend
  <2>2. QED
    BY <2>1, SubSeqFull
<1>4. e # Garbage
  BY ChallengerAssumption
<1>5. \A i \in DOMAIN t : i \in 1 .. Len(s) \/ i = Len(s) + 1
  BY <1>1
<1> HIDE DEF t
<1>6. ASSUME NEW i \in DOMAIN t
      PROVE  t[i] # Garbage /\ t[i].config = c /\ t[i].seq = i - 1 /\ Valid(SubSeq(t, 1, i - 1), t[i])
  <2>1. CASE i \in 1 .. Len(s)
    BY <1>2, <2>1
  <2>2. CASE i = Len(s) + 1
    <3>1. i - 1 = Len(s)
      BY <1>1, <2>2
    <3>2. QED
      BY <1>1, <1>3, <1>4, <2>2, <3>1
  <2>3. QED
    BY <1>5, <2>1, <2>2
<1>7. QED
  BY <1>6 DEF Recovers, t

----------------------------------------------------------------------------
(* The inductive invariant. *)

Stages == {"down", "recovering", "idle", "claimed", "missed", "abstaining", "chosen", "settling"}
Attempting == {"claimed", "missed", "abstaining", "chosen"}
Up(p) == pc[p] \notin {"down", "recovering"}

\* A value of every variable; a running process has a configuration, one in an attempt a market.
ChallengerShape ==
  /\ now \in 0 .. MaxTime /\ result \in [Markets -> {Null} \cup 0 .. 2]
  /\ manifest \in [Paths -> {Null} \cup Versions] /\ version \in Versions
  /\ pc \in [Procs -> Stages] /\ config \in [Procs -> Paths \cup {Null}]
  /\ at \in [Procs -> {0} \cup Markets] /\ todo \in [Procs -> SUBSET Markets]
  /\ lock \in Procs \cup {Null} /\ \A p \in Procs : pc[p] # "down" <=> lock = p
  /\ \A p \in Procs : pc[p] \in Attempting => at[p] \in Markets

FileShape ==
  /\ file = [lines |-> file.lines, tail |-> file.tail] /\ file.lines \in Seq(Events)
  /\ mem \in [Procs -> Seq(Events)] /\ pending \in [Procs -> Events \cup {Null}]

\* A process that is up has read the whole of a readable journal, bound to its configuration,
\* and stands at its end.
MemoryKept ==
  \A p \in Procs : /\ pc[p] # "down" => config[p] \in Paths
                   /\ Up(p) => /\ mem[p] = file.lines /\ file.tail = NoTail
                               /\ Recovers(file.lines, config[p])

\* An event that is being written was valid behind the memory, in its place; a prediction or
\* a fill is of the attempt its process is in.
PendingValid ==
  \A p \in Procs : pending[p] # Null =>
    /\ Up(p) /\ Valid(mem[p], pending[p])
    /\ pending[p].seq = Len(mem[p]) /\ pending[p].config = config[p]
    /\ pending[p].type \in {"PREDICTION", "PAPER_FILL"} => pending[p].market = at[p]

JournalInv == FileShape /\ MemoryKept /\ PendingValid /\ Reopens

ChallengerInv == ChallengerShape /\ JournalInv

----------------------------------------------------------------------------
(* The steps on the journal. *)

\* What append is called with: the place and the configuration are added to it.
Drafts ==
  {e \in [type : Kind, market : {0} \cup Markets, seq : Nat, config : Paths \cup {Null}, qty : Nat,
          cost : Nat, side : {Null, "UP", "DOWN"}, payout : 0 .. 2] :
     e.type # "ERROR" => e.market \in Markets}

LEMMA ValidAlike ==
  ASSUME NEW s, NEW e, NEW f, Valid(s, e), f.type = e.type, f.market = e.market, f.cost = e.cost
  PROVE  Valid(s, f)
BY DEF Valid

LEMMA DraftsMade ==
  /\ Blank \in Drafts
  /\ \A kind \in Kind, m \in Markets : /\ Event(kind, m) \in Drafts
                                       /\ Event(kind, m).type = kind /\ Event(kind, m).market = m
<1>1. Blank \in Drafts
  BY DEF Blank, Drafts, Kind
<1>2. ASSUME NEW kind \in Kind, NEW m \in Markets
      PROVE  /\ Event(kind, m) \in Drafts
             /\ Event(kind, m).type = kind /\ Event(kind, m).market = m
  BY <1>1, <1>2 DEF Event, Drafts
<1>3. QED
  BY <1>1, <1>2

\* append, by a process that is up and not writing, leaves what is on the disk.
LEMMA BeginKeeps ==
  ASSUME ChallengerInv, NEW p \in Procs, Up(p), NEW e \in Drafts, Begin(p, e),
         UNCHANGED config, pc' \in [Procs -> Stages], Up(p)',
         \A q \in Procs \ {p} : pc'[q] = pc[q] /\ at'[q] = at[q],
         e.type \in {"PREDICTION", "PAPER_FILL"} => e.market = at'[p]
  PROVE  JournalInv'
<1> DEFINE f == [e EXCEPT !.seq = Len(mem[p]), !.config = config[p]]
<1>1. Len(mem[p]) \in Nat /\ config[p] \in Paths
  BY DEF ChallengerInv, JournalInv, FileShape, MemoryKept, Up
<1>2. /\ f \in Events /\ f.seq = Len(mem[p]) /\ f.config = config[p]
      /\ f.type = e.type /\ f.market = e.market /\ f.cost = e.cost
  BY <1>1 DEF Drafts, Events
<1>3. pending' = [pending EXCEPT ![p] = f] /\ UNCHANGED <<file, lock, mem>> /\ Valid(mem[p], e)
  BY DEF Begin
<1> HIDE DEF f
<1>4. Valid(mem[p], f)
  BY <1>2, <1>3, ValidAlike
<1>5. FileShape'
  BY <1>2, <1>3 DEF ChallengerInv, JournalInv, FileShape
<1>6. MemoryKept'
  BY <1>3 DEF ChallengerInv, JournalInv, ChallengerShape, MemoryKept, Up
<1>7. /\ pending'[p] = f /\ \A q \in Procs \ {p} : pending'[q] = pending[q]
  BY <1>3 DEF ChallengerInv, JournalInv, FileShape
<1>8. PendingValid'
  BY <1>2, <1>3, <1>4, <1>7 DEF ChallengerInv, JournalInv, PendingValid, Up
<1>9. Reopens'
  BY <1>3 DEF ChallengerInv, JournalInv, Reopens
<1>10. QED
  BY <1>5, <1>6, <1>8, <1>9 DEF JournalInv

\* The only lines that are ever added are those of events that were begun.
LEMMA WriteKeeps ==
  ASSUME ChallengerInv, NEW p \in Procs, pending[p] # Null
  PROVE  /\ Written(file, pending[p]) = [lines |-> Append(file.lines, pending[p]), tail |-> NoTail]
         /\ pending[p] \in Events /\ Append(file.lines, pending[p]) \in Seq(Events)
         /\ Recovers(Append(file.lines, pending[p]), config[p])
         /\ Append(file.lines, pending[p])[1].config = config[p]
<1>1. /\ pending[p] \in Events /\ mem[p] = file.lines /\ file.tail = NoTail
      /\ file.lines \in Seq(Events) /\ Recovers(file.lines, config[p]) /\ Valid(file.lines, pending[p])
      /\ pending[p].config = config[p] /\ pending[p].seq = Len(file.lines)
  BY DEF ChallengerInv, JournalInv, FileShape, MemoryKept, PendingValid
<1>2. Recovers(Append(file.lines, pending[p]), config[p])
  BY <1>1, RecoversAppend
<1>3. /\ Append(file.lines, pending[p]) \in Seq(Events)
      /\ 1 \in DOMAIN Append(file.lines, pending[p])
  BY <1>1, AppendProperties
<1>4. QED
  BY <1>1, <1>2, <1>3 DEF Recovers, Written

\* A crash leaves the lines, or one more.
LEMMA CrashLines ==
  ASSUME ChallengerInv, NEW p \in Procs, Crash(p)
  PROVE  /\ file' = [lines |-> file'.lines, tail |-> file'.tail]
         /\ \/ file'.lines = file.lines
            \/ pending[p] # Null /\ file'.lines = Append(file.lines, pending[p])
<1>0. file = [lines |-> file.lines, tail |-> file.tail]
  BY DEF ChallengerInv, JournalInv, FileShape
<1>1. CASE pending[p] = Null
  BY <1>0, <1>1 DEF Crash
<1>2. CASE pending[p] # Null
  <2>1. file' \in Interrupted(file, pending[p])
    BY <1>2 DEF Crash
  <2>2. \/ file' = file \/ file' = Written(file, pending[p])
        \/ \E t : file' = [file EXCEPT !.tail = t]
    BY <2>1 DEF Interrupted
  <2>3. CASE file' = file
    BY <1>0, <2>3
  <2>4. CASE file' = Written(file, pending[p])
    <3>1. file' = [lines |-> Append(file.lines, pending[p]), tail |-> NoTail]
      BY <1>2, <2>4, WriteKeeps
    <3>2. QED
      BY <1>2, <3>1
  <2>5. ASSUME NEW t, file' = [file EXCEPT !.tail = t]
        PROVE  file' = [lines |-> file'.lines, tail |-> file'.tail] /\ file'.lines = file.lines
    <3>1. file' = [lines |-> file.lines, tail |-> t]
      BY <1>0, <2>5
    <3>2. QED
      BY <3>1
  <2>6. QED
    BY <2>2, <2>3, <2>4, <2>5
<1>3. QED
  BY <1>1, <1>2

LEMMA ReopensAfter ==
  ASSUME ChallengerInv, NEW p \in Procs,
         \/ file'.lines = file.lines
         \/ pending[p] # Null /\ file'.lines = Append(file.lines, pending[p])
  PROVE  Reopens' /\ file'.lines \in Seq(Events)
<1>1. CASE file'.lines = file.lines
  BY <1>1 DEF ChallengerInv, JournalInv, Reopens, FileShape
<1>2. CASE pending[p] # Null /\ file'.lines = Append(file.lines, pending[p])
  BY <1>2, WriteKeeps DEF Reopens
<1>3. QED
  BY <1>1, <1>2

----------------------------------------------------------------------------
(* The steps of opening and of ending. *)

LEMMA OneUp ==
  ASSUME ChallengerInv, NEW p \in Procs, pc[p] # "down", NEW q \in Procs \ {p}
  PROVE  pc[q] = "down" /\ ~Up(q) /\ pending[q] = Null
BY DEF ChallengerInv, ChallengerShape, JournalInv, PendingValid, Up

LEMMA AppendedKeeps ==
  ASSUME ChallengerInv, NEW p \in Procs, Appended(p)
  PROVE  ChallengerInv'
<1>1. /\ pending[p] # Null /\ pending[p] \in Events /\ mem[p] = file.lines /\ Up(p)
      /\ mem \in [Procs -> Seq(Events)]
  BY DEF Appended, ChallengerInv, JournalInv, FileShape, MemoryKept, PendingValid
<1> DEFINE more == Append(file.lines, pending[p])
<1>2. /\ file' = [lines |-> more, tail |-> NoTail] /\ more \in Seq(Events)
      /\ Recovers(more, config[p])
  BY <1>1, WriteKeeps DEF Appended
<1>3. mem' = [mem EXCEPT ![p] = more]
  BY <1>1 DEF Appended
<1>4. /\ pending' = [pending EXCEPT ![p] = Null] /\ pending \in [Procs -> Events \cup {Null}]
      /\ UNCHANGED <<now, result, manifest, version, lock, pc, config, at, todo>>
  BY DEF Appended, world, local, ChallengerInv, JournalInv, FileShape
<1>5. Reopens'
  <2>1. file'.lines = more
    BY <1>2
  <2>2. QED
    BY <1>1, <2>1, ReopensAfter
<1> HIDE DEF more
<1>6. ChallengerShape'
  BY <1>4 DEF ChallengerInv, ChallengerShape
<1>7. FileShape'
  BY <1>1, <1>2, <1>3, <1>4 DEF FileShape
<1>8. \A q \in Procs \ {p} : ~Up(q) /\ pending[q] = Null
  BY <1>1, OneUp DEF Up
<1>9. MemoryKept'
  BY <1>1, <1>2, <1>3, <1>4, <1>8 DEF ChallengerInv, JournalInv, MemoryKept, Up
<1>10. PendingValid'
  BY <1>4, <1>8 DEF PendingValid
<1>11. QED
  BY <1>5, <1>6, <1>7, <1>9, <1>10 DEF ChallengerInv, JournalInv

LEMMA EndsKeeps ==
  ASSUME ChallengerInv, NEW p \in Procs, pc[p] # "down", Ends(p), UNCHANGED world,
         file' = [lines |-> file'.lines, tail |-> file'.tail],
         \/ file'.lines = file.lines
         \/ pending[p] # Null /\ file'.lines = Append(file.lines, pending[p])
  PROVE  ChallengerInv'
<1>1. /\ pc' = [pc EXCEPT ![p] = "down"] /\ lock' = Null /\ mem' = [mem EXCEPT ![p] = <<>>]
      /\ pending' = [pending EXCEPT ![p] = Null] /\ config' = [config EXCEPT ![p] = Null]
      /\ at' = [at EXCEPT ![p] = 0] /\ todo' = [todo EXCEPT ![p] = {}]
  BY DEF Ends, Goto
<1>2. \A q \in Procs \ {p} : pc[q] = "down" /\ pending[q] = Null
  BY OneUp
<1>3. Reopens' /\ file'.lines \in Seq(Events)
  BY ReopensAfter
<1>4. ChallengerShape'
  <2>1. \A q \in Procs : pc'[q] = "down"
    BY <1>1, <1>2 DEF ChallengerInv, ChallengerShape
  <2>2. QED
    BY <1>1, <2>1, ChallengerAssumption
       DEF ChallengerInv, ChallengerShape, world, Stages, Attempting
<1>5. FileShape'
  BY <1>1, <1>3, EmptySeq DEF ChallengerInv, JournalInv, FileShape
<1>6. MemoryKept' /\ PendingValid'
  BY <1>1, <1>2
     DEF ChallengerInv, ChallengerShape, JournalInv, FileShape, MemoryKept, PendingValid, Up
<1>7. QED
  BY <1>3, <1>4, <1>5, <1>6 DEF ChallengerInv, JournalInv

LEMMA CrashKeeps ==
  ASSUME ChallengerInv, NEW p \in Procs, Crash(p)
  PROVE  ChallengerInv'
<1>1. pc[p] # "down" /\ Ends(p) /\ UNCHANGED world
  BY DEF Crash
<1>2. QED
  BY <1>1, CrashLines, EndsKeeps

\* Leaving in order: the stop file, or a journal that is not the experiment's.
LEMMA LeaveKeeps ==
  ASSUME ChallengerInv, NEW p \in Procs, Stop(p) \/ RecoverRefuses(p)
  PROVE  ChallengerInv'
<1>1. pc[p] # "down" /\ Ends(p) /\ UNCHANGED world /\ file' = file
  BY DEF Stop, RecoverRefuses, Ready
<1>2. file' = [lines |-> file'.lines, tail |-> file'.tail] /\ file'.lines = file.lines
  BY <1>1 DEF ChallengerInv, JournalInv, FileShape
<1>3. QED
  BY <1>1, <1>2, EndsKeeps

LEMMA EnterKeeps ==
  ASSUME ChallengerInv, NEW p \in Procs, NEW path \in Paths, Enter(p, path)
  PROVE  ChallengerInv'
<1>1. /\ lock = Null /\ lock' = p /\ pc' = [pc EXCEPT ![p] = "recovering"]
      /\ config' = [config EXCEPT ![p] = path]
      /\ UNCHANGED <<now, result, manifest, version, file, mem, pending, at, todo>>
  BY DEF Enter, Goto, world
<1>2. \A q \in Procs : pc[q] = "down" /\ pending[q] = Null
  BY <1>1, ChallengerAssumption
     DEF ChallengerInv, ChallengerShape, JournalInv, PendingValid, Up
<1>3. ChallengerShape'
  BY <1>1, <1>2, ChallengerAssumption DEF ChallengerInv, ChallengerShape, Stages, Attempting
<1>4. FileShape' /\ Reopens'
  BY <1>1 DEF ChallengerInv, JournalInv, FileShape, Reopens
<1>5. MemoryKept' /\ PendingValid'
  BY <1>1, <1>2 DEF ChallengerInv, ChallengerShape, MemoryKept, PendingValid, Up
<1>6. QED
  BY <1>3, <1>4, <1>5 DEF ChallengerInv, JournalInv

LEMMA QuarantineKeeps ==
  ASSUME ChallengerInv, NEW p \in Procs, Quarantine(p)
  PROVE  ChallengerInv'
<1>1. /\ pc[p] = "recovering" /\ file' = [file EXCEPT !.tail = NoTail]
      /\ UNCHANGED <<now, result, manifest, version, lock, pc, config, at, todo, mem, pending>>
  BY DEF Quarantine, Truncated, world, local
<1>2. file' = [lines |-> file.lines, tail |-> NoTail]
  BY <1>1 DEF ChallengerInv, JournalInv, FileShape
<1>3. \A q \in Procs : ~Up(q) /\ pending[q] = Null
  <2>1. ~Up(p) /\ pc[p] # "down" /\ pending[p] = Null
    BY <1>1 DEF Up, ChallengerInv, JournalInv, PendingValid
  <2>2. QED
    BY <2>1, OneUp
<1>4. ChallengerShape'
  BY <1>1 DEF ChallengerInv, ChallengerShape
<1>5. FileShape' /\ Reopens'
  BY <1>1, <1>2 DEF ChallengerInv, JournalInv, FileShape, Reopens
<1>6. MemoryKept' /\ PendingValid'
  BY <1>1, <1>3 DEF ChallengerInv, JournalInv, MemoryKept, PendingValid, Up
<1>7. QED
  BY <1>4, <1>5, <1>6 DEF ChallengerInv, JournalInv

LEMMA RecoverKeeps ==
  ASSUME ChallengerInv, NEW p \in Procs, Recover(p)
  PROVE  ChallengerInv'
<1>1. /\ pc[p] = "recovering" /\ file.tail = NoTail /\ Recovers(file.lines, config[p])
      /\ mem' = [mem EXCEPT ![p] = file.lines] /\ pc' = [pc EXCEPT ![p] = "idle"]
      /\ UNCHANGED <<now, result, manifest, version, file, lock, config, at, todo, pending>>
  BY DEF Recover, Goto, world, local
<1>2. \A q \in Procs \ {p} : ~Up(q) /\ pc[q] = "down"
  BY <1>1, OneUp
<1>3. \A q \in Procs : pending[q] = Null
  BY <1>1, <1>2 DEF Up, ChallengerInv, JournalInv, PendingValid
<1>4. ChallengerShape'
  BY <1>1 DEF ChallengerInv, ChallengerShape, Stages, Attempting
<1>5. FileShape' /\ Reopens'
  BY <1>1 DEF ChallengerInv, JournalInv, FileShape, Reopens
<1>6. MemoryKept' /\ PendingValid'
  BY <1>1, <1>2, <1>3
     DEF ChallengerInv, ChallengerShape, JournalInv, FileShape, MemoryKept, PendingValid, Up
<1>7. QED
  BY <1>4, <1>5, <1>6 DEF ChallengerInv, JournalInv

LEMMA WorldKeeps ==
  ASSUME ChallengerInv, World \/ Operator
  PROVE  ChallengerInv'
<1>1. UNCHANGED <<file, lock, pc, config, mem, pending, at, todo>>
  BY DEF World, Operator, Tick, Resolve, register, Deploy
<1>2. JournalInv'
  BY <1>1 DEF ChallengerInv, JournalInv, FileShape, MemoryKept, PendingValid, Reopens, Up
<1>3. now' \in 0 .. MaxTime
  BY ChallengerAssumption
     DEF World, Operator, Tick, Resolve, register, Deploy, ChallengerInv, ChallengerShape
<1>4. result' \in [Markets -> {Null} \cup 0 .. 2]
  BY DEF World, Operator, Tick, Resolve, register, Deploy, ChallengerInv, ChallengerShape
<1>5. manifest' \in [Paths -> {Null} \cup Versions] /\ version' \in Versions
  BY DEF World, Operator, Tick, Resolve, register, Deploy, ChallengerInv, ChallengerShape
<1>6. QED
  BY <1>1, <1>2, <1>3, <1>4, <1>5 DEF ChallengerInv, ChallengerShape

----------------------------------------------------------------------------
(* The steps of observing and of settling. *)

\* A step of a process that is up and writes nothing touches no file and no memory.
LEMMA QuietKeeps ==
  ASSUME ChallengerInv, NEW p \in Procs, Up(p), pending[p] = Null, Up(p)',
         UNCHANGED <<file, lock, mem, pending, config>>,
         \A q \in Procs \ {p} : pc'[q] = pc[q] /\ at'[q] = at[q]
  PROVE  JournalInv'
<1>1. FileShape' /\ Reopens'
  BY DEF ChallengerInv, JournalInv, FileShape, Reopens
<1>2. MemoryKept' /\ PendingValid'
  BY DEF ChallengerInv, JournalInv, MemoryKept, PendingValid, Up
<1>3. QED
  BY <1>1, <1>2 DEF JournalInv

\* An event is written by a process that moves to another stage of the loop.
LEMMA EventKeeps ==
  ASSUME ChallengerInv, NEW p \in Procs, Up(p), NEW e \in Drafts, Begin(p, e),
         UNCHANGED <<world, config>>, NEW stage \in Stages \ {"down", "recovering"},
         pc' = [pc EXCEPT ![p] = stage],
         NEW m \in {0} \cup Markets, at' = [at EXCEPT ![p] = m], todo' \in [Procs -> SUBSET Markets],
         stage \in Attempting => m \in Markets,
         e.type \in {"PREDICTION", "PAPER_FILL"} => e.market = m
  PROVE  ChallengerInv'
<1>1. /\ pc \in [Procs -> Stages] /\ at \in [Procs -> {0} \cup Markets] /\ UNCHANGED lock
  BY DEF ChallengerInv, ChallengerShape, Begin
<1>2. /\ pc' \in [Procs -> Stages] /\ Up(p)' /\ at'[p] = m
      /\ \A q \in Procs \ {p} : pc'[q] = pc[q] /\ at'[q] = at[q]
  BY <1>1 DEF Up
<1>3. JournalInv'
  BY <1>2, BeginKeeps
<1>4. ChallengerShape'
  BY <1>1, <1>2 DEF ChallengerInv, ChallengerShape, world, Up
<1>5. QED
  BY <1>3, <1>4 DEF ChallengerInv

LEMMA ReadyUp ==
  ASSUME ChallengerInv, NEW p \in Procs, NEW label \in Stages \ {"down", "recovering"}, Ready(p, label)
  PROVE  /\ Up(p) /\ pending[p] = Null /\ pc[p] = label /\ at[p] \in {0} \cup Markets
         /\ label \in Attempting => at[p] \in Markets
         /\ at = [at EXCEPT ![p] = at[p]] /\ pc = [pc EXCEPT ![p] = pc[p]]
         /\ todo \in [Procs -> SUBSET Markets]
BY DEF Ready, Up, ChallengerInv, ChallengerShape

LEMMA ClaimKeeps ==
  ASSUME ChallengerInv, NEW p \in Procs, Claim(p)
  PROVE  ChallengerInv'
<1> DEFINE m == Current(now)
           e == Event("OPPORTUNITY", m)
           stage == IF Phase(now) = 1 THEN "claimed" ELSE "missed"
<1>1. /\ Ready(p, "idle") /\ m \in Markets /\ Begin(p, e) /\ at' = [at EXCEPT ![p] = m]
      /\ pc' = [pc EXCEPT ![p] = stage] /\ UNCHANGED <<world, config, todo>>
  BY DEF Claim, Goto
<1>2. e \in Drafts /\ e.type = "OPPORTUNITY"
  BY <1>1, DraftsMade DEF Kind
<1> HIDE DEF m, e
<1>3. Up(p) /\ todo \in [Procs -> SUBSET Markets]
  BY <1>1, ReadyUp DEF Stages
<1>4. stage \in Stages \ {"down", "recovering"}
  BY DEF Stages
<1> HIDE DEF stage
<1>5. QED
  BY <1>1, <1>2, <1>3, <1>4, EventKeeps

\* The steps that end or go on with the attempt the process is in.
LEMMA AttemptKeeps ==
  ASSUME ChallengerInv, NEW p \in Procs, NEW label \in Attempting, Ready(p, label),
         NEW e \in Drafts, e.market = at[p], Begin(p, e), UNCHANGED <<world, local>>,
         NEW stage \in Stages \ {"down", "recovering"}, Goto(p, stage)
  PROVE  ChallengerInv'
<1>1. label \in Stages \ {"down", "recovering"}
  BY DEF Attempting, Stages
<1>2. /\ Up(p) /\ at[p] \in Markets /\ at' = [at EXCEPT ![p] = at[p]]
      /\ todo' \in [Procs -> SUBSET Markets] /\ UNCHANGED <<world, config>>
  BY <1>1, ReadyUp DEF local
<1>3. pc' = [pc EXCEPT ![p] = stage]
  BY DEF Goto
<1>4. QED
  BY <1>2, <1>3, EventKeeps

LEMMA ObservingKeeps ==
  ASSUME ChallengerInv, NEW p \in Procs, Observing(p)
  PROVE  ChallengerInv'
<1>1. \A label \in Attempting : Ready(p, label) => at[p] \in Markets
  BY ReadyUp DEF Attempting, Stages
<1>2. \A kind \in Kind : at[p] \in Markets =>
        Event(kind, at[p]) \in Drafts /\ Event(kind, at[p]).market = at[p]
  BY DraftsMade
<1>3. /\ {"missed", "claimed", "abstaining", "chosen"} \subseteq Attempting
      /\ {"idle", "abstaining", "chosen"} \subseteq Stages \ {"down", "recovering"}
      /\ {"REJECTION", "PREDICTION", "NO_FILL", "PAPER_FILL"} \subseteq Kind
  BY DEF Attempting, Stages, Kind
<1>4. CASE Claim(p)
  BY <1>4, ClaimKeeps
<1>5. CASE Missed(p)
  BY <1>1, <1>2, <1>3, <1>5, AttemptKeeps DEF Missed
<1>6. CASE Predict(p)
  <2>1. PICK next \in {"abstaining", "chosen"} : Goto(p, next)
    BY <1>6 DEF Predict
  <2>2. Ready(p, "claimed") /\ Begin(p, Event("PREDICTION", at[p])) /\ UNCHANGED <<world, local>>
    BY <1>6 DEF Predict
  <2>3. QED
    BY <1>1, <1>2, <1>3, <2>1, <2>2, AttemptKeeps
<1>7. CASE Abstain(p) \/ FillRefused(p)
  BY <1>1, <1>2, <1>3, <1>7, AttemptKeeps DEF Abstain, FillRefused, NoFill
<1>8. CASE Fill(p)
  <2>1. PICK order \in Orders, side \in {"UP", "DOWN"} :
          Begin(p, [Event("PAPER_FILL", at[p]) EXCEPT
                     !.qty = order.qty, !.cost = order.cost, !.side = side])
    BY <1>8 DEF Fill
  <2>2. Ready(p, "chosen") /\ Goto(p, "idle") /\ UNCHANGED <<world, local>>
    BY <1>8 DEF Fill
  <2> DEFINE base == Event("PAPER_FILL", at[p])
             e == [base EXCEPT !.qty = order.qty, !.cost = order.cost, !.side = side]
  <2>3. base \in Drafts /\ base.market = at[p]
    BY <1>1, <1>2, <1>3, <2>2
  <2>4. order.qty \in Nat /\ order.cost \in Nat
    BY ChallengerAssumption
  <2> HIDE DEF base
  <2>5. e \in Drafts /\ e.market = at[p]
    BY <2>3, <2>4 DEF Drafts
  <2>6. Begin(p, e)
    BY <2>1 DEF base
  <2> HIDE DEF e
  <2>7. QED
    BY <1>3, <2>2, <2>5, <2>6, AttemptKeeps
<1>9. CASE Fails(p)
  <2>1. PICK kind \in {"NO_FILL", "REJECTION"} : Begin(p, Event(kind, at[p]))
    BY <1>9 DEF Fails
  <2>2. /\ Ready(p, "claimed") \/ Ready(p, "chosen")
        /\ Goto(p, "idle") /\ UNCHANGED <<world, local>>
    BY <1>9 DEF Fails
  <2>3. QED
    BY <1>1, <1>2, <1>3, <2>1, <2>2, AttemptKeeps
<1>10. QED
  BY <1>4, <1>5, <1>6, <1>7, <1>8, <1>9 DEF Observing

\* An event of a pass: the process stays in the pass or leaves it.
LEMMA PassKeeps ==
  ASSUME ChallengerInv, NEW p \in Procs, Ready(p, "settling"), NEW e \in Drafts,
         e.type \notin {"PREDICTION", "PAPER_FILL"}, Begin(p, e), UNCHANGED <<world, config, at>>,
         NEW stage \in {"idle", "settling"}, pc' = [pc EXCEPT ![p] = stage],
         todo' \in [Procs -> SUBSET Markets]
  PROVE  ChallengerInv'
<1>1. stage \in Stages \ {"down", "recovering"} /\ stage \notin Attempting
  BY DEF Stages, Attempting
<1>2. Up(p) /\ at[p] \in {0} \cup Markets /\ at' = [at EXCEPT ![p] = at[p]]
  BY ReadyUp DEF Stages
<1>3. QED
  BY <1>1, <1>2, EventKeeps

LEMMA SettlingKeeps ==
  ASSUME ChallengerInv, NEW p \in Procs, Settling(p)
  PROVE  ChallengerInv'
<1>1. \A label \in {"idle", "settling"} : Ready(p, label) =>
        Up(p) /\ pending[p] = Null /\ pc = [pc EXCEPT ![p] = pc[p]] /\ pc[p] = label
  BY ReadyUp DEF Stages
<1>2. pc \in [Procs -> Stages] /\ todo \in [Procs -> SUBSET Markets]
  BY DEF ChallengerInv, ChallengerShape
<1>3. ASSUME NEW m, Leave(p, m)
      PROVE  todo' \in [Procs -> SUBSET Markets]
  BY <1>2, <1>3 DEF Leave
<1>4. CASE Settle(p)
  <2>1. /\ Ready(p, "idle") /\ pc' = [pc EXCEPT ![p] = "settling"]
        /\ UNCHANGED <<now, result, manifest, version, file, lock, mem, pending, config, at>>
    BY <1>4 DEF Settle, Goto, world
  <2>2. Having(mem[p], "PREDICTION") \subseteq Markets
    <3>1. \A e \in ToSet(mem[p]) : e \in Events
      <4>1. mem[p] \in Seq(Events)
        BY DEF ChallengerInv, JournalInv, FileShape
      <4>2. QED
        BY <4>1, ElementOfSeq DEF ToSet
    <3>2. QED
      BY <3>1 DEF Having, Events
  <2>3. todo' \in [Procs -> SUBSET Markets]
    BY <1>2, <1>4, <2>2 DEF Settle
  <2>4. ChallengerShape'
    BY <1>1, <2>1, <2>3 DEF ChallengerInv, ChallengerShape, Stages, Attempting
  <2>5. JournalInv'
    BY <1>1, <1>2, <2>1, QuietKeeps DEF Up
  <2>6. QED
    BY <2>4, <2>5 DEF ChallengerInv
<1>5. CASE SettleEnds(p)
  <2>1. /\ Ready(p, "settling") /\ pc' = [pc EXCEPT ![p] = "idle"]
        /\ UNCHANGED <<now, result, manifest, version, file, lock, mem, pending, config, at, todo>>
    BY <1>5 DEF SettleEnds, Goto, world, local
  <2>2. ChallengerShape'
    BY <1>1, <2>1 DEF ChallengerInv, ChallengerShape, Stages, Attempting
  <2>3. JournalInv'
    BY <1>1, <1>2, <2>1, QuietKeeps DEF Up
  <2>4. QED
    BY <2>2, <2>3 DEF ChallengerInv
\* A prediction the pass leaves without an event.
<1>6. ASSUME NEW m \in Markets, Visits(p, m), Leave(p, m),
             UNCHANGED <<world, file, lock, pc, mem, pending, config, at>>
      PROVE  ChallengerInv'
  <2>1. ChallengerShape'
    BY <1>3, <1>6 DEF ChallengerInv, ChallengerShape, world
  <2>2. JournalInv'
    BY <1>1, <1>6, QuietKeeps DEF Up, Visits
  <2>3. QED
    BY <2>1, <2>2 DEF ChallengerInv
<1>7. ASSUME NEW m \in Markets, Skip(p, m)
      PROVE  ChallengerInv'
  BY <1>6, <1>7 DEF Skip
\* What the pass writes of an officially resolved market.
<1>8. ASSUME NEW m \in Markets, NEW kind \in {"OUTCOME", "SETTLEMENT"}, NEW v \in 0 .. 2
      PROVE  /\ [Event(kind, m) EXCEPT !.payout = v] \in Drafts
             /\ [Event(kind, m) EXCEPT !.payout = v].type = kind
  <2>1. Event(kind, m) \in Drafts /\ Event(kind, m).type = kind
    BY DraftsMade DEF Kind
  <2>2. QED
    BY <2>1 DEF Drafts
<1>9. \A m \in Markets : result[m] # Null => result[m] \in 0 .. 2 /\ 2 - result[m] \in 0 .. 2
  BY DEF ChallengerInv, ChallengerShape
<1>10. ASSUME NEW m \in Markets, RecordOutcome(p, m)
       PROVE  ChallengerInv'
  <2> DEFINE e == [Event("OUTCOME", m) EXCEPT !.payout = result[m]]
  <2>1. /\ Ready(p, "settling") /\ Begin(p, e)
        /\ UNCHANGED <<world, pc, config, at, todo>>
    BY <1>10 DEF RecordOutcome, Visits, local
  <2>2. e \in Drafts /\ e.type = "OUTCOME"
    BY <1>8, <1>9, <1>10 DEF RecordOutcome
  <2> HIDE DEF e
  <2>3. pc' = [pc EXCEPT ![p] = "settling"]
    BY <1>1, <2>1
  <2>4. QED
    BY <1>2, <2>1, <2>2, <2>3, PassKeeps
<1>11. ASSUME NEW m \in Markets, RecordSettlement(p, m)
       PROVE  ChallengerInv'
  <2> DEFINE v == IF TheFill(mem[p], m).side = "UP" THEN result[m] ELSE 2 - result[m]
             e == [Event("SETTLEMENT", m) EXCEPT !.payout = v]
  <2>1. /\ Ready(p, "settling") /\ Visits(p, m) /\ Leave(p, m) /\ result[m] # Null
        /\ UNCHANGED <<world, pc, config, at>>
    BY <1>11 DEF RecordSettlement, Visits
  <2>2. CASE "PAPER_FILL" \in Kinds(mem[p], m)
    <3>1. Begin(p, e)
      BY <1>11, <2>2 DEF RecordSettlement
    <3>2. v \in 0 .. 2
      BY <1>9, <2>1
    <3> HIDE DEF v
    <3>3. e \in Drafts /\ e.type = "SETTLEMENT"
      BY <1>8, <3>2
    <3> HIDE DEF e
    <3>4. pc' = [pc EXCEPT ![p] = "settling"]
      BY <1>1, <2>1
    <3>5. todo' \in [Procs -> SUBSET Markets]
      BY <1>3, <2>1
    <3>6. QED
      BY <2>1, <3>1, <3>3, <3>4, <3>5, PassKeeps
  <2>3. CASE "PAPER_FILL" \notin Kinds(mem[p], m)
    <3>1. UNCHANGED <<file, lock, mem, pending>>
      BY <1>11, <2>3 DEF RecordSettlement
    <3>2. QED
      BY <1>6, <2>1, <3>1
  <2>4. QED
    BY <2>2, <2>3
<1>12. ASSUME NEW m \in Markets, SettleFails(p, m)
       PROVE  ChallengerInv'
  <2>1. /\ Ready(p, "settling") /\ Begin(p, Blank) /\ UNCHANGED <<world, config, at>>
        /\ pc' = [pc EXCEPT ![p] = "idle"] /\ todo' = [todo EXCEPT ![p] = {}]
    BY <1>12 DEF SettleFails, Visits, Goto
  <2>2. Blank \in Drafts /\ Blank.type = "ERROR"
    BY DraftsMade DEF Blank
  <2>3. todo' \in [Procs -> SUBSET Markets]
    BY <1>2, <2>1
  <2>4. QED
    BY <2>1, <2>2, <2>3, PassKeeps
<1>13. QED
  BY <1>4, <1>5, <1>7, <1>10, <1>11, <1>12 DEF Settling

LEMMA ChallengerInvHolds == ChallengerSpec => []ChallengerInv
<1>1. ChallengerInit => ChallengerInv
  <2>1. SUFFICES ASSUME ChallengerInit PROVE ChallengerInv
    OBVIOUS
  <2>2. ChallengerShape
    BY <2>1, ChallengerAssumption DEF ChallengerInit, ChallengerShape, Stages, Attempting
  <2>3. FileShape /\ Reopens
    BY <2>1, EmptySeq DEF ChallengerInit, FileShape, EmptyFile, Reopens
  <2>4. MemoryKept /\ PendingValid
    BY <2>1 DEF ChallengerInit, MemoryKept, PendingValid, Up
  <2>5. QED
    BY <2>2, <2>3, <2>4 DEF ChallengerInv, JournalInv
<1>2. ChallengerInv /\ [ChallengerNext]_challenger_vars => ChallengerInv'
  <2>1. SUFFICES ASSUME ChallengerInv, [ChallengerNext]_challenger_vars PROVE ChallengerInv'
    OBVIOUS
  <2>2. CASE UNCHANGED challenger_vars
    BY <2>1, <2>2 DEF challenger_vars, ChallengerInv, ChallengerShape, JournalInv, FileShape,
                      MemoryKept, PendingValid, Reopens, Up
  <2>3. CASE World \/ Operator
    BY <2>1, <2>3, WorldKeeps
  <2>4. ASSUME NEW p \in Procs, Opening(p) \/ Stop(p) \/ Crash(p)
        PROVE  ChallengerInv'
    BY <2>1, <2>4, EnterKeeps, QuarantineKeeps, RecoverKeeps, LeaveKeeps, CrashKeeps DEF Opening
  <2>5. ASSUME NEW p \in Procs, Observing(p) \/ Settling(p) \/ Appended(p)
        PROVE  ChallengerInv'
    BY <2>1, <2>5, ObservingKeeps, SettlingKeeps, AppendedKeeps
  <2>6. QED
    BY <2>1, <2>2, <2>3, <2>4, <2>5 DEF ChallengerNext
<1>3. QED
  BY <1>1, <1>2, PTL DEF ChallengerSpec

----------------------------------------------------------------------------
(* What the invariant shows. *)

\* The lines change by one begun event at a time.
LEMMA LinesGrow ==
  ASSUME ChallengerInv, [ChallengerNext]_challenger_vars
  PROVE  \/ file'.lines = file.lines
         \/ \E p \in Procs : /\ pending[p] # Null
                             /\ file'.lines = Append(file.lines, pending[p])
<1>1. CASE UNCHANGED file
  BY <1>1
<1>2. CASE World \/ Operator
  BY <1>2 DEF World, Operator, Tick, Resolve, register, Deploy
<1>3. ASSUME NEW p \in Procs, Crash(p)
      PROVE  \/ file'.lines = file.lines
             \/ pending[p] # Null /\ file'.lines = Append(file.lines, pending[p])
  BY <1>3, CrashLines
<1>4. ASSUME NEW p \in Procs, Quarantine(p)
      PROVE  file'.lines = file.lines
  <2>1. file' = [file EXCEPT !.tail = NoTail] /\ file = [lines |-> file.lines, tail |-> file.tail]
    BY <1>4 DEF Quarantine, Truncated, ChallengerInv, JournalInv, FileShape
  <2>2. QED
    BY <2>1
<1>5. ASSUME NEW p \in Procs, Appended(p)
      PROVE  pending[p] # Null /\ file'.lines = Append(file.lines, pending[p])
  <2>1. pending[p] # Null /\ file' = Written(file, pending[p])
    BY <1>5 DEF Appended
  <2>2. file' = [lines |-> Append(file.lines, pending[p]), tail |-> NoTail]
    BY <2>1, WriteKeeps
  <2>3. QED
    BY <2>1, <2>2
<1>6. ASSUME NEW p \in Procs, Opening(p), ~Quarantine(p)
      PROVE  UNCHANGED file
  BY <1>6 DEF Opening, Enter, Recover, RecoverRefuses
<1>7. ASSUME NEW p \in Procs, Observing(p)
      PROVE  UNCHANGED file
  BY <1>7 DEF Observing, Claim, Missed, Predict, Abstain, Fill, FillRefused, Fails, NoFill, Begin
<1>8. ASSUME NEW p \in Procs, Settling(p)
      PROVE  UNCHANGED file
  BY <1>8
     DEF Settling, Settle, SettleEnds, Skip, RecordOutcome, RecordSettlement, SettleFails, Begin
<1>9. ASSUME NEW p \in Procs, Stop(p)
      PROVE  UNCHANGED file
  BY <1>9 DEF Stop
<1>10. QED
  BY <1>1, <1>2, <1>3, <1>4, <1>5, <1>6, <1>7, <1>8, <1>9 DEF ChallengerNext, challenger_vars

\* A process takes an attempt up only in claiming a market the journal does not have.
LEMMA AttemptsTaken ==
  ASSUME ChallengerInv, [ChallengerNext]_challenger_vars, NEW q \in Procs
  PROVE  \/ at'[q] \in {0, at[q]}
         \/ at'[q] = Current(now) /\ ~Attempted(file.lines, Current(now))
<1>1. at \in [Procs -> {0} \cup Markets]
  BY DEF ChallengerInv, ChallengerShape
<1>2. CASE UNCHANGED at
  BY <1>2
<1>3. CASE World \/ Operator
  BY <1>3 DEF World, Operator, Tick, Resolve, register, Deploy
<1>4. ASSUME NEW p \in Procs, Ends(p)
      PROVE  at'[q] \in {0, at[q]}
  BY <1>1, <1>4 DEF Ends
<1>5. ASSUME NEW p \in Procs, Opening(p) \/ Stop(p) \/ Crash(p)
      PROVE  at'[q] \in {0, at[q]}
  BY <1>2, <1>4, <1>5 DEF Opening, Enter, Quarantine, Recover, RecoverRefuses, Stop, Crash, local
<1>6. ASSUME NEW p \in Procs, Settling(p) \/ Appended(p)
      PROVE  UNCHANGED at
  BY <1>6 DEF Settling, Settle, SettleEnds, Skip, RecordOutcome, RecordSettlement, SettleFails,
              Appended, local
<1>7. ASSUME NEW p \in Procs, Observing(p), ~Claim(p)
      PROVE  UNCHANGED at
  BY <1>7 DEF Observing, Missed, Predict, Abstain, Fill, FillRefused, Fails, NoFill, local
<1>8. ASSUME NEW p \in Procs, Claim(p)
      PROVE  \/ at'[q] = at[q]
             \/ at'[q] = Current(now) /\ ~Attempted(file.lines, Current(now))
  <2>1. /\ Ready(p, "idle") /\ ~Attempted(mem[p], Current(now))
        /\ at' = [at EXCEPT ![p] = Current(now)]
    BY <1>8 DEF Claim
  <2>2. mem[p] = file.lines
    BY <2>1 DEF Ready, ChallengerInv, JournalInv, MemoryKept, Up
  <2>3. QED
    BY <1>1, <2>1, <2>2
<1>9. QED
  BY <1>2, <1>3, <1>5, <1>6, <1>7, <1>8 DEF ChallengerNext, challenger_vars, Observing

\* The lines of one journal are all of one registered experiment (config_sha256).
LEMMA OneExperiment == ChallengerInv => OneConfig
<1> SUFFICES ASSUME ChallengerInv, NEW i \in DOMAIN file.lines, NEW j \in DOMAIN file.lines
             PROVE  file.lines[i].config = file.lines[j].config
  BY DEF OneConfig
<1>1. file.lines # <<>>
  BY DEF ChallengerInv, JournalInv, FileShape
<1>2. QED
  BY <1>1 DEF ChallengerInv, JournalInv, Reopens, Recovers

\* Whatever cut the program off, a restarted experiment goes on from its journal: the whole
\* lines pass _recover again, all of one registered experiment (config_sha256), and what a
\* running one computes with is what the disk holds.
THEOREM AlwaysRecoverable == ChallengerSpec => []Recoverable
<1>1. ChallengerInv => TypeOK /\ Reopens /\ MemoryIsDurable
  BY DEF ChallengerInv, ChallengerShape, JournalInv, MemoryKept, Up, TypeOK, MemoryIsDurable
<1>2. ChallengerInv => Recoverable
  BY <1>1, OneExperiment DEF Recoverable
<1>3. QED
  BY <1>2, ChallengerInvHolds, PTL

\* "A crash after an OPPORTUNITY records a missed opportunity, never a retry".
THEOREM AttemptsNeverResumed == ChallengerSpec => NeverRetried
<1>1. ASSUME ChallengerInv, [ChallengerNext]_challenger_vars
      PROVE  NotResumed
  <2>1. SUFFICES ASSUME NEW m \in Markets, Attempted(file.lines, m), \A p \in Procs : at[p] # m
                 PROVE  /\ \A p \in Procs : at'[p] # m
                        /\ \A kind \in {"PREDICTION", "PAPER_FILL"} :
                             kind \in Kinds(file'.lines, m) => kind \in Kinds(file.lines, m)
    BY DEF NotResumed
  <2>2. m # 0
    BY ChallengerAssumption
  <2>3. \A p \in Procs : at'[p] # m
    BY <1>1, <2>1, <2>2, AttemptsTaken
  <2>4. ASSUME NEW kind \in {"PREDICTION", "PAPER_FILL"}, kind \in Kinds(file'.lines, m)
        PROVE  kind \in Kinds(file.lines, m)
    <3>1. CASE file'.lines = file.lines
      BY <2>4, <3>1
    <3>2. ASSUME NEW p \in Procs, pending[p] # Null, file'.lines = Append(file.lines, pending[p])
          PROVE  kind \in Kinds(file.lines, m)
      <4>1. /\ pending[p] \in Events /\ file.lines \in Seq(Events)
            /\ pending[p].type \in {"PREDICTION", "PAPER_FILL"} => pending[p].market = at[p]
        BY <1>1, <3>2 DEF ChallengerInv, JournalInv, FileShape, PendingValid
      <4>2. kind \in Kinds(file.lines, m) \cup (IF pending[p].market = m THEN {pending[p].type} ELSE {})
        BY <2>4, <3>2, <4>1, KindsAppend
      <4>3. QED
        BY <2>1, <4>1, <4>2
    <3>3. QED
      BY <1>1, <3>1, <3>2, LinesGrow
  <2>5. QED
    BY <2>3, <2>4
<1>2. QED
  BY <1>1, ChallengerInvHolds, PTL DEF ChallengerSpec, NeverRetried

\* The journal is an append-only log of whole events: every step of the experiment leaves its
\* lines or adds one, a crash in the middle of a write included.
THEOREM ExperimentImplementsLog == ChallengerSpec => ImplementsLog
<1>1. ChallengerInit => Log!Init
  BY DEF ChallengerInit, EmptyFile, Log!Init
<1>2. ASSUME ChallengerInv, [ChallengerNext]_challenger_vars
      PROVE  [Log!Grow]_(file.lines)
  <2>1. ASSUME NEW p \in Procs, pending[p] # Null, file'.lines = Append(file.lines, pending[p])
        PROVE  Log!Grow
    <3>1. pending[p] \in Events /\ file.lines \in Seq(Events)
      BY <1>2, <2>1 DEF ChallengerInv, JournalInv, FileShape
    <3>2. /\ file'.lines \in Seq(Events) /\ Len(file'.lines) = Len(file.lines) + 1
          /\ \A i \in 1 .. Len(file.lines) : file'.lines[i] = file.lines[i]
          /\ file'.lines[Len(file.lines) + 1] = pending[p] /\ Len(file.lines) \in Nat
      BY <2>1, <3>1, AppendProperties
    <3>3. IsPrefix(file.lines, file'.lines)
      BY <3>1, <3>2 DEF IsPrefix
    <3>4. Last(file'.lines) = pending[p] /\ WholeEvent(pending[p])
      BY <3>1, <3>2, ChallengerAssumption DEF Last, WholeEvent
    <3>5. QED
      BY <3>2, <3>3, <3>4 DEF Log!Grow, Log!IsPrefix, Log!Last, IsPrefix, Last
  <2>2. QED
    BY <1>2, <2>1, LinesGrow
<1>3. QED
  BY <1>1, <1>2, ChallengerInvHolds, PTL DEF ChallengerSpec, ImplementsLog, Log!Spec

----------------------------------------------------------------------------
(* The money of the experiment. *)

\* Of every market at most one event of each kind but errors.
OneOfEach(events) ==
  \A e, f \in ToSet(events) : e.type # "ERROR" /\ e.type = f.type /\ e.market = f.market => e = f

Sound(events) ==
  /\ OneOfEach(events)
  /\ Having(events, "SETTLEMENT") \subseteq Having(events, "PAPER_FILL")
  /\ balances(events).cash >= 0

\* An event of a kind is the one its market is asked for.
LEMMA EventIsThe ==
  ASSUME NEW s, OneOfEach(s), NEW e \in ToSet(s)
  PROVE  /\ e.type = "PAPER_FILL" => TheFill(s, e.market) = e
         /\ e.type = "SETTLEMENT" => TheSettlement(s, e.market) = e
<1>1. CASE e.type = "PAPER_FILL"
  <2> DEFINE P(x) == x \in ToSet(s) /\ x.market = e.market /\ x.type = "PAPER_FILL"
  <2>1. P(e) /\ \A x : P(x) => x = e
    BY <1>1 DEF OneOfEach
  <2>2. TheFill(s, e.market) = CHOOSE x : P(x)
    BY DEF TheFill
  <2>3. P(CHOOSE x : P(x))
    BY <2>1
  <2>4. QED
    BY <1>1, <2>1, <2>2, <2>3
<1>2. CASE e.type = "SETTLEMENT"
  <2> DEFINE P(x) == x \in ToSet(s) /\ x.market = e.market /\ x.type = "SETTLEMENT"
  <2>1. P(e) /\ \A x : P(x) => x = e
    BY <1>2 DEF OneOfEach
  <2>2. TheSettlement(s, e.market) = CHOOSE x : P(x)
    BY DEF TheSettlement
  <2>3. P(CHOOSE x : P(x))
    BY <2>1
  <2>4. QED
    BY <1>2, <2>1, <2>2, <2>3
<1>3. QED
  BY <1>1, <1>2

\* The markets of a kind of event are finitely many of the markets.
LEMMA HavingMarkets ==
  ASSUME NEW s \in Seq(Events), NEW kind \in Kind \ {"ERROR"}
  PROVE  /\ Having(s, kind) \subseteq Markets /\ IsFiniteSet(Having(s, kind))
         /\ \A m : kind \in Kinds(s, m) <=> m \in Having(s, kind)
<1>1. \A e \in ToSet(s) : e \in Events
  BY ElementOfSeq DEF ToSet
<1>2. Having(s, kind) \subseteq Markets
  BY <1>1 DEF Having, Events
<1>3. IsFiniteSet(Having(s, kind))
  BY <1>2, ChallengerAssumption, FS_Subset
<1>4. QED
  BY <1>2, <1>3 DEF Having, Kinds

\* What the fills of some markets cost and their settlements pay.
LEMMA SumsTyped ==
  ASSUME NEW s \in Seq(Events), OneOfEach(s), NEW ms \in SUBSET Having(s, "PAPER_FILL")
  PROVE  /\ \A m \in ms : TheFill(s, m) \in Events /\ TheFill(s, m) \in ToSet(s)
                          /\ TheFill(s, m).cost \in Nat
         /\ IsFiniteSet(ms) /\ [m \in ms |-> TheFill(s, m).cost] \in [ms -> Nat]
         /\ ms \subseteq Having(s, "SETTLEMENT") =>
              /\ \A m \in ms : TheSettlement(s, m) \in ToSet(s) /\ TheSettlement(s, m) \in Events
              /\ [m \in ms |-> TheFill(s, m).qty * TheSettlement(s, m).payout] \in [ms -> Nat]
<1>1. \A e \in ToSet(s) : e \in Events
  BY ElementOfSeq DEF ToSet
<1>2. IsFiniteSet(ms)
  BY HavingMarkets, FS_Subset DEF Kind
<1>3. \A m \in ms : TheFill(s, m) \in ToSet(s)
  BY EventIsThe DEF Having
<1>4. ms \subseteq Having(s, "SETTLEMENT") => \A m \in ms : TheSettlement(s, m) \in ToSet(s)
  BY EventIsThe DEF Having
<1>5. \A e, f \in Events :
        e.cost \in Nat /\ e.qty \in Nat /\ f.payout \in 0 .. 2 /\ e.qty * f.payout \in Nat
  BY DEF Events
<1>6. QED
  BY <1>1, <1>2, <1>3, <1>4, <1>5

\* Markets that had their fill, and their settlement, cost and earn the same behind one more line.
LEMMA SumsKept ==
  ASSUME NEW s \in Seq(Events), NEW e \in Events, OneOfEach(s), OneOfEach(Append(s, e)),
         NEW ms \in SUBSET Having(s, "PAPER_FILL")
  PROVE  /\ Costs(Append(s, e), ms) = Costs(s, ms)
         /\ \A m \in ms : TheFill(Append(s, e), m) = TheFill(s, m)
         /\ ms \subseteq Having(s, "SETTLEMENT") =>
              /\ Payouts(Append(s, e), ms) = Payouts(s, ms)
              /\ \A m \in ms : TheSettlement(Append(s, e), m) = TheSettlement(s, m)
<1>1. ToSet(s) \subseteq ToSet(Append(s, e))
  BY AppendSet
<1>2. \A m \in ms : TheFill(Append(s, e), m) = TheFill(s, m)
  BY <1>1, EventIsThe DEF Having
<1>3. ms \subseteq Having(s, "SETTLEMENT") =>
        \A m \in ms : TheSettlement(Append(s, e), m) = TheSettlement(s, m)
  BY <1>1, EventIsThe DEF Having
<1>4. [m \in ms |-> TheFill(Append(s, e), m).cost] = [m \in ms |-> TheFill(s, m).cost]
  BY <1>2
<1>5. ms \subseteq Having(s, "SETTLEMENT") =>
        [m \in ms |-> TheFill(Append(s, e), m).qty * TheSettlement(Append(s, e), m).payout]
          = [m \in ms |-> TheFill(s, m).qty * TheSettlement(s, m).payout]
  BY <1>2, <1>3
<1>6. QED
  BY <1>2, <1>3, <1>4, <1>5 DEF Costs, Payouts

\* One market more costs what its fill costs, and pays what its settlement pays.
LEMMA CostsInsert ==
  ASSUME NEW s \in Seq(Events), OneOfEach(s), NEW ms \in SUBSET Having(s, "PAPER_FILL"),
         NEW m \in Having(s, "PAPER_FILL"), m \notin ms
  PROVE  /\ Costs(s, ms \cup {m}) = Costs(s, ms) + TheFill(s, m).cost
         /\ Costs(s, ms) \in Nat /\ TheFill(s, m).cost \in Nat
<1> DEFINE f == [x \in ms \cup {m} |-> TheFill(s, x).cost]
           g == [x \in ms |-> TheFill(s, x).cost]
<1>1. IsFiniteSet(ms) /\ f \in [ms \cup {m} -> Nat] /\ g \in [ms -> Nat]
  <2>1. ms \cup {m} \in SUBSET Having(s, "PAPER_FILL")
    OBVIOUS
  <2>2. QED
    BY <2>1, SumsTyped
<1>2. \A x \in ms : f[x] = g[x]
  OBVIOUS
<1>3. f[m] = TheFill(s, m).cost
  OBVIOUS
<1>4. Costs(s, ms \cup {m}) = Total(f) /\ Costs(s, ms) = Total(g)
  BY DEF Costs
<1> HIDE DEF f, g
<1>5. Total(f) = Total(g) + f[m] /\ Total(f) \in Nat /\ Total(g) \in Nat /\ f[m] \in Nat
  BY <1>1, <1>2, TotalInsert
<1>6. QED
  BY <1>3, <1>4, <1>5

LEMMA PayoutsInsert ==
  ASSUME NEW s \in Seq(Events), OneOfEach(s), NEW m \in Having(s, "SETTLEMENT"),
         NEW ms \in SUBSET Having(s, "SETTLEMENT"), m \notin ms,
         Having(s, "SETTLEMENT") \subseteq Having(s, "PAPER_FILL")
  PROVE  /\ Payouts(s, ms \cup {m}) >= Payouts(s, ms)
         /\ {Payouts(s, ms \cup {m}), Payouts(s, ms)} \subseteq Nat
<1> DEFINE f == [x \in ms \cup {m} |-> TheFill(s, x).qty * TheSettlement(s, x).payout]
           g == [x \in ms |-> TheFill(s, x).qty * TheSettlement(s, x).payout]
<1>1. IsFiniteSet(ms) /\ f \in [ms \cup {m} -> Nat] /\ g \in [ms -> Nat]
  <2>1. ms \cup {m} \in SUBSET Having(s, "PAPER_FILL") /\ ms \cup {m} \subseteq Having(s, "SETTLEMENT")
        /\ ms \in SUBSET Having(s, "PAPER_FILL")
    OBVIOUS
  <2>2. QED
    BY <2>1, SumsTyped
<1>2. \A x \in ms : f[x] = g[x]
  OBVIOUS
<1>3. Payouts(s, ms \cup {m}) = Total(f) /\ Payouts(s, ms) = Total(g)
  BY DEF Payouts
<1> HIDE DEF f, g
<1>4. Total(f) = Total(g) + f[m] /\ Total(f) \in Nat /\ Total(g) \in Nat /\ f[m] \in Nat
  BY <1>1, <1>2, TotalInsert
<1>5. QED
  BY <1>3, <1>4

\* The sums of a journal are numbers.
LEMMA CashForm ==
  ASSUME NEW s \in Seq(Events), OneOfEach(s), Having(s, "SETTLEMENT") \subseteq Having(s, "PAPER_FILL"),
         NEW settled, settled = Having(s, "SETTLEMENT"),
         NEW open, open = Having(s, "PAPER_FILL") \ settled
  PROVE  /\ balances(s).cash = Capital + (Payouts(s, settled) - Costs(s, settled)) - Costs(s, open)
         /\ Payouts(s, settled) \in Nat /\ Costs(s, settled) \in Nat /\ Costs(s, open) \in Nat
         /\ Capital \in Nat
<1>1. balances(s).cash = Capital + (Payouts(s, settled) - Costs(s, settled)) - Costs(s, open)
  BY DEF balances
<1>2. /\ IsFiniteSet(settled) /\ IsFiniteSet(open)
      /\ [m \in settled |-> TheFill(s, m).cost] \in [settled -> Nat]
      /\ [m \in open |-> TheFill(s, m).cost] \in [open -> Nat]
      /\ [m \in settled |-> TheFill(s, m).qty * TheSettlement(s, m).payout] \in [settled -> Nat]
  <2>1. settled \in SUBSET Having(s, "PAPER_FILL") /\ open \in SUBSET Having(s, "PAPER_FILL")
    OBVIOUS
  <2>2. QED
    BY <2>1, SumsTyped
<1>3. QED
  BY <1>1, <1>2, TotalTyped, ChallengerAssumption DEF Costs, Payouts

LEMMA AtMostBoth ==
  ASSUME NEW a \in Int, NEW b \in Int, NEW n \in Int, n <= Min({a, b})
  PROVE  n <= a /\ n <= b
<1>1. \E x \in {a, b} : \A y \in {a, b} : x <= y
  OBVIOUS
<1>2. Min({a, b}) \in {a, b} /\ \A y \in {a, b} : Min({a, b}) <= y
  BY <1>1 DEF Min
<1>3. QED
  BY <1>2

\* A valid line keeps the journal sound: a fill is paid from the cash that is there, and a
\* settlement gives back what the fill had reserved.
LEMMA SoundAppend ==
  ASSUME NEW s \in Seq(Events), NEW e \in Events, Sound(s), Valid(s, e)
  PROVE  Sound(Append(s, e))
<1> DEFINE t == Append(s, e)
           filled == Having(s, "PAPER_FILL")
           settled == Having(s, "SETTLEMENT")
<1>0. SUFFICES Sound(t)
  OBVIOUS
<1>1. /\ t \in Seq(Events) /\ ToSet(t) = ToSet(s) \cup {e}
      /\ Having(t, "PAPER_FILL") = filled \cup (IF e.type = "PAPER_FILL" THEN {e.market} ELSE {})
      /\ Having(t, "SETTLEMENT") = settled \cup (IF e.type = "SETTLEMENT" THEN {e.market} ELSE {})
  BY AppendSet, HavingAppend, AppendProperties
<1>2. e.type # "ERROR" => e.type \notin Kinds(s, e.market)
  BY DEF Valid
<1>3. OneOfEach(t)
  <2>1. OneOfEach(s)
    BY DEF Sound
  <2>2. \A f \in ToSet(s) : ~(e.type # "ERROR" /\ f.type = e.type /\ f.market = e.market)
    BY <1>2 DEF Kinds
  <2>3. \A a, b \in ToSet(s) \cup {e} :
          a.type # "ERROR" /\ a.type = b.type /\ a.market = b.market => a = b
    BY <2>1, <2>2 DEF OneOfEach
  <2>4. QED
    BY <1>1, <2>3 DEF OneOfEach
<1>4. /\ \A m : "PAPER_FILL" \in Kinds(s, m) <=> m \in filled
      /\ \A m : "SETTLEMENT" \in Kinds(s, m) <=> m \in settled
  BY HavingMarkets DEF Kind
<1>5. settled \subseteq filled /\ OneOfEach(s) /\ balances(s).cash >= 0
  BY DEF Sound
<1>6. e.type = "SETTLEMENT" => e.market \in filled \ settled
  BY <1>2, <1>4 DEF Valid
<1>7. e.type = "PAPER_FILL" => e.market \notin filled
  BY <1>2, <1>4
<1> HIDE DEF t
<1>8. Having(t, "SETTLEMENT") \subseteq Having(t, "PAPER_FILL")
  BY <1>1, <1>5, <1>6
<1> DEFINE open == filled \ settled
<1>9. /\ balances(s).cash = Capital + (Payouts(s, settled) - Costs(s, settled)) - Costs(s, open)
      /\ Payouts(s, settled) \in Nat /\ Costs(s, settled) \in Nat /\ Costs(s, open) \in Nat
      /\ Capital \in Nat
  BY <1>5, CashForm
<1>10. \A ms \in SUBSET filled :
         /\ Costs(t, ms) = Costs(s, ms)
         /\ ms \subseteq settled => Payouts(t, ms) = Payouts(s, ms)
  BY <1>3, <1>5, SumsKept DEF t
<1>11. \A m \in filled : TheFill(t, m) = TheFill(s, m)
  <2>1. filled \in SUBSET filled
    OBVIOUS
  <2>2. QED
    BY <2>1, <1>3, <1>5, SumsKept DEF t
<1>12. settled \in SUBSET filled /\ open \in SUBSET filled
  BY <1>5
<1> DEFINE settled1 == Having(t, "SETTLEMENT")
           open1 == Having(t, "PAPER_FILL") \ settled1
<1>13. /\ balances(t).cash = Capital + (Payouts(t, settled1) - Costs(t, settled1)) - Costs(t, open1)
       /\ Payouts(t, settled1) \in Nat /\ Costs(t, settled1) \in Nat /\ Costs(t, open1) \in Nat
  BY <1>1, <1>3, <1>8, CashForm
<1>14. /\ open = filled \ settled /\ open1 = Having(t, "PAPER_FILL") \ settled1
       /\ settled1 = Having(t, "SETTLEMENT")
  OBVIOUS
<1> HIDE DEF filled, settled, open, settled1, open1
<1>15. CASE e.type \notin {"PAPER_FILL", "SETTLEMENT"}
  <2>1. settled1 = settled /\ open1 = open
    BY <1>1, <1>15, <1>14
  <2>2. QED
    BY <1>3, <1>5, <1>8, <1>9, <1>10, <1>12, <1>13, <2>1 DEF Sound
<1>16. CASE e.type = "PAPER_FILL"
  <2>1. settled1 = settled /\ open1 = open \cup {e.market} /\ e.market \notin open
        /\ e.market \in Having(t, "PAPER_FILL") /\ open \in SUBSET Having(t, "PAPER_FILL")
    BY <1>1, <1>5, <1>7, <1>16, <1>14
  <2>2. TheFill(t, e.market) = e
    BY <1>1, <1>3, <1>16, EventIsThe
  <2>3. Costs(t, open1) = Costs(t, open) + e.cost /\ e.cost \in Nat
    BY <1>1, <1>3, <2>1, <2>2, CostsInsert
  <2>4. e.cost <= balances(s).cash
    <3>1. e.cost <= Min({Stake, balances(s).cash})
      BY <1>16 DEF Valid
    <3>2. Stake \in Int /\ balances(s).cash \in Int /\ e.cost \in Int
      BY <1>9, <2>3, ChallengerAssumption
    <3>3. QED
      BY <3>1, <3>2, AtMostBoth
  <2>5. /\ Costs(t, open) = Costs(s, open) /\ Costs(t, settled) = Costs(s, settled)
        /\ Payouts(t, settled) = Payouts(s, settled)
    BY <1>10, <1>12
  <2>6. balances(t).cash >= 0
    BY <1>9, <1>13, <2>1, <2>3, <2>4, <2>5
  <2>7. QED
    BY <1>3, <1>8, <2>6, <1>14 DEF Sound
<1>17. CASE e.type = "SETTLEMENT"
  <2> DEFINE m == e.market
  <2>1. /\ settled1 = settled \cup {m} /\ m \notin settled /\ open1 = open \ {m} /\ m \in open
        /\ open = open1 \cup {m} /\ m \notin open1
        /\ m \in filled /\ open1 \in SUBSET filled
    BY <1>1, <1>6, <1>17, <1>14
  <2>2. Costs(s, open) = Costs(s, open1) + TheFill(s, m).cost /\ TheFill(s, m).cost \in Nat
        /\ Costs(s, open1) \in Nat
    <3>1. Costs(s, open1 \cup {m}) = Costs(s, open1) + TheFill(s, m).cost
          /\ TheFill(s, m).cost \in Nat /\ Costs(s, open1) \in Nat
      BY <1>5, <2>1, CostsInsert DEF filled
    <3>2. QED
      BY <2>1, <3>1
  <2>3. Costs(s, settled1) = Costs(s, settled) + TheFill(s, m).cost
    <3>1. Costs(s, settled \cup {m}) = Costs(s, settled) + TheFill(s, m).cost
      BY <1>5, <1>12, <2>1, CostsInsert DEF filled
    <3>2. QED
      BY <2>1, <3>1
  <2>4. /\ Costs(t, open1) = Costs(s, open1) /\ Costs(t, settled1) = Costs(s, settled1)
        /\ Payouts(t, settled) = Payouts(s, settled)
    <3>1. settled1 \in SUBSET filled
      BY <1>12, <2>1
    <3>2. QED
      BY <1>10, <1>12, <2>1, <3>1
  <2>5. Payouts(t, settled1) >= Payouts(t, settled)
    <3>1. m \in Having(t, "SETTLEMENT") /\ settled \in SUBSET Having(t, "SETTLEMENT")
      BY <1>1, <1>17
    <3>2. Payouts(t, settled \cup {m}) >= Payouts(t, settled)
      BY <1>1, <1>3, <1>8, <2>1, <3>1, PayoutsInsert
    <3>3. QED
      BY <2>1, <3>2
  <2> HIDE DEF m
  <2>6. balances(t).cash >= 0
    <3>1. Costs(t, settled1) + Costs(t, open1) = Costs(s, settled) + Costs(s, open)
      BY <1>9, <2>2, <2>3, <2>4
    <3>2. Payouts(t, settled1) >= Payouts(s, settled)
      BY <2>4, <2>5
    <3>3. balances(t).cash >= balances(s).cash /\ balances(s).cash \in Int /\ balances(t).cash \in Int
      BY <1>9, <1>13, <3>1, <3>2
    <3>4. QED
      BY <1>5, <3>3
  <2>7. QED
    BY <1>3, <1>8, <2>6, <1>14 DEF Sound
<1>18. QED
  BY <1>15, <1>16, <1>17

\* Over every crash and restart the fills are paid from cash that was there, and no settlement
\* is counted twice (balances, _validate).
THEOREM CashAlwaysCovered == ChallengerSpec => []CashCovered
<1> DEFINE CashInv == Sound(file.lines)
<1>1. ChallengerInit => CashInv
  <2>1. SUFFICES ASSUME ChallengerInit PROVE Sound(file.lines)
    OBVIOUS
  <2>2. ToSet(file.lines) = {} /\ file.lines \in Seq(Events)
    BY <2>1, EmptySeq DEF ChallengerInit, EmptyFile, ToSet
  <2>3. OneOfEach(file.lines) /\ \A kind : Having(file.lines, kind) = {}
    BY <2>2 DEF OneOfEach, Having
  <2>4. /\ balances(file.lines).cash
             = Capital + (Payouts(file.lines, {}) - Costs(file.lines, {})) - Costs(file.lines, {})
        /\ Capital \in Nat /\ Costs(file.lines, {}) \in Nat
    BY <2>2, <2>3, CashForm
  <2>5. Payouts(file.lines, {}) = Costs(file.lines, {}) /\ Costs(file.lines, {}) = 0
    <3>1. /\ [m \in {} |-> TheFill(file.lines, m).cost] = [m \in {} |-> 0]
          /\ [m \in {} |-> TheFill(file.lines, m).qty * TheSettlement(file.lines, m).payout]
               = [m \in {} |-> 0]
      OBVIOUS
    <3>2. Total([m \in {} |-> 0]) = 0
      BY FS_EmptySet, TotalZero
    <3>3. QED
      BY <3>1, <3>2 DEF Payouts, Costs
  <2>6. QED
    BY <2>3, <2>4, <2>5 DEF Sound
<1>2. ASSUME ChallengerInv, CashInv, [ChallengerNext]_challenger_vars
      PROVE  CashInv'
  <2>1. CASE file'.lines = file.lines
    BY <1>2, <2>1
  <2>2. ASSUME NEW p \in Procs, pending[p] # Null, file'.lines = Append(file.lines, pending[p])
        PROVE  CashInv'
    <3>1. /\ pending[p] \in Events /\ file.lines \in Seq(Events) /\ Valid(mem[p], pending[p])
          /\ mem[p] = file.lines
      BY <1>2, <2>2 DEF ChallengerInv, JournalInv, FileShape, MemoryKept, PendingValid
    <3>2. Sound(Append(file.lines, pending[p]))
      BY <1>2, <3>1, SoundAppend
    <3>3. QED
      BY <2>2, <3>2
  <2>3. QED
    BY <1>2, <2>1, <2>2, LinesGrow
<1>3. CashInv => CashCovered
  BY DEF Sound, CashCovered
<1> HIDE DEF CashInv
<1>4. QED
  BY <1>1, <1>2, <1>3, ChallengerInvHolds, PTL DEF ChallengerSpec

=============================================================================
