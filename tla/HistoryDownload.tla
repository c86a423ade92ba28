---------------------------- MODULE HistoryDownload ----------------------------
(***************************************************************************)
(* The resumable download of research/btc_history_download.py and the      *)
(* merge of its shards.  Time is counted in five minute slots: the slot of *)
(* an event names it, and one candle stands for the five of its slot.      *)
(* One process per shard: nothing in the code locks an output directory.   *)
(***************************************************************************)
EXTENDS Integers, FiniteSets, FiniteSetsExt, Sequences, SequencesExt, LineFile

CONSTANT Jobs    \* what may be downloaded: a window, its shards and the venue's catalog

\* Where the window of a job is cut, and what the venue lists of one of its shards.
CutAt(j, s) == j.start + ((j.end - j.start) * s) \div j.count
Offered(j, s) == UNION {ToSet(j.feed[s][k]) : k \in DOMAIN j.feed[s]}

\* The rows of prices.jsonl and of checkpoint.jsonl; those of the other two files are slots.
PriceRows == [slot : Int, full : BOOLEAN]
Phases == {"init", "catalog", "prices", "candles", "complete", "run_finished"}
CheckpointRows == [phase : Phases, at : Int \cup (Int \X Int), done : BOOLEAN]

\* DownloadConfig, the arguments of the program, and bounds of the restarts and torn lines.
\* The query of a shard lists every resolved event of its own part of the window, and maybe others.
ASSUME JobsAssumption ==
  /\ {Null, Garbage, NoTail} \cap (Int \cup PriceRows \cup CheckpointRows) = {} /\ Garbage # NoTail
  /\ \A j \in Jobs :
       /\ {j.start, j.end, j.asOf} \subseteq Nat /\ j.start < j.end /\ j.end <= j.asOf
       /\ {j.count, j.batch, j.workers, j.span} \subseteq Nat \ {0}
       /\ {j.warmup, j.maxRuns, j.maxTorn} \subseteq Nat /\ j.flaky \subseteq Int
       /\ DOMAIN j.feed = 0 .. j.count - 1
       /\ \A s \in DOMAIN j.feed : j.feed[s] \in Seq(Seq([slot : Int, good : BOOLEAN])) \ {<<>>}
       /\ \A s, t \in DOMAIN j.feed : \A e \in Offered(j, t) :
            e.good /\ CutAt(j, s) <= e.slot /\ e.slot < CutAt(j, s + 1) => e \in Offered(j, s)

VARIABLES job, disk, config, observations, stage, script,
          existing, cursor, completed, queue, minute, runs, torn, merged

memory == <<existing, cursor, completed, queue, minute>>
bounds == <<job, runs, torn>>
download_vars == <<bounds, disk, config, observations, stage, script, memory, merged>>

Shards == 0 .. job.count - 1
Files == {"events", "checkpoint", "prices", "candles"}

----------------------------------------------------------------------------
(* The configuration and the rows of the files. *)

shard_start(s) == CutAt(job, s)
shard_end(s) == CutAt(job, s + 1)

\* A resolved two-sided event of the series, ended by the as-of time.
select_event(s, e) ==
  e.good /\ shard_start(s) <= e.slot /\ e.slot < shard_end(s) /\ e.slot + 1 <= job.asOf

\* read_jsonl: the lines that parse.
Rows(s, name) == AllLines(disk[s][name])
read_jsonl(s, name) == ToSet(Rows(s, name)) \ {Garbage}

Row(phase, at, done) == [phase |-> phase, at |-> at, done |-> done]

CatalogRows(s) ==
  {i \in DOMAIN Rows(s, "checkpoint") :
     Rows(s, "checkpoint")[i] # Garbage /\ Rows(s, "checkpoint")[i].phase = "catalog"}

checkpoint_state(s) ==
  IF CatalogRows(s) = {} THEN Row("catalog", 0, FALSE) ELSE Rows(s, "checkpoint")[Max(CatalogRows(s))]

completed_candle_batches(s) == {r.at : r \in {r \in read_jsonl(s, "checkpoint") : r.phase = "candles"}}

Write(file, row) == [file |-> file, row |-> row]
Idle(s, label) == stage[s] = label /\ script[s] = <<>>
Goto(s, label) == stage' = [stage EXCEPT ![s] = label]
Plan(s, writes) == script' = [script EXCEPT ![s] = writes]

----------------------------------------------------------------------------
DownloadInit ==
  /\ job \in Jobs
  /\ disk = [s \in Shards |-> [name \in Files |-> EmptyFile]]
  /\ config = [s \in Shards |-> Null] /\ observations = [s \in Shards |-> {}]
  /\ stage = [s \in Shards |-> "down"] /\ script = [s \in Shards |-> <<>>]
  /\ existing = [s \in Shards |-> {}] /\ cursor = [s \in Shards |-> 0]
  /\ completed = [s \in Shards |-> {}] /\ queue = [s \in Shards |-> <<>>]
  /\ minute = [s \in Shards |-> 0] /\ runs = [s \in Shards |-> 0]
  /\ torn = 0 /\ merged = Null

Ends(s) ==
  /\ Goto(s, "down") /\ Plan(s, <<>>)
  /\ existing' = [existing EXCEPT ![s] = {}] /\ cursor' = [cursor EXCEPT ![s] = 0]
  /\ completed' = [completed EXCEPT ![s] = {}] /\ queue' = [queue EXCEPT ![s] = <<>>]
  /\ minute' = [minute EXCEPT ![s] = 0]

\* append_jsonl: between two requests the lines are written one by one.
append_jsonl(s) ==
  /\ script[s] # <<>>
  /\ disk' = [disk EXCEPT ![s][Head(script[s]).file] = Written(@, Head(script[s]).row)]
  /\ Plan(s, Tail(script[s])) /\ UNCHANGED <<bounds, config, observations, stage, memory, merged>>

\* The process dies between two writes, or a request it does not catch fails.
Killed(s) ==
  /\ stage[s] # "down" /\ Ends(s) /\ UNCHANGED <<bounds, disk, config, observations, merged>>

\* It dies in a write: of a line, or of the configuration.
Tears(s) == torn < job.maxTorn /\ torn' = torn + 1 /\ UNCHANGED <<job, runs, observations, merged>>

LineTorn(s) ==
  /\ script[s] # <<>> /\ Ends(s) /\ Tears(s) /\ UNCHANGED config
  /\ \E f \in Interrupted(disk[s][Head(script[s]).file], Head(script[s]).row) :
       disk' = [disk EXCEPT ![s][Head(script[s]).file] = f]

ConfigTorn(s) ==
  /\ Idle(s, "config") /\ config[s] = Null /\ Ends(s) /\ Tears(s)
  /\ config' = [config EXCEPT ![s] = Garbage] /\ UNCHANGED disk

Begin(s) ==
  /\ stage[s] = "down" /\ runs[s] < job.maxRuns /\ runs' = [runs EXCEPT ![s] = @ + 1]
  /\ Goto(s, "config") /\ UNCHANGED <<job, disk, config, observations, script, memory, torn, merged>>

initialize_output(s) ==
  /\ Idle(s, "config") /\ config[s] # Garbage
  /\ config' = [config EXCEPT ![s] = "written"]
  /\ Plan(s, IF config[s] = Null THEN <<Write("checkpoint", Row("init", 0, FALSE))>> ELSE <<>>)
  /\ Goto(s, "reading") /\ UNCHANGED <<bounds, disk, observations, memory, merged>>

InitializeRaises(s) ==
  /\ Idle(s, "config") /\ config[s] = Garbage
  /\ Ends(s) /\ UNCHANGED <<bounds, disk, config, observations, merged>>

\* download_catalog, up to its loop.
ReadCatalog(s) ==
  /\ Idle(s, "reading")
  /\ existing' = [existing EXCEPT ![s] = read_jsonl(s, "events")]
  /\ cursor' = [cursor EXCEPT ![s] = checkpoint_state(s).at]
  /\ Goto(s, IF checkpoint_state(s).done THEN "prices" ELSE "catalog")
  /\ UNCHANGED <<bounds, disk, config, observations, script, completed, queue, minute, merged>>

\* Mutant: the checkpoint is written before the events it covers.
PageWritesAhead(slots, row) ==
  <<Write("checkpoint", row)>> \o [i \in DOMAIN slots |-> Write("events", slots[i])]

PageWrites(slots, row) ==
  [i \in DOMAIN slots |-> Write("events", slots[i])] \o <<Write("checkpoint", row)>>

\* A page arrives: its new events are appended, in an order nothing depends on, then the
\* checkpoint behind them.
FetchPage(s) ==
  LET page == cursor[s] + 1
      last == page = Len(job.feed[s])
      fresh == {e.slot : e \in {e \in ToSet(job.feed[s][page]) : select_event(s, e)}} \ existing[s]
  IN /\ Idle(s, "catalog")
     /\ Plan(s, PageWrites(SetToSeq(fresh), Row("catalog", IF last THEN 0 ELSE page, last)))
     /\ existing' = [existing EXCEPT ![s] = @ \cup fresh]
     /\ cursor' = [cursor EXCEPT ![s] = page]
     /\ Goto(s, IF last THEN "prices" ELSE "catalog")
     /\ UNCHANGED <<bounds, disk, config, observations, completed, queue, minute, merged>>

----------------------------------------------------------------------------
(* Prices and candles, side by side. *)

Priced(s) == {r.slot : r \in {r \in read_jsonl(s, "prices") : r.full}}

\* The slots in their order, a batch after the other.
Batches(slots) ==
  [i \in 1 .. (Cardinality(slots) + job.batch - 1) \div job.batch |->
    {x \in slots : Cardinality({y \in slots : y < x}) \div job.batch = i - 1}]

Gather(s) ==
  /\ Idle(s, "prices") /\ Goto(s, "fetching")
  /\ completed' = [completed EXCEPT ![s] = Priced(s)]
  /\ queue' = [queue EXCEPT ![s] = Batches(existing[s] \ Priced(s))]
  /\ minute' = [minute EXCEPT ![s] = shard_start(s) - job.warmup]
  /\ UNCHANGED <<bounds, disk, config, observations, script, existing, cursor, merged>>

\* The workers hold the first batches of the queue; any of them may be answered next.
InHand(s, i) == Idle(s, "fetching") /\ i \in 1 .. Min({job.workers, Len(queue[s])})

\* A record and a checkpoint for each event of the batch.
PriceWrites(slots, full) ==
  [k \in 1 .. 2 * Len(slots) |->
    IF k % 2 = 1 THEN Write("prices", [slot |-> slots[(k + 1) \div 2], full |-> slots[(k + 1) \div 2] \in full])
    ELSE Write("checkpoint", Row("prices", slots[k \div 2], TRUE))]

\* Each event has a history that covers every horizon or one that does not.
PricesFetched(s, i) ==
  /\ InHand(s, i)
  /\ \E full \in SUBSET queue[s][i] : Plan(s, PriceWrites(SetToSeq(queue[s][i]), full))
  /\ completed' = [completed EXCEPT ![s] = @ \cup queue[s][i]]
  /\ queue' = [queue EXCEPT ![s] = RemoveAt(@, i)]
  /\ UNCHANGED <<bounds, disk, config, observations, stage, existing, cursor, minute, merged>>

\* A batch that fails is left for a later run.
PricesFail(s, i) ==
  /\ InHand(s, i)
  /\ queue' = [queue EXCEPT ![s] = RemoveAt(@, i)]
  /\ UNCHANGED <<bounds, disk, config, observations, stage, script, existing, cursor, completed, minute, merged>>

\* The candles the venue has; the batch is complete whatever their number.
CandleWrites(slots, batch) ==
  [i \in DOMAIN slots |-> Write("candles", slots[i])] \o <<Write("checkpoint", Row("candles", batch, TRUE))>>

CandlesFetched(s) ==
  LET to == Min({minute[s] + job.span, shard_end(s)})
      batch == <<minute[s], to>>
  IN /\ Idle(s, "fetching") /\ minute[s] < shard_end(s)
     /\ IF batch \in completed_candle_batches(s) THEN UNCHANGED script
        ELSE \E missing \in SUBSET job.flaky :
               Plan(s, CandleWrites(SetToSeq((minute[s] .. to - 1) \ (missing \cup read_jsonl(s, "candles"))), batch))
     /\ minute' = [minute EXCEPT ![s] = to]
     /\ UNCHANGED <<bounds, disk, config, observations, stage, existing, cursor, completed, queue, merged>>

\* build_observations: the events that may give rows, at a horizon their last price
\* record is fresh for: every candle from the warm-up to their own slot is there.
PricePlaces(s, slot) ==
  {i \in DOMAIN Rows(s, "prices") : Rows(s, "prices")[i] # Garbage /\ Rows(s, "prices")[i].slot = slot}
HasPrice(s, slot) == PricePlaces(s, slot) # {}
LastPrice(s, slot) == Rows(s, "prices")[Max(PricePlaces(s, slot))]

build_observations(s) ==
  {slot \in read_jsonl(s, "events") :
     HasPrice(s, slot) /\ slot - job.warmup .. slot \subseteq read_jsonl(s, "candles")}

\* run_download after the gather, and the checkpoint of write_manifest.
write_manifest(s) ==
  LET pending == Cardinality(existing[s]) - Cardinality(completed[s])
  IN /\ Idle(s, "fetching") /\ queue[s] = <<>> /\ minute[s] >= shard_end(s)
     /\ observations' = [observations EXCEPT ![s] = build_observations(s)]
     /\ Plan(s, <<Write("checkpoint", Row(IF pending = 0 THEN "complete" ELSE "run_finished", 0, TRUE))>>)
     /\ Goto(s, "finished") /\ UNCHANGED <<bounds, disk, config, memory, merged>>

Finish(s) == Idle(s, "finished") /\ Ends(s) /\ UNCHANGED <<bounds, disk, config, observations, merged>>

\* merge_shards: at any time, once every shard has its configuration.  Its files are written
\* as one: a merge that was cut short is made again.
merge_shards ==
  LET events == UNION {read_jsonl(s, "events") : s \in Shards}
      available == UNION {{slot \in job.start .. job.end : HasPrice(s, slot) /\ LastPrice(s, slot).full} :
                          s \in Shards}
  IN /\ \A s \in Shards : config[s] = "written"
     /\ merged' = [events |-> events, available |-> available,
                   observations |-> UNION {observations[s] : s \in Shards},
                   complete |-> Cardinality(events) = Cardinality(available)]
     /\ UNCHANGED <<bounds, disk, config, observations, stage, script, memory>>

Run(s) ==
  \/ Begin(s) \/ initialize_output(s) \/ InitializeRaises(s) \/ ReadCatalog(s) \/ FetchPage(s)
  \/ Gather(s) \/ CandlesFetched(s) \/ write_manifest(s) \/ Finish(s)
  \/ append_jsonl(s) \/ Killed(s) \/ LineTorn(s) \/ ConfigTorn(s)
  \/ \E i \in 1 .. job.workers : PricesFetched(s, i) \/ PricesFail(s, i)

DownloadNext == merge_shards \/ \E s \in Shards : Run(s)

DownloadSpec == DownloadInit /\ [][DownloadNext]_download_vars
----------------------------------------------------------------------------
(* Properties. *)

Slots == job.start .. job.end - 1

\* Every value stays in its set; the candle cursor never passes the end of its shard.
DownloadTypeOK ==
  /\ \A s \in Shards :
       /\ config[s] \in {Null, "written", Garbage} /\ observations[s] \subseteq Slots
       /\ stage[s] \in {"down", "config", "reading", "catalog", "prices", "fetching", "finished"}
       /\ existing[s] \subseteq Slots /\ completed[s] \subseteq Slots
       /\ cursor[s] \in 0 .. Len(job.feed[s]) /\ minute[s] <= shard_end(s)
  /\ torn \in 0 .. job.maxTorn

\* What the checkpoint calls done is on the disk: every event selected from a page the
\* catalog will not ask for again is in events.jsonl (download_catalog), unless a crash tore
\* a line: the next line written is glued to it and lost, behind a checkpoint that counts it.
PagesDone(s) == IF checkpoint_state(s).done THEN Len(job.feed[s]) ELSE checkpoint_state(s).at
Selected(s, pages) == {e.slot : e \in {e \in UNION {ToSet(job.feed[s][k]) : k \in pages} : select_event(s, e)}}
CatalogCovered == torn = 0 => \A s \in Shards : Selected(s, 1 .. PagesDone(s)) \subseteq read_jsonl(s, "events")

\* Over any number of runs an event is on file once, in one shard (select_event, existing).
EventsOnce ==
  /\ \A s \in Shards : \A i, j \in DOMAIN Rows(s, "events") :
       Rows(s, "events")[i] = Rows(s, "events")[j] => i = j \/ Rows(s, "events")[i] = Garbage
  /\ \A s, t \in Shards : s # t => read_jsonl(s, "events") \cap read_jsonl(t, "events") = {}

\* A covering price history is never replaced by a later, worse one, torn lines
\* or not: build_observations and merge_shards take the last record of an event.
AvailableStays == \A s \in Shards : \A slot \in Priced(s) : LastPrice(s, slot).full

\* A run that ends complete has a price record for every event of the shard, unless a line
\* of it was torn (download_prices, write_manifest).
CompleteIsTrue ==
  torn = 0 => \A s \in Shards :
    stage[s] = "finished" /\ (\E r \in read_jsonl(s, "checkpoint") : r.phase = "complete")
    => \A slot \in existing[s] : HasPrice(s, slot)

\* When every catalog is complete, the merge has every resolved event of the requested
\* window and no other, wherever the window is cut, unless a line was torn (shard_start,
\* shard_end, merge_shards).
Listed == UNION {Offered(job, s) : s \in Shards}
Window == {e.slot : e \in {e \in Listed : e.good /\ e.slot + 1 <= job.asOf}} \cap Slots

Merging ==
  torn = 0 /\ merged' # merged /\ (\A s \in Shards : checkpoint_state(s).done)
    => merged'.events = Window /\ merged'.observations \subseteq merged'.events

\* What a download calls done is on the disk, and a covering history is never replaced by
\* a worse one; an event is on file once, in one shard, and the merge of complete shards
\* has every event of the window and no other (run_download, merge_shards).
DownloadSound ==
  /\ [](DownloadTypeOK /\ AvailableStays /\ CatalogCovered /\ CompleteIsTrue /\ EventsOnce)
  /\ [][Merging]_download_vars
=============================================================================
