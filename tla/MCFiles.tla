------------------------------- MODULE MCFiles -------------------------------
(***************************************************************************)
(* The programs that go on over what a torn or a failed write left in      *)
(* their files, for TLC: the JEV runner, the lag trader and the download   *)
(* of the history.  No step of one depends on another, so each behaviour   *)
(* is of one of them, its study, and the rest stays as it begins.          *)
(***************************************************************************)
EXTENDS Traders, HistoryDownload, TLC

VARIABLE study

\* Catalog pages of one shard, with events twice and outside of the window, and of two
\* shards whose pages repeat the event at the cut.
Listing(slot, good) == [slot |-> slot, good |-> good]
Narrow == (0 :> <<<<Listing(1, TRUE), Listing(0, TRUE)>>, <<Listing(0, TRUE), Listing(2, TRUE), Listing(2, TRUE)>>>>)
Cut == (0 :> <<<<Listing(0, TRUE), Listing(1, TRUE)>>>>)
    @@ (1 :> <<<<Listing(1, TRUE), Listing(2, TRUE), Listing(0, FALSE)>>>>)

\* Two workers and torn lines; missing candles and batches shorter than the window; shards.
Torn == [start |-> 0, end |-> 2, asOf |-> 2, count |-> 1, feed |-> Narrow, batch |-> 1, workers |-> 2,
         warmup |-> 1, flaky |-> {}, span |-> 4, maxRuns |-> 2, maxTorn |-> 1]
Resumed == [Torn EXCEPT !.batch = 2, !.workers = 1, !.flaky = {1}, !.span = 2, !.maxTorn = 0]
Sharded == [Torn EXCEPT !.end = 3, !.asOf = 3, !.count = 2, !.feed = Cut, !.batch = 3, !.workers = 1,
                        !.span = 3, !.maxRuns = 1, !.maxTorn = 0]
MCJobs == {Torn, Resumed, Sharded}

\* The JEV runner is looked at over one market and the half of another.
JevTime == 6

Init ==
  /\ study \in {"jev", "lag", "download"}
  /\ TradersInit /\ DownloadInit /\ (study = "download" \/ job = Torn)

Only(s) == study = s /\ UNCHANGED study

Next ==
  \/ Only("jev") /\ JevNext /\ now' <= JevTime /\ UNCHANGED <<lag_state, download_vars>>
  \/ Only("lag") /\ LagNext /\ UNCHANGED <<jev_state, download_vars>>
  \/ Only("download") /\ DownloadNext /\ UNCHANGED <<world, jev_state, lag_state>>

Spec == Init /\ [][Next]_<<study, traders_vars, download_vars>>
=============================================================================
