-------------------------------- MODULE Holdout --------------------------------
(***************************************************************************)
(* DevelopmentCheckpoint and the two evaluations that use it,              *)
(* evaluate_untouched_holdout and learn_validate_holdout: candidates are   *)
(* measured one by one, the best of those that pass is chosen, and only    *)
(* then the holdout is opened.  Several runs may share one directory.      *)
(* What an experiment measures is a function of its identity.              *)
(* Several experiments may be started on the directory, although it is     *)
(* meant for one.                                                          *)
(***************************************************************************)
EXTENDS NoValue, Integers, FiniteSets, FiniteSetsExt

CONSTANTS Procs, Identities,
          Last,          \* the candidate count
          Passes,        \* [Identities -> candidates that pass the gate]
          MaxRuns        \* bound of the starts

Candidates == 1 .. Last

ASSUME HoldoutAssumption ==
  /\ Last \in Nat /\ MaxRuns \in Nat
  /\ Passes \in [Identities -> SUBSET Candidates]
  /\ None \notin Identities

VARIABLES experiments,                                   \* those that are started here
          manifest, candidate, holdout_started, final,   \* the files of the directory
          opened,                                        \* holdouts measured so far
          pc, identity, index, eligible, reported, runs

disk == <<manifest, candidate, holdout_started, final>>
local == <<identity, index, eligible>>
holdout_vars == <<experiments, disk, opened, pc, local, reported, runs>>

\* One directory is used by one experiment.
Alone == \A a, b \in experiments : a = b

----------------------------------------------------------------------------
HoldoutInit ==
  /\ experiments \in SUBSET Identities
  /\ manifest = None /\ candidate = [i \in Candidates |-> None]
  /\ holdout_started = FALSE /\ final = None /\ opened = 0
  /\ pc = [p \in Procs |-> "down"] /\ identity = [p \in Procs |-> None]
  /\ index = [p \in Procs |-> 0] /\ eligible = [p \in Procs |-> {}]
  /\ reported = {} /\ runs = 0

At(p, label) == pc[p] = label
Goto(p, label) == pc' = [pc EXCEPT ![p] = label]

Ends(p) ==
  /\ Goto(p, "down") /\ identity' = [identity EXCEPT ![p] = None]
  /\ index' = [index EXCEPT ![p] = 0] /\ eligible' = [eligible EXCEPT ![p] = {}]

\* An exception, or the end of the process: every file is replaced as a whole.
Raises(p) == Ends(p) /\ UNCHANGED <<disk, opened, reported, runs>>
Crash(p) == ~At(p, "down") /\ Raises(p)

Result(p, spec) == [identity |-> identity[p], spec |-> spec]

\* DevelopmentCheckpoint.__init__: the manifest is looked for, then read or written.
DevelopmentCheckpoint(p, id) ==
  /\ At(p, "down") /\ runs < MaxRuns /\ runs' = runs + 1
  /\ manifest \in {None, id}
  /\ identity' = [identity EXCEPT ![p] = id]
  /\ Goto(p, IF manifest = None THEN "claiming" ELSE "loading")
  /\ UNCHANGED <<disk, opened, index, eligible, reported>>

WriteManifest(p) ==
  /\ At(p, "claiming") /\ manifest' = identity[p] /\ Goto(p, "loading")
  /\ UNCHANGED <<candidate, holdout_started, final, opened, local, reported, runs>>

\* load_final: a saved result of this experiment is the answer; one of another
\* experiment is corrupt here.
load_final(p) ==
  /\ At(p, "loading")
  /\ IF final = None
     THEN Goto(p, "checking") /\ UNCHANGED <<local, reported>>
     ELSE /\ reported' = IF final.identity = identity[p] THEN reported \cup {final} ELSE reported
          /\ Ends(p)
  /\ UNCHANGED <<disk, opened, runs>>

HoldoutClosed(p) ==
  /\ At(p, "checking") /\ ~holdout_started
  /\ Goto(p, "developing") /\ index' = [index EXCEPT ![p] = 1]
  /\ UNCHANGED <<disk, opened, identity, eligible, reported, runs>>

ReplayRefused(p) == At(p, "checking") /\ holdout_started /\ Raises(p)

----------------------------------------------------------------------------
(* Development. *)

Measuring(p) == At(p, "developing") /\ index[p] <= Last

Counted(p) ==
  /\ eligible' = [eligible EXCEPT ![p] = @ \cup ({index[p]} \cap Passes[identity[p]])]
  /\ index' = [index EXCEPT ![p] = @ + 1]

\* Mutant: a candidate that was restored is not gated again.
load_candidateUncounted(p) ==
  /\ Measuring(p) /\ candidate[index[p]] = identity[p]
  /\ index' = [index EXCEPT ![p] = @ + 1]
  /\ UNCHANGED <<disk, opened, pc, identity, eligible, reported, runs>>

load_candidate(p) ==
  /\ Measuring(p) /\ candidate[index[p]] = identity[p] /\ Counted(p)
  /\ UNCHANGED <<disk, opened, pc, identity, reported, runs>>

CorruptCandidate(p) ==
  /\ Measuring(p) /\ candidate[index[p]] \notin {None, identity[p]} /\ Raises(p)

\* The candidate is measured on train and validation, which takes long, ...
Measure(p) ==
  /\ Measuring(p) /\ candidate[index[p]] = None
  /\ Goto(p, "measured") /\ UNCHANGED <<disk, opened, local, reported, runs>>

\* ... then save_candidate looks whether the holdout has begun, and writes.
SaveAllowed(p) ==
  /\ At(p, "measured") /\ ~holdout_started
  /\ Goto(p, "saving") /\ UNCHANGED <<disk, opened, local, reported, runs>>

SaveRefused(p) == At(p, "measured") /\ holdout_started /\ Raises(p)

save_candidate(p) ==
  /\ At(p, "saving")
  /\ candidate' = [candidate EXCEPT ![index[p]] = identity[p]]
  /\ Counted(p) /\ Goto(p, "developing")
  /\ UNCHANGED <<manifest, holdout_started, final, opened, identity, reported, runs>>

----------------------------------------------------------------------------
(* The holdout. *)

Developed(p) == At(p, "developing") /\ index[p] > Last

save_final(p, spec) ==
  /\ final' = Result(p, spec) /\ reported' = reported \cup {Result(p, spec)}
  /\ Ends(p) /\ UNCHANGED <<manifest, candidate, holdout_started, opened, runs>>

NoCandidate(p) == Developed(p) /\ eligible[p] = {} /\ save_final(p, None)

\* begin_holdout creates the file exclusively, then the holdout is measured.
begin_holdout(p) ==
  /\ Developed(p) /\ eligible[p] # {} /\ ~holdout_started
  /\ holdout_started' = TRUE /\ opened' = opened + 1
  /\ Goto(p, "testing") /\ UNCHANGED <<manifest, candidate, final, local, reported, runs>>

HoldoutTaken(p) == Developed(p) /\ eligible[p] # {} /\ holdout_started /\ Raises(p)

\* The score orders the candidates; the number of a candidate stands for it.
Selected(p) == Max(eligible[p])
SaveResult(p) == At(p, "testing") /\ save_final(p, Selected(p))

RunStep(p) ==
  \/ WriteManifest(p) \/ load_final(p) \/ HoldoutClosed(p) \/ ReplayRefused(p)
  \/ load_candidate(p) \/ CorruptCandidate(p) \/ Measure(p)
  \/ SaveAllowed(p) \/ SaveRefused(p) \/ save_candidate(p)
  \/ NoCandidate(p) \/ begin_holdout(p) \/ HoldoutTaken(p) \/ SaveResult(p)

HoldoutNext ==
  /\ \E p \in Procs : RunStep(p) \/ Crash(p) \/ \E id \in experiments : DevelopmentCheckpoint(p, id)
  /\ UNCHANGED experiments

HoldoutSpec == HoldoutInit /\ [][HoldoutNext]_holdout_vars
----------------------------------------------------------------------------
(* Properties. *)

\* Every value stays in its set.
HoldoutTypeOK ==
  /\ experiments \subseteq Identities
  /\ manifest \in {None} \cup Identities /\ candidate \in [Candidates -> {None} \cup Identities]
  /\ holdout_started \in BOOLEAN /\ opened \in Nat /\ runs \in 0 .. MaxRuns
  /\ identity \in [Procs -> {None} \cup Identities] /\ index \in [Procs -> 0 .. Last + 1]
  /\ \A p \in Procs : eligible[p] \subseteq Candidates

\* The holdout is measured at most once in the life of the directory, over resumed runs,
\* runs side by side and crashes on either side of its opening (begin_holdout).
HoldoutOnce == opened <= 1

\* A directory reports one result: what two runs return is the same (load_final, save_final).
OneResult == Cardinality(reported) <= 1

\* The holdout is opened for the best of all the candidates that pass, never for the best
\* of those one run happened to measure before it stopped (learn_validate_holdout).
SelectedFromAll ==
  \A p \in Procs : At(p, "testing") =>
    Selected(p) = Max(Passes[identity[p]]) /\ \A i \in Candidates : candidate[i] = identity[p]

\* One directory belongs to one exact experiment: two runs past the constructor have the
\* same identity (DevelopmentCheckpoint).
OneExperiment ==
  \A p, q \in Procs : {pc[p], pc[q]} \cap {"down", "claiming"} = {} => identity[p] = identity[q]

\* After the holdout begins no candidate is any other than it was: nothing is added to what the
\* choice was made from.  A run that looked for the holdout before it began may still write
\* behind it (SaveAllowed, save_candidate), which the look was to prevent; it writes what is
\* there already, since a run only opens the holdout with all candidates on file.
Closed == holdout_started => candidate' = candidate

\* The holdout is measured at most once in the life of a directory; where it is of one
\* experiment, for the best of all candidates, none of which differs afterwards, and its
\* runs report one result (DevelopmentCheckpoint, evaluate_untouched_holdout).
MeasuredOnce ==
  /\ [](HoldoutTypeOK /\ HoldoutOnce /\ (Alone => OneResult /\ SelectedFromAll))
  /\ [][Alone => Closed]_holdout_vars
=============================================================================
