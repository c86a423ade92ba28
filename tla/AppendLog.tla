------------------------------ MODULE AppendLog ------------------------------
(***************************************************************************)
(* What an append-only journal promises: a sequence of whole records that  *)
(* only grows, one record at a time, whatever happens to its writers.      *)
(***************************************************************************)
EXTENDS Naturals, Sequences, SequencesExt

CONSTANT IsRecord(_)    \* what may be in the log
VARIABLE log

Init == log = <<>>

Grow ==
  /\ Len(log') = Len(log) + 1
  /\ IsPrefix(log, log')
  /\ IsRecord(Last(log'))

Spec == Init /\ [][Grow]_log
=============================================================================
