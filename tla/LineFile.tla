------------------------------ MODULE LineFile ------------------------------
(***************************************************************************)
(* A JSON-lines file of the research programs, opened to append.  A write  *)
(* adds one line; a crash or an error in the middle of it leaves a tail    *)
(* without newline: a part of the line, or the whole of it.  The next line *)
(* written behind a tail is glued to it and neither can be parsed again.   *)
(***************************************************************************)
EXTENDS Naturals, Sequences

CONSTANTS Null,      \* no value
          NoTail,    \* the file ends with a newline, or is empty
          Garbage    \* text that is not one JSON document

EmptyFile == [lines |-> <<>>, tail |-> NoTail]

\* What a reader that splits the text into lines finds, a last one without newline as well.
AllLines(file) == file.lines \o (IF file.tail = NoTail THEN <<>> ELSE <<file.tail>>)

Written(file, record) ==
  [lines |-> Append(file.lines, IF file.tail = NoTail THEN record ELSE Garbage),
   tail |-> NoTail]

\* What an interrupted write may leave: nothing, a part, all but the newline, all.
Interrupted(file, record) ==
  LET whole == IF file.tail = NoTail THEN record ELSE Garbage
  IN {file, Written(file, record)} \cup {[file EXCEPT !.tail = t] : t \in {Garbage, whole}}

\* Mutant: the last whole line is cut off with the tail.
TruncatedTooFar(file) == [file EXCEPT !.tail = NoTail, !.lines = SubSeq(@, 1, Len(@) - 1)]

Truncated(file) == [file EXCEPT !.tail = NoTail]
=============================================================================
