CONSTANTS
  p = p
  q = q
  a = a
  v = v
  Procs = {p, q}
  Paths = {a, b}
  Versions = {v, w}
  Markets = {1, 2}
  Capital = 3
  Stake = 2
  Orders <- OneOrder
  MaxTime = 9
  MaxErrors = 1
  Null = Null
  NoTail = NoTail
  Garbage = Garbage
SPECIFICATION FairSpec
CHECK_DEADLOCK FALSE
INVARIANTS Recoverable
PROPERTIES ImplementsLog AttemptsConclude
