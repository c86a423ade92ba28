CONSTANTS
  Markets = {1, 2}
  MaxTime = 8
  Capital = 1
  MaxStake = 1
  Broken = {}
  MaxWriteErrors = 1
  MaxNotes = 2
  Jobs <- MCJobs
  Null = Null
  NoTail = NoTail
  Garbage = Garbage
SPECIFICATION Spec
CHECK_DEADLOCK FALSE
INVARIANTS JournalsAgree
PROPERTIES DownloadSound
