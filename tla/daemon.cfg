CONSTANTS
  None = None
  Markets = {a, b}
  Launches = {l1, l2}
  Payouts = {"paid"}
  Size = 2
  Watched = {a}
  MaxFaults = 1
SPECIFICATION FairSpec
PROPERTIES AttemptsFinal StopHonoured NothingLeftOpen
