\* One datagram or publisher of a trial is left for the next. The benchmark ends.
SPECIFICATION FairSpec
CONSTANTS
  Setups <- MCSetups
  Pubs = {p1}
  MAX_TRACKED_PKTS = 1
  MaxLate = 1
CHECK_DEADLOCK FALSE
INVARIANTS
  HiddenLoss
  NoFalseAlarm
  SampleExact
  IInv
PROPERTIES
  TrialsEnd
  Progress
