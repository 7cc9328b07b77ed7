\* "0.0 = zero loss": refuted.
SPECIFICATION Spec
CONSTANTS
  Setups <- MCSetups
  Pubs = {p1}
  MAX_TRACKED_PKTS = 1
  MaxLate = 1
CHECK_DEADLOCK FALSE
INVARIANTS
  ZeroLoss
