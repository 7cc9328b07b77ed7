\* Every command line and every capacity up to MaxRate. The search ends.
SPECIFICATION Spec
CONSTANTS
  MaxRate = 20
  ndr_iterations = 3
  Close = 1
CHECK_DEADLOCK FALSE
INVARIANTS
  TypeOK
  Bracket
  Encloses
  Accurate
  UnlimitedFinal
