\* Two runs of a loader that may overlap, two interfaces. All runs may be over.
SPECIFICATION Spec
CONSTANTS
  Loaders = {l1, l2}
  Daemons = {d1, d2}
  Ifaces = {e1, e2}
  Setups <- MCSetups
  None = None
SYMMETRY Symmetry
CHECK_DEADLOCK FALSE
INVARIANTS
  InCharge
  RestartSucceeds
  NoOrphans
  RetryEnds
  OneGeneration
  IInv
