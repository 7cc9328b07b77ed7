\* One topic, room for two clients and a third SUBSCRIBE. Liveness: no symmetry.
SPECIFICATION FairSpec
CONSTANTS
  Topics = {t1}
  Clients = {a, b}
  Packets = {p1}
  Absent = Absent
  MAX_TOPIC_ID = 1
  INNER_MAX_ENTRIES = 2
  U32 = 4
  MaxCount = 3
INVARIANTS
  IInv
PROPERTIES
  DaemonReturns
  PacketsFinish
  Progress
