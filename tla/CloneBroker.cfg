\* Two topics compete for one entry of the topic maps; two clients, two slots: one
\* client can fill both.
SPECIFICATION Spec
CONSTANTS
  Topics = {t1, t2}
  Clients = {a, b}
  Packets = {p1}
  Absent = Absent
  NoAddr = NoAddr
  MAX_TOPIC_ID = 1
  MAX_SUBSCRIBERS = 2
SYMMETRY Symmetry
INVARIANTS
  CalmExact
  MapUpdatesFit
  IInv
PROPERTIES
  RefinesPubSub
