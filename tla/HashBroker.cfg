\* Two topics compete for the one entry of the topic maps, two clients for the one
\* entry of an inner map.
SPECIFICATION Spec
CONSTANTS
  Topics = {t1, t2}
  Clients = {a, b}
  Packets = {p1}
  Absent = Absent
  MAX_TOPIC_ID = 1
  INNER_MAX_ENTRIES = 1
  U32 = 4
  MaxCount = 3
SYMMETRY Symmetry
INVARIANTS
  Complete
  Sound
  CalmExact
  MapUpdatesFit
  IInv
PROPERTIES
  RefinesPubSub
