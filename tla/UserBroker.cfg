\* Two topics, two clients.
SPECIFICATION Spec
CONSTANTS
  Topics = {t1, t2}
  Clients = {a, b}
  Msg = Msg
  Absent = Absent
INVARIANTS
  TypeOK
  Agreement
PROPERTIES
  RefinesPubSub
