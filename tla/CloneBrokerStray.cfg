\* A FLUSH between XDP_CLONE_TX and a copy.
SPECIFICATION Spec
CONSTANTS
  Topics = {t1}
  Clients = {a}
  Packets = {p1}
  Absent = Absent
  NoAddr = NoAddr
  MAX_TOPIC_ID = 1
  MAX_SUBSCRIBERS = 1
INVARIANTS
  NoStray
