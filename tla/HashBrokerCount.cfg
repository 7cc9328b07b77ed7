\* pub_counter_2 is read as the number of PUBLISH packets.
SPECIFICATION Spec
CONSTANTS
  Topics = {t1}
  Clients = {a}
  Packets = {p1}
  Absent = Absent
  MAX_TOPIC_ID = 1
  INNER_MAX_ENTRIES = 1
  U32 = 4
  MaxCount = 2
INVARIANTS
  CountedOnce
