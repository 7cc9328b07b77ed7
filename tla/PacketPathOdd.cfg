\* "If length is odd, pad the last byte": refuted.
SPECIFICATION Spec
CONSTANTS
  MAX_TOPIC_ID_CHARS = 3
  MaxWords = 6
  Prefix <- MCPrefix
  Ports = {49152}
  Frames <- MCFrames
  Routes <- MCRoutes
  Names <- MCNames
  MaxFaults = 1
CHECK_DEADLOCK FALSE
INVARIANTS
  OddVerifies
