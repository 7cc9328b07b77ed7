\* Keys of three characters, six words. A packet ends with its verdict.
SPECIFICATION Spec
CONSTANTS
  MAX_TOPIC_ID_CHARS = 3
  MaxWords = 6
  Prefix <- MCPrefix
  Ports = {49152}
  Frames <- MCFrames
  Routes <- MCRoutes
  Names <- MCNames
  MaxFaults = 1
CHECK_DEADLOCK FALSE
INVARIANTS
  TypeOK
  KeysAgree
  TxVerifies
  WalkVerifies
  IInv
PROPERTIES
  SpoiledForGood
