CONSTANTS
  Senders = {s1, s2}
  Capacity = 3
SPECIFICATION ConnSpec
INVARIANTS
  ConnTypeOK
  NothingCutOff
PROPERTIES
  Drains
  SlowConsumerNoticed
  ClosesUncrowded
CHECK_DEADLOCK FALSE
