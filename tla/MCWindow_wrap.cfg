\* Two motes, numbers that come round after 10, also while one mote is not refreshed.
SPECIFICATION FairSpec
CONSTANTS
  a = a
  b = b
  Nodes <- TwoNodes
  Range16 = 10
  Range8 = 2
  ND = 1
  MaxEntry = 1
  MaxNonAck = 1
  MaxOld = 4
  None = None
INVARIANTS
  AsIfUnbounded
  AcknowledgedIsTold
  WindowTypeOK
PROPERTIES
  ToldInTheEnd
CHECK_DEADLOCK FALSE
