\* Two motes, numbers that come round after 8 while one mote is never refreshed.
SPECIFICATION Spec
CONSTANTS
  a = a
  b = b
  Nodes <- TwoNodes
  Range16 = 8
  Range8 = 4
  ND = 1
  MaxEntry = 1
  MaxNonAck = 1
  MaxOld = 5
  None = None
SYMMETRY Symmetry
INVARIANTS
  OldNodeSilences
CHECK_DEADLOCK FALSE
