\* Three nodes and three slots, the INTERNAL route in one of them: slots are recycled.
SPECIFICATION Spec
CONSTANTS
  a = a
  b = b
  c = c
  Nodes <- MCNodes
  Self = Self
  None = None
  NB = 3
  ND = 2
  Lifetime = 2
  DaoTimeout = 1
  MaxSeq = 5
INVARIANTS
  TableInv
PROPERTIES
  CheckTerminates
CHECK_DEADLOCK FALSE
