\* Three nodes and the INTERNAL route in four slots: the table never fills.
SPECIFICATION Spec
CONSTANTS
  a = a
  b = b
  c = c
  Nodes <- MCNodes
  Self = Self
  None = None
  NB = 4
  ND = 2
  Lifetime = 2
  DaoTimeout = 1
  MaxSeq = 6
SYMMETRY Symmetry
INVARIANTS
  OutListSorted
  DeletionIsOlder
  CheckSweeps
PROPERTIES
  NoSilentLoss
CHECK_DEADLOCK FALSE
