\* The comment on ZERO_LIFETIME against dao_input.
SPECIFICATION Spec
CONSTANTS
  a = a
  b = b
  c = c
  Nodes <- MCNodes
  Self = Self
  None = None
  NB = 4
  ND = 2
  Lifetime = 2
  DaoTimeout = 1
  MaxSeq = 7
PROPERTIES
  ZeroLifetimeRemoves
CHECK_DEADLOCK FALSE
