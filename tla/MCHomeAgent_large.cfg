\* Larger instances: two border routers.
SPECIFICATION Spec
CONSTANTS
  a = a
  b = b
  g = g
  h = h
  NoGw = NoGw
  Self = Self
  NB = 3
  Nodes <- Motes
  Gws <- Routers
  Lifetime = 2
  DaoTimeout = 1
  Scopes <- Large
SYMMETRY RoutersAlike
INVARIANTS
  HomeAgentTypeOK
  KernelAgrees
  Idempotent
  ListHoldsLocal
  CleanedInTime
PROPERTIES
  StampsGrow
CHECK_DEADLOCK FALSE
