\* A home agent and a backup: roaming motes, several options, the own mesh.
SPECIFICATION Spec
CONSTANTS
  a = a
  b = b
  g = g
  h = h
  NoGw = NoGw
  Self = Self
  NB = 3
  Nodes <- Motes
  Gws <- Routers
  Lifetime = 2
  DaoTimeout = 1
  Scopes <- All
SYMMETRY RoutersAlike
INVARIANTS
  HomeAgentTypeOK
  KernelAgrees
  Idempotent
  ListHoldsLocal
  CleanedInTime
PROPERTIES
  StampsGrow
CHECK_DEADLOCK FALSE
