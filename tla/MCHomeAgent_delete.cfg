\* One mote and one border router that loses it.
SPECIFICATION Spec
CONSTANTS
  a = a
  b = b
  g = g
  h = h
  NoGw = NoGw
  Self = Self
  NB = 3
  Nodes <- Motes
  Gws <- Routers
  Lifetime = 2
  DaoTimeout = 1
  Scopes <- Alone
INVARIANTS
  DeletionHeard
CHECK_DEADLOCK FALSE
