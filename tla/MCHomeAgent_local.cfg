\* One mote that goes from the mesh of the home agent to a border router.
SPECIFICATION Spec
CONSTANTS
  a = a
  b = b
  g = g
  h = h
  NoGw = NoGw
  Self = Self
  NB = 3
  Nodes <- Motes
  Gws <- Routers
  Lifetime = 2
  DaoTimeout = 1
  Scopes <- Alone
PROPERTIES
  LocalRoutesKept
CHECK_DEADLOCK FALSE
