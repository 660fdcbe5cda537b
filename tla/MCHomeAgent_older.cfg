\* One mote and two border routers, updates that overtake each other.
SPECIFICATION Spec
CONSTANTS
  a = a
  b = b
  g = g
  h = h
  NoGw = NoGw
  Self = Self
  NB = 3
  Nodes <- Motes
  Gws <- Routers
  Lifetime = 2
  DaoTimeout = 1
  Scopes <- Home
PROPERTIES
  OlderIgnored
CHECK_DEADLOCK FALSE
