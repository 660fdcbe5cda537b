\* What the property about settled gateways takes for a state at rest is one.
SPECIFICATION Spec
CONSTANTS
  h = h
  b = b
  r = r
  q = q
  NoGw = NoGw
  Motes = {n1}
  Gws <- Trio
  NBackup = 1
  NKnown = 3
  NDev = 4
  Scopes <- All
INVARIANTS
  QuietChangesNothing
CHECK_DEADLOCK FALSE
