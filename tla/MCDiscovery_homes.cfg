\* Another home agent leaves its slot: every binding is given that slot.
SPECIFICATION Spec
CONSTANTS
  h = h
  b = b
  r = r
  q = q
  NoGw = NoGw
  Motes = {n1}
  Gws <- Trio
  NBackup = 1
  NKnown = 3
  NDev = 4
  Scopes <- Rivals
INVARIANT BoundSlotAlwaysKnown
CHECK_DEADLOCK FALSE
