\* Two border routers for the one slot that a home agent and a backup have.
SPECIFICATION Spec
CONSTANTS
  h = h
  b = b
  r = r
  q = q
  NoGw = NoGw
  Motes = {n1}
  Gws <- Four
  NBackup = 1
  NKnown = 3
  NDev = 4
  Scopes <- Staying
INVARIANTS
  BackupsMeetRouters
CHECK_DEADLOCK FALSE
