\* Every gateway stays up and every announcement arrives.
SPECIFICATION Live
CONSTANTS
  h = h
  b = b
  r = r
  q = q
  NoGw = NoGw
  Motes = {n1}
  Gws <- Trio
  NBackup = 1
  NKnown = 4
  NDev = 4
  Scopes <- Staying
PROPERTIES
  BackupsMeet
CHECK_DEADLOCK FALSE
