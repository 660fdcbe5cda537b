\* Gateways that come and go: stopped, killed, started again, in another role.
SPECIFICATION Spec
CONSTANTS
  h = h
  b = b
  r = r
  q = q
  NoGw = NoGw
  Motes = {n1}
  Gws <- Trio
  NBackup = 1
  NKnown = 3
  NDev = 4
  Scopes <- All
INVARIANTS
  DiscoveryTypeOK
  SlotsInOrder
  TunnelsLead
  TunnelsClosed
  BoundSlotKnown
  BackupsMeetRouters
CHECK_DEADLOCK FALSE
