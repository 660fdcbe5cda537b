\* One mote, a network that delivers in the end.
SPECIFICATION RouterLive
CONSTANTS
  a = a
  b = b
  h = h
  k = k
  Nodes <- OneNode
  Self = Self
  None = None
  NB = 2
  ND = 2
  Lifetime = 2
  DaoTimeout = 1
  MaxSeq = 2
  Hoag = h
  Backups <- NoBackup
  NoGw = NoGw
  NBackup = 1
  MaxEntry = 1
  MaxNonAck = 2
  LenMod = 256
  ByteMod = 256
  Networks = {FALSE}
  Flight = 2
  MaxJoin = 1
PROPERTIES
  ImplementsTable
  Announced
CHECK_DEADLOCK FALSE
