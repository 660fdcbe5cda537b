\* One mote, its updates repeated, windows without a live number, a length byte so
\* small that an update of three options is cut, and deletions whose stored
\* numbers are truncated from 2 on.
SPECIFICATION RouterSpec
CONSTANTS
  a = a
  b = b
  h = h
  k = k
  Nodes <- OneNode
  Self = Self
  None = None
  NB = 2
  ND = 2
  Lifetime = 2
  DaoTimeout = 1
  MaxSeq = 3
  Hoag = h
  Backups <- NoBackup
  NoGw = NoGw
  NBackup = 1
  MaxEntry = 1
  MaxNonAck = 2
  LenMod = 56
  ByteMod = 2
  Networks = {FALSE}
  Flight = 2
  MaxJoin = 1
INVARIANTS
  QuietIsTold
CHECK_DEADLOCK FALSE
