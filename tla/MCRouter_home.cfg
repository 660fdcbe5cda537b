\* Two motes, the home agent and a backup, a network that loses, reorders and may duplicate.
SPECIFICATION RouterSpec
CONSTANTS
  a = a
  b = b
  h = h
  k = k
  Nodes <- TwoNodes
  Self = Self
  None = None
  NB = 3
  ND = 2
  Lifetime = 2
  DaoTimeout = 1
  MaxSeq = 3
  Hoag = h
  Backups <- OneBackup
  NoGw = NoGw
  NBackup = 1
  MaxEntry = 1
  MaxNonAck = 1
  LenMod = 256
  ByteMod = 256
  Networks = {FALSE, TRUE}
  Flight = 2
  MaxJoin = 2
SYMMETRY Symmetry
INVARIANTS
  RouterTypeOK
  HomeAgentHeard
  NoStaleBinding
CHECK_DEADLOCK FALSE
