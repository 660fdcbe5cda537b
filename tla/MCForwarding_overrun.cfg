SPECIFICATION Spec
CONSTANTS
  n1 = n1  n2 = n2  wan = wan  self = self  selfll = selfll  nbrll = nbrll
  virtual = virtual  rplnodes = rplnodes  group = group  none = none
  Nodes <- TwoNodes  Wan <- wan  Self <- self  SelfLL <- selfll  NbrLL <- nbrll
  Virtual <- virtual  RplNodes <- rplnodes  Group <- group  None <- none
  Packets <- Overlong
  Learned <- Registered
  Loops = {"tun", "tty"}  TTL = 3  MTU = 160  MaxBody = 24
INVARIANTS
  ForwardTypeOK
CHECK_DEADLOCK FALSE
