\* A border router comes back as a backup while another has a binding.
SPECIFICATION Spec
CONSTANTS
  h = h
  b = b
  r = r
  q = q
  NoGw = NoGw
  Motes = {n1}
  Gws <- Four
  NBackup = 1
  NKnown = 4
  NDev = 4
  Scopes <- Promoted
PROPERTIES
  RightGatewayDeletes
CHECK_DEADLOCK FALSE
