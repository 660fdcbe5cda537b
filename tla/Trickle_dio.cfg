\* The default shortest interval, eight doublings: 4, 8, 16, ... 1048 seconds.
SPECIFICATION TSpec
CONSTANTS
  Intmin = 12
  Doublings = 8
INVARIANTS
  TrickleTypeOK
  DioInTime
PROPERTIES
  DioIsSent
