\* As Trickle_dio.cfg.
SPECIFICATION TSpec
CONSTANTS
  Intmin = 12
  Doublings = 8
PROPERTIES
  IntervalsEquallyLong
