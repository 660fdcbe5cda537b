\* The bridge or a peer writes; one byte is changed or lost, or the line is opened late.
SPECIFICATION Spec
CONSTANTS
  Size = 4
  Sends <- Both
  MaxFrames = 4
  MaxAhead = 2
  MaxNoise = 1
INVARIANTS
  SlipTypeOK
  Resynchronised
PROPERTIES
  LineSpec
CHECK_DEADLOCK FALSE
