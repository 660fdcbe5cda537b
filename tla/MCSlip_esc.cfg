\* A peer that writes with tty_output, no noise, packets with an ESC.
SPECIFICATION Spec
CONSTANTS
  Size = 4
  Sends <- Packets
  MaxFrames = 2
  MaxAhead = 1
  MaxNoise = 0
PROPERTIES
  RoundTrip
CHECK_DEADLOCK FALSE
