\* A stream whose connection breaks.
SPECIFICATION FairSpec
CONSTANTS
  VideoCap = 1
  RespCap = 1
  Interval = 2
  MaxPackets = 3
  InCap = 2
PROPERTY ErrorEndsStream
CHECK_DEADLOCK FALSE
