\* Channels of one each, five packets from the camera, keep-alive every two
\* units of time.
SPECIFICATION FairSpec
CONSTANTS
  VideoCap = 1
  RespCap = 1
  Interval = 2
  MaxPackets = 5
  InCap = 2
INVARIANTS TypeOK WholePackets KeptAlive VideoInOrder
PROPERTIES CancelReturns NoOrphans
CHECK_DEADLOCK FALSE
