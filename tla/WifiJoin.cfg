\* All three commands, against a camera that sends up to four packets.
SPECIFICATION FairSpec
CONSTANTS
  Ops = {"join", "info", "stream"}
  MaxPackets = 4
  InCap = 2
INVARIANTS TypeOK CameraSaidSo RedialsJoined
PROPERTY JoinReturns
CHECK_DEADLOCK FALSE
