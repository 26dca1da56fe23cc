\* A camera that accepts the command and then says nothing more.
SPECIFICATION Spec
CONSTANTS
  Ops = {"join"}
  MaxPackets = 2
  InCap = 2
INVARIANT TimeoutIsAnError
CHECK_DEADLOCK FALSE
