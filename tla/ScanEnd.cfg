\* A scan over HCI that ends: the command line, and the callback, go on.
SPECIFICATION Spec
CONSTANTS
  Cameras = {x, y}
  Matching = {x}
  Unparsable = {}
  ChCap = 1
  StopsRadio = FALSE
  AirCap = 2
  NoCam = NoCam
INVARIANT ScanEndsCleanly
CHECK_DEADLOCK FALSE
