\* Every command; three cameras in range, one of which the filter matches and one
\* has an address that is refused, over D-Bus; the channel of found devices holds
\* one, so the callback may block on it.
SPECIFICATION FairSpec
CONSTANTS
  Cameras = {x, y, z}
  Matching = {x}
  Unparsable = {z}
  ChCap = 1
  StopsRadio = TRUE
  AirCap = 2
  NoCam = NoCam
INVARIANTS TypeOK HeardIsOffered SilentInitIsReady OkWasAnswered
PROPERTIES RunReturns SyncTaken
CHECK_DEADLOCK FALSE
