\* Two peripherals, three calls of Connect, three reports of a state: one more
\* than Scan takes and its channel holds.
SPECIFICATION FairSpec
CONSTANTS
  Periphs = {x, y}
  Rounds = 3
  Reports = 3
  Nobody = Nobody
INVARIANTS TypeOK OwnConnection
PROPERTIES ConnectReturns
CHECK_DEADLOCK FALSE
