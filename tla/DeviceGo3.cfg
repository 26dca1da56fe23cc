\* A GO 3 used by one goroutine, as the command line does: unlocked numbering,
\* one packet per message, a numbering cycle of two under three calls, status
\* codes, and more unsolicited notifications than notificationCh holds.
SPECIFICATION FairSpec
CONSTANTS
  Callers = {a}
  Rounds = 3
  Handlers = {h1}
  MaxSeq = 2
  Pieces = 1
  Locked = FALSE
  Windowed = TRUE
  Kinds = {"query", "notify"}
  Verdicts = {"ok", "error"}
  Pushes = 2
  NotifCap = 1
  NoCall = NoCall
PROPERTIES ImplementsRpc EveryCallReturns AnswersTaken
CHECK_DEADLOCK FALSE
