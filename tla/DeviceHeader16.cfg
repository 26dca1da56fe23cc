\* An X3 shared by two goroutines: locked numbering, messages of two chunks,
\* a numbering cycle of three, so that four calls wrap around.
SPECIFICATION Spec
CONSTANTS
  Callers = {a, b}
  Rounds = 2
  Handlers = {h1, h2}
  MaxSeq = 3
  Pieces = 2
  Locked = TRUE
  Windowed = TRUE
  Kinds = {"control"}
  Verdicts = {"ok"}
  Pushes = 0
  NotifCap = 1
  NoCall = NoCall
SYMMETRY Symmetry
INVARIANTS TypeOK OwnAnswer StaysRegistered NoLeftovers
PROPERTIES AnswerKept ImplementsRpc
CHECK_DEADLOCK FALSE
