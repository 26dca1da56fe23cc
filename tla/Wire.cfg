\* Both formats; the last number before the wrap; each byte of a packet damaged in its
\* lowest bit and in the one of the mode byte, and every length.
SPECIFICATION Spec
CONSTANTS
  Formats = {"go2", "header16"}
  Numbers = {254}
  Asked <- SomeOperations
  Batteries <- SomeBatteries
  Stores <- SomeStores
  Infos <- SomeInfos
  Refusals <- SomeRefusals
  Pushes = 1
  MaxWrite = 47
  Harms = 1
  Flippable = {0, 2}
  None = None
INVARIANTS TypeOK HeardAsSent AnswerUnderstood
PROPERTY DamageUnheeded
CHECK_DEADLOCK FALSE
