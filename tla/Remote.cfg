\* runOnRemote and one other goroutine with two calls of any kind; a camera
\* that subscribes twice.
SPECIFICATION FairSpec
CONSTANTS
  Main = main
  Others = {other}
  Subs = {s1, s2}
  Rounds = 2
  NoOne = NoOne
  NoSub = NoSub
INVARIANTS TypeOK OneSetupPerStop SentToCurrent
PROPERTIES CallsReturn
CHECK_DEADLOCK FALSE
