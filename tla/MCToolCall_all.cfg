\* Every kind of call, with limits on either side of each other.
\* The call ends and the clock stops.
CHECK_DEADLOCK FALSE
SPECIFICATION Spec
CONSTANTS
  Calls <- MCCalls
  DefaultTimeout = 3
  DefaultCommand = 3
  WaitDelay = 2
  Margin = 3
  MaxTime = 12
  DefaultLines = 3
  DefaultBytes = 6
  DefaultHead = 2
  DefaultTail = 1
  Ceiling = 7
  MarkerLength = 2
  SuffixLength = 3
  Omitted = Omitted
INVARIANTS
  IInv
  NothingLeftRunning
  TimeoutMeansUnfinished
  RuntimeOutlastsServer
  ShapeSound
  InlineLargeHonoured
  WordsStayWords
PROPERTIES
  EveryCallAnswered
