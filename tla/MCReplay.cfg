\* Five packets at most in the library, four in the socket part; a finished
\* simulation stops.
SPECIFICATION Spec
CONSTANTS
  HierClasses = {1}
  Classes = {1, 2}
  NumInvs = {0, 1}
  TimeSpan = 8
  Resolution = 4
  MemDelay = 2
  MaxClk = 5
  MaxPck = 5
  Horizon = 7
  NumCycles = 5
  NumPackets = 4
  MaxId = 5
  LibNodes = {0, 1, 2}
  LibVolumes <- OneEach
  Endpoints = {0, 1, 2}
  PronocMapping <- SameNumber
  SocNodes = {0, 1}
  SocVolumes <- OneOrTwo
CHECK_DEADLOCK FALSE
INVARIANTS
  DependenciesRespected
  EndsWhenQuiet
  TransactionsAccounted
  AnswersKnownPackets
PROPERTIES
  PlayersEnd
