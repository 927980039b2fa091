\* One program of the host in each behaviour; a program that has ended stops.
SPECIFICATION Spec
CONSTANTS
  Scripted = TRUE
  MaxGlitches = 2
  Jobs <- LoaderJobs
  Files <- LoaderFiles
CHECK_DEADLOCK FALSE
INVARIANTS
  NoWordLost
  NoFalseAlarm
  ScanReachesRegister
  ShellAnswers
  LogIsWhatWasRead
  ImageComesBack
  MifIsMemory
