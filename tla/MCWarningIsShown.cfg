CONSTANTS
  Tools <- MCTools
  Responses <- MCResponses
  WindowSize = 4
  WarnThreshold = 2
  HardLimit = 3
  FreqWarn <- MCFreqWarn
  FreqHard <- MCFreqHard
  Attempts = 2
  MaxReminders = 2
SPECIFICATION GuardSpec
INVARIANT WarningIsShown
CHECK_DEADLOCK FALSE
