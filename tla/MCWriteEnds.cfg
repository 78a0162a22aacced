CONSTANTS
  Tools <- MCTools
  Responses <- MCResponses
  WindowSize = 4
  WarnThreshold = 2
  HardLimit = 3
  FreqWarn <- MCFreqWarn
  FreqHard <- MCFreqHard
  Attempts = 2
  MaxReminders = 2
  Callers = {c1}
  Threshold = 2
  MaxAttempts = 1
  MaxFailures = 2
  Ids = {i1}
  MaxLength = 2
  MaxCalls = 2
  JournalRuns = {j1}
  FlushThreshold = 2
  MaxEvents = 1
  MaxLostWrites = 1
  Calls = {l1, l3}
  SyncCalls = {l3}
  Keys = {k1}
  MaxSessions = 1
  MaxPools = 1
  Sections = {s1, s2, s3}
  Unknown = none
  Structures <- MCStructures
  MaxRetries = 1
  Threads = {t1, t2}
  Slots = {q1}
  MaxRuns = 1
  RunLength = 2
  PageLimit = 1
  Forgotten = 1
  MaxViews = 2
  MaxLoadErrors = 1
SPECIFICATION Spec
PROPERTY WriteEnds
CHECK_DEADLOCK FALSE
