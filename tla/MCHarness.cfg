CONSTANTS
  Tools <- MCTools
  Responses <- MCResponses
  WindowSize = 4
  WarnThreshold = 2
  HardLimit = 3
  FreqWarn <- MCFreqWarn
  FreqHard <- MCFreqHard
  Attempts = 2
  MaxReminders = 2
  Callers = {c1, c2, c3}
  Threshold = 2
  MaxAttempts = 2
  MaxFailures = 4
  Ids = {i1, i2}
  MaxLength = 6
  MaxCalls = 2
  JournalRuns = {j1, j2}
  FlushThreshold = 2
  MaxEvents = 3
  MaxLostWrites = 1
  Calls = {l1, l2, l3}
  SyncCalls = {l3}
  Keys = {k1, k2}
  MaxSessions = 1
  MaxPools = 2
  Sections = {s1, s2, s3}
  Unknown = none
  Structures <- MCStructures
  MaxRetries = 1
  Threads = {t1, t2}
  Slots = {q1, q2, q3}
  MaxRuns = 2
  RunLength = 2
  PageLimit = 1
  Forgotten = 1
  MaxViews = 2
  MaxLoadErrors = 1
SPECIFICATION Spec
INVARIANTS StopIsAnnounced ProbeIsCarried RequestPaired StoredInOrder CompleteIsWhole HistoryOfThread
PROPERTIES RunEnds FlushIsComplete SessionUsable SectionsEnd HistoryLoads
CHECK_DEADLOCK FALSE
