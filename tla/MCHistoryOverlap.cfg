CONSTANTS
  Threads = {t1}
  Slots = {s1}
  MaxRuns = 3
  RunLength = 1
  PageLimit = 1
  Forgotten = 2
  MaxViews = 0
  MaxLoadErrors = 0
SPECIFICATION HistorySpec
INVARIANT OverlapIsSuffix
CHECK_DEADLOCK FALSE
