CONSTANTS
  Targets = {a, b}
  Timers = {t1, t2}
  Procs = {p1}
  Home = p1
  MaxAdds = 3
  MaxSaves = 1
  MaxMessages = 3
  Topics = {c1, c2}
  MaxConcurrency = 2
  MaxCrashes = 1
SPECIFICATION Spec
INVARIANTS OneBatch QueuedIsScheduled TopicsApart
PROPERTIES CorrectionIsUsed EveryMessageAnswered
CHECK_DEADLOCK FALSE
