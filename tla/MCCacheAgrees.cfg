CONSTANTS
  p1 = p1
  Targets = {a}
  Timers = {t1}
  Procs = {p1}
  Home = p1
  MaxAdds = 1
  MaxSaves = 2
SPECIFICATION MemorySpec
INVARIANT CacheAgrees
CHECK_DEADLOCK FALSE
