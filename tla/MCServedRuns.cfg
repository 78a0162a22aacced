CONSTANTS
  Procs = {p1}
  Threads = {t1}
  Agents = {a1}
  Replicas = 1
  MaxContainers = 1
  MaxFaults = 0
  Routings <- OneProcOrOneThread
SPECIFICATION Spec
INVARIANT ServedRuns
