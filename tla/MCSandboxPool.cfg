CONSTANTS
  Procs = {p1, p2}
  Threads = {t1, t2}
  Agents = {a1, a2}
  Replicas = 1
  MaxContainers = 2
  MaxFaults = 1
  Routings <- OneProcOrOneThread
SPECIFICATION Spec
INVARIANTS NotActiveAndWarm OneMaker NoneForgotten
SYMMETRY Symmetry
