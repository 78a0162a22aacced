CONSTANTS
  r1 = r1
  r2 = r2
  t1 = t1
  Past = Past
  Run <- MCRun
  Thread <- MCThread
  ThreadOf <- MCThreadOf
  Strategies <- MCStrategies
SPECIFICATION Spec
INVARIANT OneInflightRun
CHECK_DEADLOCK FALSE
