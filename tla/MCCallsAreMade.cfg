CONSTANTS
  Callers = {c1, c2}
  Threshold = 1
  MaxAttempts = 1
  MaxFailures = 2
SPECIFICATION BreakerSpec
PROPERTY CallsAreMade
CHECK_DEADLOCK FALSE
