CONSTANTS
  Tasks = 1
  Pool = 1
SPECIFICATION Spec
PROPERTY UsageTransferred
CHECK_DEADLOCK FALSE
